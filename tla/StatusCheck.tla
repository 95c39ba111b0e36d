----------------------------- MODULE StatusCheck -----------------------------
(***************************************************************************)
(* automatic_updates: the status checks of the site, the cache of their    *)
(* results (Validation/StatusChecker.php), what drops it (PostApplyEvent,  *)
(* EventSubscriber/ConfigSubscriber.php) and the cron hook that mails the  *)
(* administrators when the results change (StatusCheckMailer.php).         *)
(*                                                                         *)
(* A request is a slot of Request.  Its start is the request time that     *)
(* every expiry is judged by; conf is automatic_updates.settings as the    *)
(* request first loaded it, since loaded configuration stays in its        *)
(* memory.  Every write to the key-value store and to the configuration is *)
(* a step of its own, and so are the checks, which take time.              *)
(***************************************************************************)
EXTENDS Integers, FiniteSets

CONSTANTS Request,         \* slots for requests that run at the same time
          Problem,         \* validation results that validators can report
          Errors,          \* those of severity REQUIREMENT_ERROR
          CronOnly,        \* those reported for the cron updater only
          Composer,        \* values of executables.composer
          None,            \* PHP's NULL
          Hour,            \* the 3600 seconds of automatic_updates_cron()
          TimeToLive,      \* $resultsTimeToLive, in ticks
          MaxTime          \* bound on the clock

Mode  == {"disable", "security", "patch"}           \* CronUpdater::getMode()
Level == {"disabled", "all", "errors_only"}         \* status_check_mail
Settings == [mode : Mode, level : Level]

Time == 0 .. MaxTime

\* What status_check_last_run holds.  Whether the checks ran for the cron
\* updater, and the Composer path they ran with, are not stored: they are
\* remembered for the properties.
Results == [problems : SUBSET Problem, forCron : BOOLEAN, composer : Composer,
            expire : 0 .. MaxTime + TimeToLive]
Finding == [problems : SUBSET Problem, composer : Composer]
Mail    == [problems : SUBSET Problem, level : Level]

ASSUME TimeAssumption == /\ Hour \in Nat \ {0}
                         /\ TimeToLive \in Nat \ {0}
                         /\ MaxTime \in Nat
ASSUME ProblemAssumption == Errors \cup CronOnly \subseteq Problem
ASSUME NoneAssumption ==
  /\ None \notin Results /\ None \notin Finding /\ None \notin Mail
  /\ None \notin Settings /\ None \notin Time
  /\ \A s \in SUBSET Problem : s # None

VARIABLES
  \* The key-value store and the configuration, shared by all requests.
  stored,                  \* status_check_last_run
  lastRun,                 \* status_check_timestamp
  settings,                \* automatic_updates.settings
  composer,                \* package_manager.settings, executables.composer
  \* The site and the clock.
  site,                    \* the problems the validators would find now
  clock,
  \* The requests.
  pc, kind, start, conf,
  last,                    \* $last_results of the cron hook
  found,                   \* $results of run()
  \* History, read by the properties only.
  mail,                    \* the last failure notification
  news,                    \* since then some check found something else, or
                           \* the results were dropped
  repeated,                \* a notification was sent without news
  told,                    \* stored problems that a notification was sent for
  missed,                  \* stored problems that a run found, of which no
                           \* cron hook sees that they are new
  interrupted              \* a request died with the settings saved and the
                           \* results of the old ones still stored

store   == <<stored, lastRun>>
config  == <<settings, composer>>
world   == <<site, clock>>
locals  == <<kind, start, conf, last, found>>
history == <<mail, news, repeated, told, missed, interrupted>>
vars == <<stored, lastRun, settings, composer, site, clock, pc, kind, start,
          conf, last, found, mail, news, repeated, told, missed, interrupted>>

PC == {"idle", "update", "read", "check", "store", "stamp", "notify", "done",
       "drop"}
Kind == {"cron", "other"}

TypeOK ==
  /\ stored \in Results \cup {None}
  /\ lastRun \in Time \cup {None}
  /\ settings \in Settings
  /\ composer \in Composer
  /\ site \in SUBSET Problem
  /\ clock \in Time
  /\ pc \in [Request -> PC]
  /\ kind \in [Request -> Kind]
  /\ start \in [Request -> Time]
  /\ conf \in [Request -> Settings \cup {None}]
  /\ last \in [Request -> {None} \cup SUBSET Problem]
  /\ found \in [Request -> Finding \cup {None}]
  /\ mail \in Mail \cup {None}
  /\ news \in BOOLEAN /\ repeated \in BOOLEAN
  /\ told \in SUBSET Problem /\ missed \in SUBSET Problem
  /\ interrupted \in BOOLEAN

\* config/install/automatic_updates.settings.yml, and no check made yet.
Init ==
  /\ stored = None /\ lastRun = None
  /\ settings = [mode |-> "disable", level |-> "errors_only"]
  /\ composer \in Composer
  /\ site \in SUBSET Problem
  /\ clock = 0
  /\ pc = [r \in Request |-> "idle"]
  /\ kind = [r \in Request |-> "other"]
  /\ start = [r \in Request |-> 0]
  /\ conf = [r \in Request |-> None]
  /\ last = [r \in Request |-> None]
  /\ found = [r \in Request |-> None]
  /\ mail = None /\ news = TRUE /\ repeated = FALSE
  /\ told = {} /\ missed = {} /\ interrupted = FALSE

-----------------------------------------------------------------------------
(***************************************************************************)
(* What the store holds for a request that started at t: getResults()      *)
(* gives None once the time to live has passed.                            *)
(***************************************************************************)
GetResults(t) ==
  IF stored = None THEN None
  ELSE IF stored.expire > t THEN stored.problems ELSE None

(***************************************************************************)
(* Do the checks for the stage that run() chooses: the cron updater unless *)
(* cron updates are disabled, the interactive updater then.                *)
(***************************************************************************)
ForCron(mode) == mode # "disable"

RunStatusCheck(mode) == {p \in site : p \in CronOnly => ForCron(mode)}

\* setWithExpire(..., $this->resultsTimeToLive * 60 * 60), by request time.
Expiry(t) == t + TimeToLive

\* The request time that run() stores as the time of the last run.
\* Mutant: the time at which the results expire.
StampExpiry(t) == Expiry(t)
Timestamp(t) == t

\* Mutant of RunNeeded: a recent run is enough, stored results or not.
RunOncePerHour(results, t) == lastRun = None \/ t - lastRun > Hour

\* automatic_updates_cron(): not more than once an hour unless there are no
\* results.
RunNeeded(results, t) ==
  results = None \/ lastRun = None \/ t - lastRun > Hour

(***************************************************************************)
(* The StatusCheckMailer.  Filtered() ignores warnings if it must;         *)
(* Different() is resultsAreDifferent(), in its own terms: the number of   *)
(* results, then every current result among the previous ones.             *)
(***************************************************************************)
\* Mutant of Previous: the previous results keep their warnings.
PreviousUnfiltered(level, results) == results

Filtered(level, results) ==
  IF level = "errors_only" THEN results \cap Errors ELSE results

Previous(level, results) ==
  IF results = None THEN None ELSE Filtered(level, results)

\* Mutant of Different: only the number of results is compared.
DifferentCount(previous, current) ==
  previous = None \/ Cardinality(previous) # Cardinality(current)

Different(previous, current) ==
  \/ previous = None
  \/ Cardinality(previous) # Cardinality(current)
  \/ \E p \in current : p \notin previous

SendFailureNotifications(level, previous, current) ==
  /\ level # "disabled"
  /\ level = "errors_only" => Filtered(level, current) # {}
  /\ Different(Previous(level, previous), Filtered(level, current))

(***************************************************************************)
(* onConfigSave() for automatic_updates.settings: are the stored results   *)
(* dropped when the settings change from old to new?                       *)
(***************************************************************************)
\* Mutant of DropsResults: only a change of the mail setting counts.
DropsForMail(old, new) ==
  new.level # old.level /\ new.level # "disabled"

DropsResults(old, new) ==
  \/ new.mode # old.mode /\ old.mode = "disable"
  \/ new.level # old.level /\ new.level # "disabled"

-----------------------------------------------------------------------------
(***************************************************************************)
(* Requests.                                                               *)
(***************************************************************************)
Goto(r, label) == pc' = [pc EXCEPT ![r] = label]

\* A request of kind k that loads the settings.
Begin(r, k, label) ==
  /\ pc[r] = "idle"
  /\ Goto(r, label)
  /\ kind' = [kind EXCEPT ![r] = k]
  /\ start' = [start EXCEPT ![r] = clock]
  /\ conf' = [conf EXCEPT ![r] = settings]
  /\ UNCHANGED <<last, found>>

\* The request is over, and what it had in memory is gone.
Finish(r) ==
  /\ Goto(r, "idle")
  /\ kind' = [kind EXCEPT ![r] = "other"]
  /\ start' = [start EXCEPT ![r] = 0]
  /\ conf' = [conf EXCEPT ![r] = None]
  /\ last' = [last EXCEPT ![r] = None]
  /\ found' = [found EXCEPT ![r] = None]

\* clearStoredResults(): the time of the last run stays.
ClearStoredResults ==
  /\ stored' = None
  /\ news' = TRUE
  /\ UNCHANGED <<lastRun, mail, repeated, told, missed, interrupted>>

(***************************************************************************)
(* automatic_updates_cron().  The core's cron service lets one run at a    *)
(* time.  handleCron() does nothing when cron updates are disabled;        *)
(* otherwise it may update the site, and the subrequest it makes for the   *)
(* post-apply tasks drops the results.                                     *)
(***************************************************************************)
CronBegin(r) ==
  /\ \A q \in Request : kind[q] # "cron"
  /\ Begin(r, "cron", "update")
  /\ UNCHANGED <<store, config, world, history>>

HandleCron(r) ==
  /\ pc[r] = "update"
  /\ Goto(r, "read")
  /\ \/ UNCHANGED <<store, history>>
     \/ conf[r].mode # "disable" /\ ClearStoredResults
  /\ UNCHANGED <<locals, config, world>>

ReadLastResults(r) ==
  /\ pc[r] = "read"
  /\ LET results == GetResults(start[r]) IN
       /\ last' = [last EXCEPT ![r] = results]
       /\ Goto(r, IF RunNeeded(results, start[r]) THEN "check" ELSE "notify")
       /\ news' = (news \/ results = None)
  /\ UNCHANGED <<store, config, world, kind, start, conf, found, mail,
                 repeated, told, missed, interrupted>>

\* run() outside cron: the status report, "Rerun readiness checks", the end
\* of an interactive update, modules installed or uninstalled.
Run(r) ==
  /\ Begin(r, "other", "check")
  /\ UNCHANGED <<store, config, world, history>>

RunIfNoStoredResults(r) == GetResults(clock) = None /\ Run(r)

(***************************************************************************)
(* run(): the checks, then the two writes.                                 *)
(***************************************************************************)
CheckStatus(r) ==
  /\ pc[r] = "check"
  /\ Goto(r, "store")
  /\ found' = [found EXCEPT ![r] =
                [problems |-> RunStatusCheck(conf[r].mode),
                 composer |-> composer]]
  /\ UNCHANGED <<store, config, world, kind, start, conf, last, history>>

StoreResults(r) ==
  /\ pc[r] = "store"
  /\ Goto(r, "stamp")
  /\ LET problems == found[r].problems IN
       /\ stored' = [problems |-> problems, forCron |-> ForCron(conf[r].mode),
                     composer |-> found[r].composer,
                     expire |-> Expiry(start[r])]
       /\ news' = (\/ news
                   \/ mail = None
                   \/ Filtered(mail.level, problems) # mail.problems)
       /\ told' = told \cap problems
       /\ missed' = IF kind[r] = "cron" THEN missed \cap problems
                    ELSE (missed \cap problems) \cup (problems \ told)
  /\ UNCHANGED <<lastRun, config, world, locals, mail, repeated, interrupted>>

StoreTimestamp(r) ==
  /\ pc[r] = "stamp"
  /\ lastRun' = Timestamp(start[r])
  /\ IF kind[r] = "cron" THEN Goto(r, "notify") /\ UNCHANGED locals
                         ELSE Finish(r)
  /\ UNCHANGED <<stored, config, world, history>>

(***************************************************************************)
(* The end of the cron hook: sendFailureNotifications() if cron updates    *)
(* are enabled.  Its $current_results is an array: when there are no       *)
(* results any more the call is a TypeError, which ends the hook.          *)
(***************************************************************************)
Notify(r) ==
  /\ pc[r] = "notify"
  /\ LET level   == conf[r].level
         current == GetResults(start[r])
     IN IF conf[r].mode # "disable" /\ current = None
        THEN Finish(r) /\ UNCHANGED history
        ELSE /\ Goto(r, "done")
             /\ UNCHANGED locals
             /\ IF /\ conf[r].mode # "disable"
                   /\ SendFailureNotifications(level, last[r], current)
                THEN /\ mail' = [problems |-> Filtered(level, current),
                                 level |-> level]
                     /\ repeated' = (/\ mail # None
                                     /\ mail.level = level
                                     /\ ~news)
                     /\ news' = FALSE
                     /\ told' = told \cup Filtered(level, current)
                     /\ missed' = missed \ told'
                     /\ UNCHANGED interrupted
                ELSE UNCHANGED history
  /\ UNCHANGED <<store, config, world>>

EndCron(r) ==
  /\ pc[r] = "done"
  /\ Finish(r)
  /\ UNCHANGED <<store, config, world, history>>

(***************************************************************************)
(* Saving configuration, and the subscriber that then drops the results.   *)
(***************************************************************************)
SaveSettings(r) ==
  /\ pc[r] = "idle"
  /\ \E new \in Settings \ {settings} :
       /\ settings' = new
       /\ Goto(r, IF DropsResults(settings, new) THEN "drop" ELSE "idle")
  /\ UNCHANGED <<store, composer, world, locals, history>>

SaveComposerPath(r) ==
  /\ pc[r] = "idle"
  /\ composer' \in Composer \ {composer}
  /\ Goto(r, "drop")
  /\ UNCHANGED <<store, settings, world, locals, history>>

DropResults(r) ==
  /\ pc[r] = "drop"
  /\ Goto(r, "idle")
  /\ ClearStoredResults
  /\ UNCHANGED <<locals, config, world>>

\* PostApplyEvent of a stage that is not cron's.
PostApply(r) ==
  /\ pc[r] = "idle"
  /\ ClearStoredResults
  /\ UNCHANGED <<pc, locals, config, world>>

(***************************************************************************)
(* The environment: a request dies, the site changes, time passes.         *)
(***************************************************************************)
\* What nobody is going to be told of when r dies: the problems cron stored
\* and has not mailed, or the results that the new settings do not drop.
LeftUntold(r) ==
  CASE pc[r] \in {"stamp", "notify"} /\ found[r] # None -> found[r].problems
    [] pc[r] = "drop" /\ stored # None -> stored.problems
    [] OTHER -> {}

Crash(r) ==
  /\ pc[r] # "idle"
  /\ Finish(r)
  /\ missed' = missed \cup (LeftUntold(r) \ told)
  /\ interrupted' = (interrupted \/ pc[r] = "drop")
  /\ UNCHANGED <<store, config, world, mail, news, repeated, told>>

SiteChanges ==
  /\ site' \in (SUBSET Problem) \ {site}
  /\ UNCHANGED <<pc, store, config, clock, locals, history>>

Tick ==
  /\ clock < MaxTime
  /\ clock' = clock + 1
  /\ UNCHANGED <<pc, store, config, site, locals, history>>

Step(r) ==
  \/ CronBegin(r) \/ HandleCron(r) \/ ReadLastResults(r)
  \/ Run(r) \/ RunIfNoStoredResults(r)
  \/ CheckStatus(r) \/ StoreResults(r) \/ StoreTimestamp(r)
  \/ Notify(r) \/ EndCron(r)
  \/ SaveSettings(r) \/ SaveComposerPath(r) \/ DropResults(r)
  \/ PostApply(r)
  \/ Crash(r)

Next == SiteChanges \/ Tick \/ \E r \in Request : Step(r)

Spec == Init /\ [][Next]_vars

-----------------------------------------------------------------------------
(***************************************************************************)
(* Properties.                                                             *)
(***************************************************************************)
\* The results that are stored while cron updates are enabled are those of
\* the checks for cron updates, and with the Composer that is configured:
\* onConfigSave() drops them in time, unless the request that saves dies
\* before it (ConfigSubscriber.php:59-79, StatusChecker::run()).
ResultsFitSettings ==
  stored # None /\ ~interrupted /\ (\A r \in Request : pc[r] # "drop") =>
    /\ ForCron(settings.mode) => stored.forCron
    /\ stored.composer = composer

\* When the cron hook is about to send notifications there are results to
\* compare: run() stored some, or those it read had not expired
\* (automatic_updates.module:181-192).
ResultsToNotify ==
  \A r \in Request :
    pc[r] = "notify" /\ conf[r].mode # "disable" =>
      GetResults(start[r]) # None

\* Nobody is mailed again for the failures of the last notification unless a
\* check found something else since, or the results were dropped or expired
\* (StatusCheckMailer::sendFailureNotifications, resultsAreDifferent).
NoRepeatedMail == ~repeated

\* When a cron hook that may send mail ends, a notification was sent for each
\* failure that is stored, or for reasons outside this hook none will be:
\* another caller of run() stored it first, or a request died.
FailuresAreMailed ==
  \A r \in Request :
    /\ pc[r] = "done"
    /\ conf[r].mode # "disable" /\ conf[r].level # "disabled"
    /\ GetResults(start[r]) # None
    => Filtered(conf[r].level, GetResults(start[r])) \subseteq told \cup missed
=============================================================================
