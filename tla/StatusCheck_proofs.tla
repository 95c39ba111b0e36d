-------------------------- MODULE StatusCheck_proofs --------------------------
(***************************************************************************)
(* Proofs about StatusCheck.tla.  The first part holds for any number of   *)
(* requests that overlap in any way, the second when no two do.            *)
(***************************************************************************)
EXTENDS StatusCheck, TLAPS

Cronly == {"update", "read", "notify", "done"}

\* What the local variables of a request hold where it stands.
Control ==
  \A r \in Request :
    /\ pc[r] \notin {"idle", "drop"} => conf[r] \in Settings
    /\ pc[r] \in {"idle", "drop"} => kind[r] = "other"
    /\ pc[r] \in Cronly => kind[r] = "cron"
    /\ pc[r] \in {"store", "stamp"} => found[r] # None

USE TimeAssumption, ProblemAssumption, NoneAssumption

-----------------------------------------------------------------------------
(* Types. *)

LEMMA ReadResults ==
  ASSUME TypeOK, NEW t \in Time, GetResults(t) # None
  PROVE  /\ stored # None
         /\ stored.expire > t
         /\ GetResults(t) = stored.problems
         /\ GetResults(t) \in SUBSET Problem
BY DEF GetResults, TypeOK, Results

LEMMA FilteredProblems ==
  ASSUME NEW level, NEW S \in SUBSET Problem
  PROVE  Filtered(level, S) \in SUBSET Problem
BY DEF Filtered

(***************************************************************************)
(* What StoreResults puts into the store.                                  *)
(***************************************************************************)
LEMMA StoredResults ==
  ASSUME TypeOK, Control, NEW r \in Request, StoreResults(r)
  PROVE  /\ found[r] \in Finding
         /\ stored' \in Results /\ stored' # None
         /\ stored'.problems = found[r].problems
         /\ stored'.expire = Expiry(start[r]) /\ Expiry(start[r]) > start[r]
<1>1. found[r] \in Finding /\ conf[r] \in Settings /\ start[r] \in Time
  BY DEF StoreResults, TypeOK, Control
<1>2. /\ Expiry(start[r]) \in 0 .. MaxTime + TimeToLive
      /\ Expiry(start[r]) > start[r]
  BY <1>1 DEF Expiry, Time
<1>3. stored' = [problems |-> found[r].problems,
                 forCron |-> ForCron(conf[r].mode),
                 composer |-> found[r].composer, expire |-> Expiry(start[r])]
  BY DEF StoreResults
<1>4. stored' \in Results
  BY <1>1, <1>2, <1>3 DEF Results, Finding, Settings, ForCron
<1> QED
  BY <1>1, <1>2, <1>3, <1>4

LEMMA InitTypes == Init => TypeOK /\ Control
<1> SUFFICES ASSUME Init PROVE TypeOK /\ Control
  OBVIOUS
<1>1. settings \in Settings
  BY DEF Init, Settings, Mode, Level
<1>2. 0 \in Time
  BY DEF Time
<1>3. TypeOK
  BY <1>1, <1>2 DEF Init, TypeOK, PC, Kind
<1>4. Control
  BY DEF Init, Control, Cronly
<1> QED
  BY <1>3, <1>4

LEMMA StepTypes == TypeOK /\ Control /\ [Next]_vars => TypeOK' /\ Control'
<1> SUFFICES ASSUME TypeOK, Control, [Next]_vars PROVE TypeOK' /\ Control'
  OBVIOUS
<1> USE DEF TypeOK, Control, PC, Kind, Cronly, Goto, store, config, world,
            locals, history
<1>1. ASSUME NEW r \in Request, CronBegin(r) PROVE TypeOK' /\ Control'
  BY <1>1 DEF CronBegin, Begin
<1>2. ASSUME NEW r \in Request, HandleCron(r) PROVE TypeOK' /\ Control'
  BY <1>2 DEF HandleCron, ClearStoredResults
<1>3. ASSUME NEW r \in Request, ReadLastResults(r) PROVE TypeOK' /\ Control'
  <2>1. GetResults(start[r]) \in {None} \cup SUBSET Problem
    BY ReadResults
  <2> QED
    BY <1>3, <2>1 DEF ReadLastResults
<1>4. ASSUME NEW r \in Request, Run(r) PROVE TypeOK' /\ Control'
  BY <1>4 DEF Run, Begin
<1>5. ASSUME NEW r \in Request, RunIfNoStoredResults(r)
       PROVE  TypeOK' /\ Control'
  BY <1>5 DEF RunIfNoStoredResults, Run, Begin
<1>6. ASSUME NEW r \in Request, CheckStatus(r) PROVE TypeOK' /\ Control'
  <2>1. [problems |-> RunStatusCheck(conf[r].mode), composer |-> composer]
          \in Finding
    BY DEF RunStatusCheck, Finding
  <2> QED
    BY <1>6, <2>1 DEF CheckStatus
<1>7. ASSUME NEW r \in Request, StoreResults(r) PROVE TypeOK' /\ Control'
  <2>1. found[r] \in Finding /\ stored' \in Results
    BY <1>7, StoredResults
  <2>2. told' \in SUBSET Problem /\ missed' \in SUBSET Problem
    BY <1>7, <2>1 DEF StoreResults, Finding
  <2>3. news' \in BOOLEAN
    BY <1>7 DEF StoreResults
  <2> QED
    BY <1>7, <2>1, <2>2, <2>3 DEF StoreResults
<1>8. ASSUME NEW r \in Request, StoreTimestamp(r) PROVE TypeOK' /\ Control'
  <2>1. lastRun' \in Time
    BY <1>8 DEF StoreTimestamp, Timestamp
  <2>2. 0 \in Time
    BY DEF Time
  <2> QED
    BY <1>8, <2>1, <2>2 DEF StoreTimestamp, Finish
<1>9. ASSUME NEW r \in Request, Notify(r) PROVE TypeOK' /\ Control'
  <2> DEFINE current == GetResults(start[r])
             level == conf[r].level
  <2>1. 0 \in Time
    BY DEF Time
  <2>2. CASE Finish(r) /\ UNCHANGED history
    BY <1>9, <2>1, <2>2 DEF Notify, Finish
  <2>3. CASE /\ conf[r].mode # "disable" => current # None
             /\ Goto(r, "done") /\ UNCHANGED locals
    <3>1. conf[r] \in Settings /\ level \in Level
      BY <1>9 DEF Notify, Settings
    <3>2. CASE UNCHANGED history
      BY <1>9, <2>3, <3>2 DEF Notify
    <3>3. CASE /\ current # None
               /\ mail' = [problems |-> Filtered(level, current),
                           level |-> level]
               /\ told' = told \cup Filtered(level, current)
               /\ missed' = missed \ told'
               /\ repeated' \in BOOLEAN /\ news' = FALSE
               /\ UNCHANGED interrupted
      <4>1. Filtered(level, current) \in SUBSET Problem
        BY <3>3, ReadResults, FilteredProblems
      <4>2. mail' \in Mail
        BY <3>1, <3>3, <4>1 DEF Mail
      <4> QED
        BY <1>9, <2>3, <3>3, <4>1, <4>2 DEF Notify
    <3> QED
      BY <1>9, <2>3, <3>2, <3>3 DEF Notify
  <2> QED
    BY <1>9, <2>2, <2>3 DEF Notify
<1>10. ASSUME NEW r \in Request, EndCron(r) PROVE TypeOK' /\ Control'
  <2>1. 0 \in Time
    BY DEF Time
  <2> QED
    BY <1>10, <2>1 DEF EndCron, Finish
<1>11. ASSUME NEW r \in Request, SaveSettings(r) PROVE TypeOK' /\ Control'
  BY <1>11 DEF SaveSettings
<1>12. ASSUME NEW r \in Request, SaveComposerPath(r) PROVE TypeOK' /\ Control'
  BY <1>12 DEF SaveComposerPath
<1>13. ASSUME NEW r \in Request, DropResults(r) PROVE TypeOK' /\ Control'
  BY <1>13 DEF DropResults, ClearStoredResults
<1>14. ASSUME NEW r \in Request, PostApply(r) PROVE TypeOK' /\ Control'
  BY <1>14 DEF PostApply, ClearStoredResults
<1>15. ASSUME NEW r \in Request, Crash(r) PROVE TypeOK' /\ Control'
  <2>1. 0 \in Time
    BY DEF Time
  <2>2. LeftUntold(r) \in SUBSET Problem
    BY DEF LeftUntold, Finding, Results
  <2> QED
    BY <1>15, <2>1, <2>2 DEF Crash, Finish
<1>16. ASSUME SiteChanges PROVE TypeOK' /\ Control'
  BY <1>16 DEF SiteChanges
<1>17. ASSUME Tick PROVE TypeOK' /\ Control'
  BY <1>17 DEF Tick, Time
<1>18. ASSUME UNCHANGED vars PROVE TypeOK' /\ Control'
  BY <1>18 DEF vars
<1> QED
  BY <1>1, <1>2, <1>3, <1>4, <1>5, <1>6, <1>7, <1>8, <1>9,
     <1>10, <1>11, <1>12, <1>13, <1>14, <1>15, <1>16, <1>17, <1>18
     DEF Next, Step

\* Every variable keeps its type, however many requests overlap, and the
\* local variables hold what the next step of a request reads.
THEOREM TypeCorrect == Spec => [](TypeOK /\ Control)
BY InitTypes, StepTypes, PTL DEF Spec

-----------------------------------------------------------------------------
(* Repeated notifications. *)

(***************************************************************************)
(* NoRepeatedMail, strengthened.  As long as there is no news since the    *)
(* last notification, the stored results are those it was about, and so    *)
(* are those that the one cron hook that runs is going to compare with.    *)
(***************************************************************************)
Unchanged(results) ==
  results # None /\ Filtered(mail.level, results) = mail.problems

Remembered ==
  /\ NoRepeatedMail
  /\ \A q, r \in Request : kind[q] = "cron" /\ kind[r] = "cron" => q = r
  /\ mail # None /\ ~news =>
       /\ stored # None
       /\ Unchanged(stored.problems)
       /\ \A r \in Request :
            /\ kind[r] = "cron"
            /\ pc[r] \in {"check", "store", "stamp", "notify"}
            => Unchanged(last[r])

LEMMA SameIsNotDifferent ==
  ASSUME NEW S \in SUBSET Problem PROVE ~Different(S, S)
BY DEF Different

LEMMA InitRemembered == Init => Remembered
BY DEF Init, Remembered, NoRepeatedMail

LEMMA StepRemembered ==
  TypeOK /\ Control /\ Remembered /\ [Next]_vars => Remembered'
<1> SUFFICES ASSUME TypeOK, Control, Remembered, [Next]_vars PROVE Remembered'
  OBVIOUS
<1> USE DEF TypeOK, Control, Remembered, NoRepeatedMail, Unchanged, PC, Kind,
            Cronly, Goto, store, config, world, locals, history
<1>1. ASSUME NEW r \in Request, CronBegin(r) PROVE Remembered'
  BY <1>1 DEF CronBegin, Begin
<1>2. ASSUME NEW r \in Request, HandleCron(r) PROVE Remembered'
  BY <1>2 DEF HandleCron, ClearStoredResults
<1>3. ASSUME NEW r \in Request, ReadLastResults(r) PROVE Remembered'
  <2> DEFINE results == GetResults(start[r])
  <2>1. results # None => stored # None /\ results = stored.problems
    BY ReadResults
  <2>2. /\ news' = (news \/ results = None)
        /\ last' = [last EXCEPT ![r] = results]
    BY <1>3 DEF ReadLastResults
  <2> QED
    BY <1>3, <2>1, <2>2 DEF ReadLastResults
<1>4. ASSUME NEW r \in Request, Run(r) PROVE Remembered'
  BY <1>4 DEF Run, Begin
<1>5. ASSUME NEW r \in Request, RunIfNoStoredResults(r) PROVE Remembered'
  BY <1>5 DEF RunIfNoStoredResults, Run, Begin
<1>6. ASSUME NEW r \in Request, CheckStatus(r) PROVE Remembered'
  BY <1>6 DEF CheckStatus, RunStatusCheck
<1>7. ASSUME NEW r \in Request, StoreResults(r) PROVE Remembered'
  <2>1. /\ found[r] \in Finding
        /\ stored'.problems = found[r].problems
        /\ stored' # None
    BY <1>7, StoredResults
  <2>2. found[r].problems # None
    BY <2>1 DEF Finding
  <2>3. mail # None /\ ~news' =>
          ~news /\ Filtered(mail.level, found[r].problems) = mail.problems
    BY <1>7 DEF StoreResults
  <2> QED
    BY <1>7, <2>1, <2>2, <2>3 DEF StoreResults
<1>8. ASSUME NEW r \in Request, StoreTimestamp(r) PROVE Remembered'
  BY <1>8 DEF StoreTimestamp, Timestamp, Finish
<1>9. ASSUME NEW r \in Request, Notify(r) PROVE Remembered'
  <2> DEFINE current == GetResults(start[r])
             level == conf[r].level
  <2>1. CASE Finish(r) /\ UNCHANGED history
    BY <1>9, <2>1 DEF Notify, Finish
  <2>2. CASE Goto(r, "done") /\ UNCHANGED locals /\ UNCHANGED history
    BY <1>9, <2>2 DEF Notify
  <2>3. CASE /\ conf[r].mode # "disable" => current # None
             /\ Goto(r, "done") /\ UNCHANGED locals
             /\ conf[r].mode # "disable"
             /\ SendFailureNotifications(level, last[r], current)
             /\ mail' = [problems |-> Filtered(level, current),
                         level |-> level]
             /\ repeated' = (/\ mail # None
                             /\ mail.level = level
                             /\ ~news)
             /\ news' = FALSE
    <3>1. /\ stored # None /\ current = stored.problems
          /\ current \in SUBSET Problem /\ current # None
      BY <2>3, ReadResults
    <3>2. ~repeated'
      <4> SUFFICES ASSUME mail # None, mail.level = level, ~news PROVE FALSE
        BY <2>3
      <4>1. pc[r] = "notify"
        BY <1>9 DEF Notify
      <4>2. last[r] # None /\ Filtered(level, last[r]) = mail.problems
        BY <4>1
      <4>3. Filtered(level, current) = mail.problems
        BY <3>1
      <4>4. Filtered(level, current) \in SUBSET Problem
        BY <3>1, FilteredProblems
      <4>5. ~Different(Previous(level, last[r]), Filtered(level, current))
        BY <4>2, <4>3, <4>4, SameIsNotDifferent DEF Previous
      <4> QED
        BY <2>3, <4>5 DEF SendFailureNotifications
    <3>3. \A q \in Request :
            ~(/\ kind'[q] = "cron"
              /\ pc'[q] \in {"check", "store", "stamp", "notify"})
      BY <1>9, <2>3 DEF Notify
    <3> QED
      BY <1>9, <2>3, <3>1, <3>2, <3>3 DEF Notify
  <2> QED
    BY <1>9, <2>1, <2>2, <2>3 DEF Notify
<1>10. ASSUME NEW r \in Request, EndCron(r) PROVE Remembered'
  BY <1>10 DEF EndCron, Finish
<1>11. ASSUME NEW r \in Request, SaveSettings(r) PROVE Remembered'
  BY <1>11 DEF SaveSettings
<1>12. ASSUME NEW r \in Request, SaveComposerPath(r) PROVE Remembered'
  BY <1>12 DEF SaveComposerPath
<1>13. ASSUME NEW r \in Request, DropResults(r) PROVE Remembered'
  BY <1>13 DEF DropResults, ClearStoredResults
<1>14. ASSUME NEW r \in Request, PostApply(r) PROVE Remembered'
  BY <1>14 DEF PostApply, ClearStoredResults
<1>15. ASSUME NEW r \in Request, Crash(r) PROVE Remembered'
  BY <1>15 DEF Crash, Finish
<1>16. ASSUME SiteChanges PROVE Remembered'
  BY <1>16 DEF SiteChanges
<1>17. ASSUME Tick PROVE Remembered'
  BY <1>17 DEF Tick
<1>18. ASSUME UNCHANGED vars PROVE Remembered'
  BY <1>18 DEF vars
<1> QED
  BY <1>1, <1>2, <1>3, <1>4, <1>5, <1>6, <1>7, <1>8, <1>9,
     <1>10, <1>11, <1>12, <1>13, <1>14, <1>15, <1>16, <1>17, <1>18
     DEF Next, Step

\* However many requests overlap, nobody is mailed again for the failures of
\* the last notification without news since.
THEOREM NotMailedTwice == Spec => []NoRepeatedMail
<1>1. Init => TypeOK /\ Control /\ Remembered
  BY InitTypes, InitRemembered
<1>2. /\ TypeOK /\ Control /\ Remembered /\ [Next]_vars
      => TypeOK' /\ Control' /\ Remembered'
  BY StepTypes, StepRemembered
<1>3. Remembered => NoRepeatedMail
  BY DEF Remembered
<1> QED
  BY <1>1, <1>2, <1>3, PTL DEF Spec

-----------------------------------------------------------------------------
(* One request at a time. *)

OneRequest == \A q, r \in Request : q = r

(***************************************************************************)
(* ResultsFitSettings, strengthened: so do those of a run under way.       *)
(***************************************************************************)
Fitting ==
  /\ ResultsFitSettings
  /\ \A r \in Request :
       /\ pc[r] \notin {"idle", "drop"} => conf[r] = settings
       /\ pc[r] = "store" => found[r].composer = composer

LEMMA InitFitting == Init => Fitting
BY DEF Init, Fitting, ResultsFitSettings

LEMMA StepFitting ==
  OneRequest /\ TypeOK /\ Control /\ Fitting /\ [Next]_vars => Fitting'
<1> SUFFICES ASSUME OneRequest, TypeOK, Control, Fitting, [Next]_vars
             PROVE  Fitting'
  OBVIOUS
<1> USE DEF OneRequest, TypeOK, Control, Fitting, ResultsFitSettings, ForCron,
            PC, Kind, Cronly, Goto, store, config, world, locals, history
<1>1. ASSUME NEW r \in Request, CronBegin(r) PROVE Fitting'
  BY <1>1 DEF CronBegin, Begin
<1>2. ASSUME NEW r \in Request, HandleCron(r) PROVE Fitting'
  BY <1>2 DEF HandleCron, ClearStoredResults
<1>3. ASSUME NEW r \in Request, ReadLastResults(r) PROVE Fitting'
  BY <1>3 DEF ReadLastResults
<1>4. ASSUME NEW r \in Request, Run(r) PROVE Fitting'
  BY <1>4 DEF Run, Begin
<1>5. ASSUME NEW r \in Request, RunIfNoStoredResults(r) PROVE Fitting'
  BY <1>5 DEF RunIfNoStoredResults, Run, Begin
<1>6. ASSUME NEW r \in Request, CheckStatus(r) PROVE Fitting'
  BY <1>6 DEF CheckStatus, RunStatusCheck
<1>7. ASSUME NEW r \in Request, StoreResults(r) PROVE Fitting'
  BY <1>7 DEF StoreResults, Expiry
<1>8. ASSUME NEW r \in Request, StoreTimestamp(r) PROVE Fitting'
  BY <1>8 DEF StoreTimestamp, Timestamp, Finish
<1>9. ASSUME NEW r \in Request, Notify(r) PROVE Fitting'
  <2>1. CASE Finish(r) /\ UNCHANGED history
    BY <1>9, <2>1 DEF Notify, Finish
  <2>2. CASE Goto(r, "done") /\ UNCHANGED locals
    <3>1. pc[r] = "notify" /\ UNCHANGED <<store, config>>
      BY <1>9 DEF Notify
    <3>2. UNCHANGED interrupted
      BY <1>9 DEF Notify
    <3> QED
      BY <2>2, <3>1, <3>2
  <2> QED
    BY <1>9, <2>1, <2>2 DEF Notify
<1>10. ASSUME NEW r \in Request, EndCron(r) PROVE Fitting'
  BY <1>10 DEF EndCron, Finish
<1>11. ASSUME NEW r \in Request, SaveSettings(r) PROVE Fitting'
  BY <1>11 DEF SaveSettings, DropsResults, Settings
<1>12. ASSUME NEW r \in Request, SaveComposerPath(r) PROVE Fitting'
  BY <1>12 DEF SaveComposerPath
<1>13. ASSUME NEW r \in Request, DropResults(r) PROVE Fitting'
  BY <1>13 DEF DropResults, ClearStoredResults
<1>14. ASSUME NEW r \in Request, PostApply(r) PROVE Fitting'
  BY <1>14 DEF PostApply, ClearStoredResults
<1>15. ASSUME NEW r \in Request, Crash(r) PROVE Fitting'
  <2>1. /\ Finish(r)
        /\ interrupted' = (interrupted \/ pc[r] = "drop")
        /\ UNCHANGED <<store, config>>
    BY <1>15 DEF Crash
  <2>2. \A q \in Request : pc'[q] = "idle"
    BY <2>1 DEF Finish
  <2>3. CASE pc[r] = "drop"
    BY <2>1, <2>2, <2>3
  <2>4. CASE pc[r] # "drop"
    BY <2>1, <2>2, <2>4
  <2> QED
    BY <2>3, <2>4
<1>16. ASSUME SiteChanges PROVE Fitting'
  BY <1>16 DEF SiteChanges
<1>17. ASSUME Tick PROVE Fitting'
  BY <1>17 DEF Tick
<1>18. ASSUME UNCHANGED vars PROVE Fitting'
  BY <1>18 DEF vars
<1> QED
  BY <1>1, <1>2, <1>3, <1>4, <1>5, <1>6, <1>7, <1>8, <1>9,
     <1>10, <1>11, <1>12, <1>13, <1>14, <1>15, <1>16, <1>17, <1>18
     DEF Next, Step

\* When requests do not overlap, the stored results were found for the
\* settings there are, unless the request that saved them died.
THEOREM StoredResultsFit == OneRequest => (Spec => []ResultsFitSettings)
<1> SUFFICES ASSUME OneRequest PROVE Spec => []ResultsFitSettings
  OBVIOUS
<1>1. Init => TypeOK /\ Control /\ Fitting
  BY InitTypes, InitFitting
<1>2. /\ TypeOK /\ Control /\ Fitting /\ [Next]_vars
      => TypeOK' /\ Control' /\ Fitting'
  BY StepTypes, StepFitting
<1>3. Fitting => ResultsFitSettings
  BY DEF Fitting
<1> QED
  BY <1>1, <1>2, <1>3, PTL DEF Spec

(***************************************************************************)
(* ResultsToNotify, strengthened: results that were read or stored by a    *)
(* request do not expire while it runs.                                    *)
(***************************************************************************)
Lasting ==
  \A r \in Request :
    pc[r] \in {"stamp", "notify"} => stored # None /\ stored.expire > start[r]

LEMMA StepLasting ==
  OneRequest /\ TypeOK /\ Control /\ Lasting /\ [Next]_vars => Lasting'
<1> SUFFICES ASSUME OneRequest, TypeOK, Control, Lasting, [Next]_vars
             PROVE  Lasting'
  OBVIOUS
<1> USE DEF OneRequest, TypeOK, Control, Lasting, PC, Kind, Cronly, Goto,
            store, config, world, locals, history
<1>1. ASSUME NEW r \in Request, CronBegin(r) PROVE Lasting'
  BY <1>1 DEF CronBegin, Begin
<1>2. ASSUME NEW r \in Request, HandleCron(r) PROVE Lasting'
  BY <1>2 DEF HandleCron, ClearStoredResults
<1>3. ASSUME NEW r \in Request, ReadLastResults(r) PROVE Lasting'
  <2>1. pc'[r] = "notify" => GetResults(start[r]) # None
    BY <1>3 DEF ReadLastResults, RunNeeded
  <2> QED
    BY <1>3, <2>1, ReadResults DEF ReadLastResults
<1>4. ASSUME NEW r \in Request, Run(r) PROVE Lasting'
  BY <1>4 DEF Run, Begin
<1>5. ASSUME NEW r \in Request, RunIfNoStoredResults(r) PROVE Lasting'
  BY <1>5 DEF RunIfNoStoredResults, Run, Begin
<1>6. ASSUME NEW r \in Request, CheckStatus(r) PROVE Lasting'
  BY <1>6 DEF CheckStatus, RunStatusCheck
<1>7. ASSUME NEW r \in Request, StoreResults(r) PROVE Lasting'
  <2>1. stored' # None /\ stored'.expire > start[r]
    BY <1>7, StoredResults
  <2> QED
    BY <1>7, <2>1 DEF StoreResults
<1>8. ASSUME NEW r \in Request, StoreTimestamp(r) PROVE Lasting'
  BY <1>8 DEF StoreTimestamp, Timestamp, Finish
<1>9. ASSUME NEW r \in Request, Notify(r) PROVE Lasting'
  <2>1. CASE Finish(r) /\ UNCHANGED history
    BY <1>9, <2>1 DEF Notify, Finish
  <2>2. CASE Goto(r, "done") /\ UNCHANGED locals
    BY <1>9, <2>2 DEF Notify
  <2> QED
    BY <1>9, <2>1, <2>2 DEF Notify
<1>10. ASSUME NEW r \in Request, EndCron(r) PROVE Lasting'
  BY <1>10 DEF EndCron, Finish
<1>11. ASSUME NEW r \in Request, SaveSettings(r) PROVE Lasting'
  BY <1>11 DEF SaveSettings
<1>12. ASSUME NEW r \in Request, SaveComposerPath(r) PROVE Lasting'
  BY <1>12 DEF SaveComposerPath
<1>13. ASSUME NEW r \in Request, DropResults(r) PROVE Lasting'
  BY <1>13 DEF DropResults, ClearStoredResults
<1>14. ASSUME NEW r \in Request, PostApply(r) PROVE Lasting'
  BY <1>14 DEF PostApply, ClearStoredResults
<1>15. ASSUME NEW r \in Request, Crash(r) PROVE Lasting'
  BY <1>15 DEF Crash, Finish
<1>16. ASSUME SiteChanges PROVE Lasting'
  BY <1>16 DEF SiteChanges
<1>17. ASSUME Tick PROVE Lasting'
  BY <1>17 DEF Tick
<1>18. ASSUME UNCHANGED vars PROVE Lasting'
  BY <1>18 DEF vars
<1> QED
  BY <1>1, <1>2, <1>3, <1>4, <1>5, <1>6, <1>7, <1>8, <1>9,
     <1>10, <1>11, <1>12, <1>13, <1>14, <1>15, <1>16, <1>17, <1>18
     DEF Next, Step

\* When requests do not overlap, the cron hook has results to pass on to
\* sendFailureNotifications().
THEOREM CronHasResults == OneRequest => (Spec => []ResultsToNotify)
<1> SUFFICES ASSUME OneRequest PROVE Spec => []ResultsToNotify
  OBVIOUS
<1>1. Init => TypeOK /\ Control /\ Lasting
  BY InitTypes DEF Init, Lasting
<1>2. /\ TypeOK /\ Control /\ Lasting /\ [Next]_vars
      => TypeOK' /\ Control' /\ Lasting'
  BY StepTypes, StepLasting
<1>3. TypeOK /\ Lasting => ResultsToNotify
  BY DEF TypeOK, Lasting, ResultsToNotify, GetResults, Results
<1> QED
  BY <1>1, <1>2, <1>3, PTL DEF Spec

(***************************************************************************)
(* FailuresAreMailed, strengthened: between hooks every stored failure is  *)
(* accounted for, and while a hook has yet to compare the results it       *)
(* stored, so is every failure it is going to take for an old one.         *)
(***************************************************************************)
MayMail == settings.mode # "disable" /\ settings.level # "disabled"

Outstanding(r) ==
  \/ pc[r] = "drop"
  \/ kind[r] = "cron" /\ pc[r] \in {"stamp", "notify"} /\ found[r] # None

Accounted(S) == Filtered(settings.level, S) \subseteq told \cup missed

Announced ==
  /\ MayMail /\ stored # None /\ (\A r \in Request : ~Outstanding(r))
       => Accounted(stored.problems)
  /\ \A r \in Request :
       /\ pc[r] \in {"idle", "drop"} => found[r] = None
       /\ pc[r] \in {"update", "read", "check"} => found[r] = None
       /\ MayMail /\ kind[r] = "cron" /\ last[r] # None =>
            /\ pc[r] \in {"check", "store"} => Accounted(last[r])
            /\ Outstanding(r) => Accounted(last[r] \cap found[r].problems)
       /\ Outstanding(r) /\ pc[r] # "drop" =>
            stored # None /\ stored.problems = found[r].problems

LEMMA StepAnnounced ==
  /\ OneRequest /\ TypeOK /\ Control /\ Fitting /\ Lasting /\ Announced
  /\ [Next]_vars
  => Announced'
<1> SUFFICES ASSUME OneRequest, TypeOK, Control, Fitting, Lasting, Announced,
                    [Next]_vars
             PROVE  Announced'
  OBVIOUS
<1> USE DEF OneRequest, TypeOK, Control, Announced, Outstanding, MayMail,
            Accounted, Filtered, PC, Kind, Cronly, Goto, store, config, world,
            locals, history
<1>1. ASSUME NEW r \in Request, CronBegin(r) PROVE Announced'
  BY <1>1 DEF CronBegin, Begin
<1>2. ASSUME NEW r \in Request, HandleCron(r) PROVE Announced'
  BY <1>2 DEF HandleCron, ClearStoredResults
<1>3. ASSUME NEW r \in Request, ReadLastResults(r) PROVE Announced'
  <2> DEFINE results == GetResults(start[r])
  <2>1. results # None => stored # None /\ results = stored.problems
    BY ReadResults
  <2>2. \A q \in Request : ~Outstanding(q)
    BY <1>3 DEF ReadLastResults
  <2>3. results # None /\ MayMail => Accounted(results)
    BY <2>1, <2>2
  <2>4. /\ last' = [last EXCEPT ![r] = results]
        /\ pc'[r] \in {"check", "notify"} /\ found'[r] = None
        /\ \A q \in Request : ~Outstanding(q)'
    BY <1>3 DEF ReadLastResults
  <2> QED
    BY <1>3, <2>1, <2>2, <2>3, <2>4 DEF ReadLastResults
<1>4. ASSUME NEW r \in Request, Run(r) PROVE Announced'
  BY <1>4 DEF Run, Begin
<1>5. ASSUME NEW r \in Request, RunIfNoStoredResults(r) PROVE Announced'
  BY <1>5 DEF RunIfNoStoredResults, Run, Begin
<1>6. ASSUME NEW r \in Request, CheckStatus(r) PROVE Announced'
  BY <1>6 DEF CheckStatus, RunStatusCheck
<1>7. ASSUME NEW r \in Request, StoreResults(r) PROVE Announced'
  <2>1. /\ found[r] \in Finding
        /\ stored' # None
        /\ stored'.problems = found[r].problems
    BY <1>7, StoredResults
  <2> DEFINE problems == found[r].problems
  <2>2. problems \in SUBSET Problem
    BY <2>1 DEF Finding
  <2>3. /\ pc[r] = "store" /\ pc' = [pc EXCEPT ![r] = "stamp"]
        /\ UNCHANGED <<locals, config>>
    BY <1>7 DEF StoreResults
  <2>4. told' = told \cap problems
    BY <1>7 DEF StoreResults
  <2>5. CASE kind[r] = "cron"
    <3>1. missed' = missed \cap problems
      BY <1>7, <2>5 DEF StoreResults
    <3>2. MayMail /\ last[r] # None => Accounted(last[r])
      BY <2>3, <2>5
    <3>3. MayMail /\ last[r] # None => Accounted(last[r] \cap problems)'
      BY <3>1, <3>2, <2>3, <2>4
    <3>4. Outstanding(r)'
      BY <2>3, <2>5, <2>1
    <3> QED
      BY <2>1, <2>3, <2>5, <3>3, <3>4
  <2>6. CASE kind[r] # "cron"
    <3>1. problems \subseteq told' \cup missed'
      BY <1>7, <2>4, <2>6 DEF StoreResults
    <3>2. Accounted(stored.problems)'
      BY <3>1, <2>1, <2>2
    <3> QED
      BY <2>1, <2>3, <2>6, <3>2
  <2> QED
    BY <2>5, <2>6
<1>8. ASSUME NEW r \in Request, StoreTimestamp(r) PROVE Announced'
  BY <1>8 DEF StoreTimestamp, Timestamp, Finish
<1>9. ASSUME NEW r \in Request, Notify(r) PROVE Announced'
  <2> DEFINE current == GetResults(start[r])
             level == conf[r].level
  <2>1. /\ pc[r] = "notify" /\ kind[r] = "cron"
        /\ conf[r] = settings
        /\ stored # None /\ stored.expire > start[r]
        /\ UNCHANGED <<store, config>>
    BY <1>9 DEF Notify, Fitting, Lasting
  <2>2. /\ current = stored.problems
        /\ current # None /\ current \in SUBSET Problem
    BY <2>1 DEF GetResults, Results
  <2>3. Goto(r, "done") /\ UNCHANGED locals
    BY <1>9, <2>2 DEF Notify
  <2>4. \A q \in Request : pc'[q] = "done" /\ ~Outstanding(q)'
    BY <2>3
  <2>5. MayMail =>
          Filtered(level, current) \subseteq told' \cup missed'
    <3> SUFFICES ASSUME MayMail
                 PROVE  Filtered(level, current) \subseteq told' \cup missed'
      OBVIOUS
    <3>1. CASE SendFailureNotifications(level, last[r], current)
      <4>1. told' = told \cup Filtered(level, current)
        BY <1>9, <2>1, <2>2, <3>1 DEF Notify
      <4> QED
        BY <4>1, <2>1
    <3>2. CASE ~SendFailureNotifications(level, last[r], current)
      <4>1. UNCHANGED history
        BY <1>9, <2>1, <2>2, <3>2 DEF Notify
      <4>2. CASE found[r] = None
        <5>1. \A q \in Request : ~Outstanding(q)
          BY <2>1, <4>2
        <5> QED
          BY <2>1, <2>2, <4>1, <5>1
      <4>3. CASE found[r] # None
        <5>1. current = found[r].problems
          BY <2>1, <2>2, <4>3
        <5>2. CASE Filtered(level, current) = {}
          BY <2>1, <4>1, <5>2
        <5>3. CASE Filtered(level, current) # {}
          <6>1. ~Different(Previous(level, last[r]), Filtered(level, current))
            BY <2>1, <3>2, <5>3 DEF SendFailureNotifications
          <6>2. last[r] # None /\ last[r] \in SUBSET Problem
            BY <6>1 DEF Different, Previous
          <6>3. Filtered(level, current) \subseteq Filtered(level, last[r])
            BY <6>1, <6>2 DEF Different, Previous
          <6>4. Accounted(last[r] \cap current)
            BY <2>1, <4>3, <5>1, <6>2
          <6> QED
            BY <2>1, <4>1, <6>3, <6>4
        <5> QED
          BY <5>2, <5>3
      <4> QED
        BY <4>2, <4>3
    <3> QED
      BY <3>1, <3>2
  <2>6. MayMail' => Accounted(stored.problems)'
    BY <2>1, <2>2, <2>5
  <2> QED
    BY <2>1, <2>3, <2>4, <2>6
<1>10. ASSUME NEW r \in Request, EndCron(r) PROVE Announced'
  BY <1>10 DEF EndCron, Finish
<1>11. ASSUME NEW r \in Request, SaveSettings(r) PROVE Announced'
  <2>1. PICK new \in Settings \ {settings} :
          /\ settings' = new
          /\ Goto(r, IF DropsResults(settings, new) THEN "drop" ELSE "idle")
    BY <1>11 DEF SaveSettings
  <2>2. /\ pc[r] = "idle"
        /\ UNCHANGED <<store, composer, world, locals, history>>
    BY <1>11 DEF SaveSettings
  <2>3. CASE DropsResults(settings, new)
    BY <2>1, <2>2, <2>3
  <2>4. CASE ~DropsResults(settings, new)
    <3>1. MayMail' => MayMail /\ new.level = settings.level
      BY <2>1, <2>4 DEF DropsResults
    <3>2. \A q \in Request : pc'[q] = "idle" /\ ~Outstanding(q)
      BY <2>1, <2>2, <2>4
    <3> QED
      BY <2>1, <2>2, <3>1, <3>2
  <2> QED
    BY <2>3, <2>4
<1>12. ASSUME NEW r \in Request, SaveComposerPath(r) PROVE Announced'
  BY <1>12 DEF SaveComposerPath
<1>13. ASSUME NEW r \in Request, DropResults(r) PROVE Announced'
  BY <1>13 DEF DropResults, ClearStoredResults
<1>14. ASSUME NEW r \in Request, PostApply(r) PROVE Announced'
  BY <1>14 DEF PostApply, ClearStoredResults
<1>15. ASSUME NEW r \in Request, Crash(r) PROVE Announced'
  <2>1. /\ Finish(r)
        /\ missed' = missed \cup (LeftUntold(r) \ told)
        /\ UNCHANGED <<store, config, told>>
    BY <1>15 DEF Crash
  <2>2. \A q \in Request : /\ pc'[q] = "idle" /\ kind'[q] = "other"
                            /\ found'[q] = None /\ ~Outstanding(q)'
    BY <2>1 DEF Finish
  <2>3. CASE ~Outstanding(r)
    BY <2>1, <2>2, <2>3
  <2>4. CASE Outstanding(r)
    <3>1. stored # None => LeftUntold(r) = stored.problems
      BY <2>4 DEF LeftUntold
    <3>2. stored # None => stored.problems \subseteq told' \cup missed'
      BY <2>1, <3>1
    <3> QED
      BY <2>1, <2>2, <3>2
  <2> QED
    BY <2>3, <2>4
<1>16. ASSUME SiteChanges PROVE Announced'
  BY <1>16 DEF SiteChanges
<1>17. ASSUME Tick PROVE Announced'
  BY <1>17 DEF Tick
<1>18. ASSUME UNCHANGED vars PROVE Announced'
  BY <1>18 DEF vars
<1> QED
  BY <1>1, <1>2, <1>3, <1>4, <1>5, <1>6, <1>7, <1>8, <1>9,
     <1>10, <1>11, <1>12, <1>13, <1>14, <1>15, <1>16, <1>17, <1>18
     DEF Next, Step

\* When requests do not overlap, the cron hook mails every stored failure but
\* those that another caller of run() stored first, or that were left by a
\* request that died.
THEOREM FailuresMailed == OneRequest => (Spec => []FailuresAreMailed)
<1> SUFFICES ASSUME OneRequest PROVE Spec => []FailuresAreMailed
  OBVIOUS
<1> DEFINE Inv == TypeOK /\ Control /\ Fitting /\ Lasting /\ Announced
<1>1. Init => Inv
  BY InitTypes, InitFitting DEF Init, Lasting, Announced, Outstanding
<1>2. Inv /\ [Next]_vars => Inv'
  BY StepTypes, StepFitting, StepLasting, StepAnnounced
<1>3. Inv => FailuresAreMailed
  <2> SUFFICES ASSUME Inv, NEW r \in Request, pc[r] = "done",
                      conf[r].mode # "disable", conf[r].level # "disabled",
                      GetResults(start[r]) # None
               PROVE  Filtered(conf[r].level, GetResults(start[r]))
                        \subseteq told \cup missed
    BY DEF FailuresAreMailed
  <2>1. conf[r] = settings
    BY DEF Fitting
  <2>2. stored # None /\ GetResults(start[r]) = stored.problems
    BY ReadResults DEF TypeOK
  <2>3. \A q \in Request : ~Outstanding(q)
    BY DEF OneRequest, Outstanding
  <2> QED
    BY <2>1, <2>2, <2>3 DEF Announced, MayMail, Accounted
<1> QED
  BY <1>1, <1>2, <1>3, PTL DEF Spec

=============================================================================
