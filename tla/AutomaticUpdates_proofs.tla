----------------------- MODULE AutomaticUpdates_proofs -----------------------
(***************************************************************************)
(* Theorems about AutomaticUpdates.tla, for any sessions, stage IDs and    *)
(* releases.                                                               *)
(***************************************************************************)
EXTENDS AutomaticUpdates, TLAPS

\* The steps, with those of an actor apart from those of cron or a user only.
ActorStep(a) ==
  \/ BeginMetadata(a) \/ Created(a) \/ Staged(a) \/ Committed(a)
  \/ CreateRefused(a) \/ PreCreateFails(a) \/ CreateBreaks(a)
  \/ StageFails(a) \/ NotMine(a) \/ ApplyFails(a) \/ CommitFails(a)
  \/ Abandon(a)

CronOnly ==
  \/ CronBegin \/ CronTakesOver \/ ForcedDestroy \/ ForcedDestroyFails
  \/ CronPostApply \/ SubrequestLost \/ CronDestroys \/ CronCannotDestroy

LEMMA Steps ==
  ASSUME [Next]_vars
  PROVE  \/ \E a \in Actor : ActorStep(a)
         \/ CronOnly
         \/ \E u \in User : UserNext(u)
         \/ Environment
         \/ UNCHANGED vars
BY DEF Next, Undisturbed, CronFails, Progress, Failure, ActorStep, CronOnly, Actor

LEMMA Actors == Cron \in Actor /\ User \subseteq Actor /\ Cron \notin User
BY ConstantsAssumption DEF Actor

LEMMA NewIdIsNew ==
  ASSUME HasNewId
  PROVE  NewId \in Id /\ NewId \notin Known
BY DEF HasNewId, NewId

-----------------------------------------------------------------------------
(***************************************************************************)
(* Types.                                                                  *)
(***************************************************************************)

\* Who is about to call begin() or create() knows the version.
Control ==
  \A a \in Actor :
    pc[a] \in {"begin", "create", "forced_destroy"} => arg[a] \in Version

Types == TypeOK /\ Control

\* What a step says of the actor that takes it.
ActorTypes ==
  /\ pc \in [Actor -> PC]
  /\ arg \in [Actor -> Version \cup Id \cup {None}]
  /\ held \in Id \cup {None}
  /\ Control

LEMMA GotoTypes ==
  ASSUME Types, NEW a \in Actor, NEW step \in PC, Goto(a, step),
         UNCHANGED <<arg, held>>,
         step \in {"begin", "create", "forced_destroy"} => arg[a] \in Version
  PROVE  ActorTypes'
BY DEF Types, TypeOK, Control, ActorTypes, Goto

LEMMA DoneTypes ==
  ASSUME Types, NEW a \in Actor, Done(a)
  PROVE  ActorTypes'
BY DEF Types, TypeOK, Control, ActorTypes, Done, Goto, PC

LEMMA FailTypes ==
  ASSUME Types, NEW a \in Actor, Fail(a)
  PROVE  ActorTypes' /\ session' \in [User -> Id \cup {None}]
<1>1. CASE a = Cron /\ Goto(a, "clean") /\ UNCHANGED <<arg, held, session>>
  BY <1>1, GotoTypes DEF PC, Types, TypeOK
<1>2. CASE a \in User /\ Done(a)
  <2>1. session' \in [User -> Id \cup {None}]
    BY <1>2, Actors DEF Fail, Types, TypeOK
  <2> QED
    BY <1>2, <2>1, DoneTypes
<1> QED
  BY <1>1, <1>2 DEF Fail

LEMMA ReleaseTypes ==
  ASSUME Types, Release
  PROVE  /\ lock' \in [id : Id, owner : Actor] \cup {None}
         /\ packages' \in Version \cup {None}
         /\ stage' \in Version \cup {None, "copy", "partial"}
         /\ asked' \in Version \cup {None}
         /\ {overwritten', leftBehind'} \subseteq BOOLEAN
BY DEF Types, TypeOK, Release

LEMMA ActorStepTypes ==
  ASSUME Types, NEW a \in Actor, ActorStep(a)
  PROVE  Types'
<1> USE DEF store, site, browser, modes, ghosts
<1>1. CASE BeginMetadata(a)
  <2>1. ActorTypes'
    BY <1>1, GotoTypes DEF BeginMetadata, PC, Types, Control
  <2>2. packages' \in Version \cup {None} /\ overwritten' \in BOOLEAN
    BY <1>1 DEF BeginMetadata, Types, Control
  <2> QED
    BY <1>1, <2>1, <2>2 DEF BeginMetadata, Types, TypeOK, ActorTypes
<1>2. CASE Created(a)
  <2>1. NewId \in Id /\ arg[a] \in Version
    BY <1>2, NewIdIsNew DEF Created, Types, Control
  <2>2. ActorTypes'
    BY <1>2, <2>1 DEF Created, Goto, PC, Types, TypeOK, Control, ActorTypes
  <2>3. /\ lock' \in [id : Id, owner : Actor] \cup {None}
        /\ session' \in [User -> Id \cup {None}]
        /\ asked' \in Version \cup {None}
    BY <1>2, <2>1 DEF Created, Types, TypeOK
  <2> QED
    BY <1>2, <2>2, <2>3 DEF Created, Types, TypeOK, ActorTypes
<1>3. CASE Staged(a)
  <2>1. CASE a = Cron
    <3>1. ActorTypes'
      BY <1>3, <2>1, GotoTypes DEF Staged, PC
    <3> QED
      BY <1>3, <2>1, <3>1 DEF Staged, Types, TypeOK, ActorTypes
  <2>2. CASE a # Cron
    <3>1. ActorTypes'
      BY <1>3, <2>2, DoneTypes DEF Staged
    <3>2. session[a] \in Id /\ a \in User
      BY <1>3, <2>2 DEF Staged, MayWork, Claims, Types, TypeOK, Actor
    <3>3. page' \in [User -> Id \cup {"none", "offer", "taken"}]
      BY <1>3, <2>2, <3>2 DEF Staged, Types, TypeOK
    <3> QED
      BY <1>3, <2>2, <3>1, <3>3 DEF Staged, Types, TypeOK, ActorTypes
  <2> QED
    BY <2>1, <2>2
<1>4. CASE Committed(a)
  <2>1. ActorTypes'
    BY <1>4, GotoTypes DEF Committed, PC
  <2>2. {secure', pending'} \subseteq BOOLEAN
    BY <1>4 DEF Committed, Types, TypeOK
  <2> QED
    BY <1>4, <2>1, <2>2 DEF Committed, Types, TypeOK, ActorTypes
<1>5. CASE CreateRefused(a) \/ NotMine(a)
  <2>1. ActorTypes' /\ session' \in [User -> Id \cup {None}]
    BY <1>5, FailTypes DEF CreateRefused, NotMine
  <2> QED
    BY <1>5, <2>1 DEF CreateRefused, NotMine, Types, TypeOK, ActorTypes
<1>6. CASE PreCreateFails(a) \/ StageFails(a) \/ ApplyFails(a)
  <2>1. ActorTypes' /\ session' \in [User -> Id \cup {None}]
    BY <1>6, FailTypes DEF PreCreateFails, StageFails, ApplyFails
  <2> QED
    BY <1>6, <2>1 DEF PreCreateFails, StageFails, ApplyFails, Types, TypeOK, ActorTypes
<1>7. CASE CreateBreaks(a)
  <2>1. NewId \in Id /\ arg[a] \in Version
    BY <1>7, NewIdIsNew DEF CreateBreaks, Types, Control
  <2>2. ActorTypes'
    <3>1. CASE a = Cron
      BY <1>7, <2>1, <3>1 DEF CreateBreaks, Goto, PC, Types, TypeOK, Control, ActorTypes
    <3>2. CASE a # Cron
      BY <1>7, <3>2, DoneTypes DEF CreateBreaks
    <3> QED
      BY <3>1, <3>2
  <2>3. /\ lock' \in [id : Id, owner : Actor] \cup {None}
        /\ asked' \in Version \cup {None}
    BY <1>7, <2>1 DEF CreateBreaks
  <2> QED
    BY <1>7, <2>2, <2>3 DEF CreateBreaks, Types, TypeOK, ActorTypes
<1>8. CASE CommitFails(a)
  <2>1. ActorTypes' /\ session' \in [User -> Id \cup {None}]
    BY <1>8, FailTypes, DoneTypes DEF CommitFails, Types, TypeOK
  <2>2. leftBehind' \in BOOLEAN /\ applying' \in {"no", "recent", "old"}
    BY <1>8 DEF CommitFails, Types, TypeOK
  <2> QED
    BY <1>8, <2>1, <2>2 DEF CommitFails, Types, TypeOK, ActorTypes
<1>9. CASE Abandon(a)
  <2>1. ActorTypes'
    BY <1>9, DoneTypes DEF Abandon
  <2>2. leftBehind' \in BOOLEAN /\ stage' \in Version \cup {None, "copy", "partial"}
    BY <1>9 DEF Abandon, Types, TypeOK
  <2> QED
    BY <1>9, <2>1, <2>2 DEF Abandon, Types, TypeOK, ActorTypes
<1> QED
  BY <1>1, <1>2, <1>3, <1>4, <1>5, <1>6, <1>7, <1>8, <1>9 DEF ActorStep

LEMMA CronStepTypes ==
  ASSUME Types, CronOnly
  PROVE  Types'
<1> USE Actors DEF store, site, browser, modes, ghosts
<1>1. CASE CronBegin \/ CronTakesOver
  <2>1. ActorTypes'
    BY <1>1, ConstantsAssumption
    DEF CronBegin, CronTakesOver, CronStep, Goto, PC, Types, TypeOK, Control, ActorTypes
  <2> QED
    BY <1>1, <2>1 DEF CronBegin, CronTakesOver, CronStep, Types, TypeOK, ActorTypes
<1>2. CASE ForcedDestroy
  <2>1. ActorTypes'
    BY <1>2, GotoTypes DEF ForcedDestroy, PC, Types, Control
  <2> QED
    BY <1>2, <2>1, ReleaseTypes DEF ForcedDestroy, Types, TypeOK, ActorTypes
<1>3. CASE ForcedDestroyFails
  BY <1>3, DoneTypes DEF ForcedDestroyFails, Types, TypeOK, ActorTypes
<1>4. CASE CronPostApply
  <2>1. ActorTypes'
    BY <1>4, GotoTypes DEF CronPostApply, PC
  <2> QED
    BY <1>4, <2>1 DEF CronPostApply, Types, TypeOK, ActorTypes
<1>5. CASE SubrequestLost \/ CronCannotDestroy
  <2>1. ActorTypes' /\ leftBehind' \in BOOLEAN
    BY <1>5, DoneTypes DEF SubrequestLost, CronCannotDestroy, Types, TypeOK
  <2> QED
    BY <1>5, <2>1 DEF SubrequestLost, CronCannotDestroy, Types, TypeOK, ActorTypes
<1>6. CASE CronDestroys
  BY <1>6, DoneTypes, ReleaseTypes DEF CronDestroys, Types, TypeOK, ActorTypes
<1> QED
  BY <1>1, <1>2, <1>3, <1>4, <1>5, <1>6 DEF CronOnly

LEMMA RestoreModeTypes ==
  ASSUME Types, NEW u \in User, RestoreMode(u)
  PROVE  /\ maintenance' \in {"off", "administrator", "update"}
         /\ key' \in [User -> BOOLEAN \cup {None}]
         /\ before' \in [User -> BOOLEAN \cup {None}]
BY DEF Types, TypeOK, RestoreMode

LEMMA UserStepTypes ==
  ASSUME Types, NEW u \in User, UserNext(u)
  PROVE  Types'
<1> USE Actors DEF store, site, browser, modes, ghosts
<1>1. CASE OpenUpdateForm(u)
  <2>1. PICK p \in Id \cup {"none", "offer", "taken"} : Show(u, p)
    BY <1>1 DEF OpenUpdateForm, Claims, Types, TypeOK
  <2> QED
    BY <2>1 DEF Show, Types, TypeOK, Control
<1>2. CASE DeleteExistingUpdate(u) \/ Cancel(u)
  <2>1. page' \in [User -> Id \cup {"none", "offer", "taken"}]
    BY <1>2 DEF DeleteExistingUpdate, Cancel, Types, TypeOK
  <2> QED
    BY <1>2, <2>1, ReleaseTypes
    DEF DeleteExistingUpdate, Cancel, Types, TypeOK, Control
<1>3. ASSUME NEW v \in Version, SubmitUpdate(u, v)
      PROVE  Types'
  <2>1. ActorTypes'
    BY <1>3 DEF SubmitUpdate, Goto, PC, Types, TypeOK, Control, ActorTypes
  <2>2. page' \in [User -> Id \cup {"none", "offer", "taken"}]
    BY <1>3 DEF SubmitUpdate, Types, TypeOK
  <2> QED
    BY <1>3, <2>1, <2>2 DEF SubmitUpdate, Types, TypeOK, ActorTypes
<1>4. ASSUME NEW b \in BOOLEAN, SubmitReady(u, b)
      PROVE  Types'
  <2>1. page[u] \in Id
    BY <1>4 DEF SubmitReady, Claims, IsAvailable, Types, TypeOK
  <2>2. ActorTypes'
    BY <1>4, <2>1 DEF SubmitReady, Goto, PC, Types, TypeOK, Control, ActorTypes
  <2>3. /\ page' \in [User -> Id \cup {"none", "offer", "taken"}]
        /\ maintenance' \in {"off", "administrator", "update"}
    BY <1>4 DEF SubmitReady, Types, TypeOK
  <2>4. /\ key' \in [User -> BOOLEAN \cup {None}]
        /\ before' \in [User -> BOOLEAN \cup {None}]
    BY <1>4 DEF SubmitReady, SavedMode, InMaintenance, Types, TypeOK
  <2> QED
    BY <1>4, <2>2, <2>3, <2>4 DEF SubmitReady, Types, TypeOK, ActorTypes
<1>5. CASE StageFailsCleaned(u)
  BY <1>5, FailTypes, ReleaseTypes DEF StageFailsCleaned, Types, TypeOK, ActorTypes
<1>6. CASE UserPostApply(u)
  <2>1. ActorTypes' /\ session' \in [User -> Id \cup {None}]
    BY <1>6, FailTypes, GotoTypes DEF UserPostApply, PC, Types, TypeOK
  <2>2. applying' \in {"no", "recent", "old"}
    BY <1>6 DEF UserPostApply, Types, TypeOK
  <2> QED
    BY <1>6, <2>1, <2>2 DEF UserPostApply, Types, TypeOK, ActorTypes
<1>7. CASE UserDestroys(u)
  <2>1. ActorTypes'
    BY <1>7, GotoTypes DEF UserDestroys, PC
  <2>2. session' \in [User -> Id \cup {None}]
    BY <1>7 DEF UserDestroys, Types, TypeOK
  <2> QED
    BY <1>7, <2>1, <2>2, ReleaseTypes DEF UserDestroys, Types, TypeOK, ActorTypes
<1>8. CASE UserCannotDestroy(u)
  BY <1>8, FailTypes DEF UserCannotDestroy, Types, TypeOK, ActorTypes
<1>9. CASE FinishOnline(u)
  BY <1>9, DoneTypes, RestoreModeTypes DEF FinishOnline, Types, TypeOK, ActorTypes
<1>10. CASE FinishPending(u)
  BY <1>10, GotoTypes DEF FinishPending, PC, Types, TypeOK, ActorTypes
<1>11. CASE RunDatabaseUpdates(u)
  BY <1>11, DoneTypes, RestoreModeTypes
  DEF RunDatabaseUpdates, Types, TypeOK, ActorTypes
<1> QED
  BY <1>1, <1>2, <1>3, <1>4, <1>5, <1>6, <1>7, <1>8, <1>9, <1>10, <1>11
  DEF UserNext

LEMMA TypesInductive ==
  ASSUME Types, [Next]_vars
  PROVE  Types'
<1>1. CASE Environment
  <2>1. ActorTypes'
    BY <1>1 DEF Environment, Age, Advisory, SetMaintenance, RestoreBackup, Types,
                TypeOK, Control, ActorTypes
  <2>2. before' \in [User -> BOOLEAN \cup {None}]
    BY <1>1 DEF Environment, Age, Advisory, SetMaintenance, RestoreBackup, modes,
                Types, TypeOK
  <2> QED
    BY <1>1, <2>1, <2>2
    DEF Environment, Age, Advisory, SetMaintenance, RestoreBackup, Types, TypeOK,
        ActorTypes, store, site, browser, modes, ghosts
<1>2. CASE UNCHANGED vars
  BY <1>2 DEF vars, Types, TypeOK, Control
<1> QED
  BY <1>1, <1>2, ActorStepTypes, CronStepTypes, UserStepTypes, Steps

LEMMA AlwaysTypes == Spec => []Types
<1>1. Init => Types
  <2> SUFFICES ASSUME Init PROVE Types
    OBVIOUS
  <2>1. pc \in [Actor -> PC] /\ Control
    BY DEF Init, PC, Control
  <2>2. /\ key \in [User -> BOOLEAN \cup {None}]
        /\ before \in [User -> BOOLEAN \cup {None}]
    BY DEF Init
  <2>3. {marker, secure, pending} \subseteq BOOLEAN
    BY DEF Init
  <2> QED
    BY <2>1, <2>2, <2>3 DEF Init, Types, TypeOK
<1> QED
  BY <1>1, TypesInductive, PTL DEF Spec

\* The stage, the requests and the sessions keep their types, for any number of
\* sessions.
THEOREM TypeCorrect == Spec => []TypeOK
<1>1. Types => TypeOK
  BY DEF Types
<1> QED
  BY <1>1, AlwaysTypes, PTL

-----------------------------------------------------------------------------
(***************************************************************************)
(* What cron leaves behind.                                                *)
(***************************************************************************)

\* A stage of cron's is in the hands of the request that created it, at a point
\* of performUpdate() from which destroy() follows.
Kept ==
  lock # None /\ lock.owner = Cron =>
    \/ leftBehind
    \/ pc[Cron] \in {"stage", "apply", "post_apply", "clean"} /\ held = lock.id

\* What is not a step of cron's leaves its request as it was.
CronWaits == pc'[Cron] = pc[Cron] /\ held' = held

\* An actor who is not cron, and takes no stage from it.
LEMMA KeptByOthers ==
  ASSUME Types, Kept, CronWaits, leftBehind' = leftBehind,
         lock' = lock \/ lock' = None \/ lock'.owner # Cron
  PROVE  Kept'
BY DEF Kept, CronWaits

LEMMA KeptByRelease ==
  ASSUME Release
  PROVE  Kept'
BY DEF Kept, Release

LEMMA OwnsWhatIsHeld ==
  ASSUME Types, Kept, lock # None, lock.owner = Cron, ~leftBehind
  PROVE  Owns
<1>1. lock \in [id : Id, owner : Actor] /\ lock.id = held
  BY DEF Kept, Types, TypeOK
<1>2. lock = [id |-> held, owner |-> Cron] /\ held # None
  BY <1>1, ConstantsAssumption
<1> QED
  BY <1>2 DEF Owns, IsAvailable

\* Cron goes on from one step with a stage to the next, or cleans up.
LEMMA KeptOnTheWay ==
  ASSUME Types, Kept, UNCHANGED <<lock, held, leftBehind>>,
         NEW step \in {"apply", "post_apply", "clean"}, Goto(Cron, step)
  PROVE  Kept'
BY Actors DEF Kept, Goto, Types, TypeOK

\* Cron fails, cleans up and ends: what it holds then is counted.
LEMMA KeptAtTheEnd ==
  ASSUME Types, Kept, UNCHANGED lock, leftBehind' = (leftBehind \/ Owns)
  PROVE  Kept'
BY OwnsWhatIsHeld DEF Kept

\* Cron, who has no stage yet, or nobody has one.
LEMMA KeptOutside ==
  ASSUME Types, Kept, UNCHANGED <<lock, leftBehind>>,
         pc[Cron] \in {"idle", "begin", "create", "forced_destroy"} \/ lock = None
  PROVE  Kept'
BY DEF Kept

LEMMA CronWaitsFor ==
  ASSUME Types, NEW u \in User
  PROVE  /\ \A step : Goto(u, step) => pc'[Cron] = pc[Cron]
         /\ Done(u) => CronWaits
         /\ UNCHANGED held /\ Fail(u) => CronWaits
<1>1. \A step : Goto(u, step) => pc'[Cron] = pc[Cron]
  BY Actors DEF Goto, Types, TypeOK
<1>2. Done(u) => CronWaits
  BY <1>1, Actors DEF Done, CronWaits
<1> QED
  BY <1>1, <1>2, Actors DEF Fail

LEMMA KeptByCron ==
  ASSUME Types, Kept, ActorStep(Cron)
  PROVE  Kept'
<1> USE Actors DEF store, site, browser, modes, ghosts
<1>1. CASE BeginMetadata(Cron) \/ CreateRefused(Cron)
  BY <1>1, KeptOutside DEF BeginMetadata, CreateRefused
<1>2. CASE Created(Cron)
  <2>1. pc'[Cron] = "stage" /\ held' = lock'.id
    BY <1>2 DEF Created, Goto, Types, TypeOK
  <2> QED
    BY <2>1 DEF Kept
<1>3. CASE CreateBreaks(Cron)
  <2>1. pc'[Cron] = "clean" /\ held' = lock'.id
    BY <1>3 DEF CreateBreaks, Goto, Types, TypeOK
  <2> QED
    BY <2>1 DEF Kept
<1>4. CASE PreCreateFails(Cron)
  BY <1>4, KeptOutside DEF PreCreateFails, IsAvailable
<1>5. CASE Staged(Cron) \/ Committed(Cron)
  BY <1>5, KeptOnTheWay DEF Staged, Committed
<1>6. CASE StageFails(Cron) \/ NotMine(Cron) \/ ApplyFails(Cron)
  BY <1>6, KeptOnTheWay DEF StageFails, NotMine, ApplyFails, Fail
<1>7. CASE CommitFails(Cron)
  <2>1. CASE Fail(Cron) /\ UNCHANGED leftBehind
    BY <1>7, <2>1, KeptOnTheWay DEF CommitFails, Fail
  <2>2. CASE leftBehind'
    BY <2>2 DEF Kept
  <2> QED
    BY <1>7, <2>1, <2>2 DEF CommitFails
<1>8. CASE Abandon(Cron)
  BY <1>8, KeptAtTheEnd DEF Abandon
<1> QED
  BY <1>1, <1>2, <1>3, <1>4, <1>5, <1>6, <1>7, <1>8 DEF ActorStep

LEMMA KeptByCronOnly ==
  ASSUME Types, Kept, CronOnly
  PROVE  Kept'
<1> USE Actors DEF store, site, browser, modes, ghosts
<1>1. CASE CronBegin \/ CronTakesOver
  BY <1>1, KeptOutside DEF CronBegin, CronTakesOver, CronStep
<1>2. CASE ForcedDestroy \/ CronDestroys
  BY <1>2, KeptByRelease DEF ForcedDestroy, CronDestroys
<1>3. CASE ForcedDestroyFails
  BY <1>3, KeptOutside DEF ForcedDestroyFails
<1>4. CASE CronPostApply
  BY <1>4, KeptOnTheWay DEF CronPostApply
<1>5. CASE SubrequestLost \/ CronCannotDestroy
  BY <1>5, KeptAtTheEnd DEF SubrequestLost, CronCannotDestroy
<1> QED
  BY <1>1, <1>2, <1>3, <1>4, <1>5 DEF CronOnly

\* The steps that a user shares with cron.
LEMMA KeptByUser ==
  ASSUME Types, Kept, NEW u \in User, ActorStep(u)
  PROVE  Kept'
<1> USE Actors DEF store, site, browser, modes, ghosts
<1>1. CASE Created(u) \/ CreateBreaks(u)
  <2>1. CronWaits
    BY <1>1, CronWaitsFor DEF Created, CreateBreaks, CronWaits
  <2>2. lock'.owner # Cron /\ leftBehind' = leftBehind
    BY <1>1 DEF Created, CreateBreaks
  <2> QED
    BY <2>1, <2>2, KeptByOthers
<1>2. CASE BeginMetadata(u) \/ Committed(u)
  <2>1. CronWaits
    BY <1>2, CronWaitsFor DEF BeginMetadata, Committed, CronWaits
  <2> QED
    BY <1>2, <2>1, KeptByOthers DEF BeginMetadata, Committed
<1>3. CASE CreateRefused(u) \/ PreCreateFails(u)
  <2>1. CronWaits
    BY <1>3, CronWaitsFor DEF CreateRefused, PreCreateFails, Fail
  <2> QED
    BY <1>3, <2>1, KeptByOthers DEF CreateRefused, PreCreateFails
<1>4. CASE StageFails(u) \/ NotMine(u) \/ ApplyFails(u)
  <2>1. CronWaits
    BY <1>4, CronWaitsFor DEF StageFails, NotMine, ApplyFails, Fail
  <2> QED
    BY <1>4, <2>1, KeptByOthers DEF StageFails, NotMine, ApplyFails
<1>5. CASE Staged(u) \/ Abandon(u) \/ CommitFails(u)
  <2>1. Done(u)
    BY <1>5 DEF Staged, Abandon, CommitFails, Fail
  <2>2. UNCHANGED lock /\ leftBehind' = leftBehind
    BY <1>5 DEF Staged, Abandon, CommitFails, Types, TypeOK
  <2> QED
    BY <2>1, <2>2, CronWaitsFor, KeptByOthers
<1> QED
  BY <1>1, <1>2, <1>3, <1>4, <1>5 DEF ActorStep

LEMMA KeptByUserNext ==
  ASSUME Types, Kept, NEW u \in User, UserNext(u)
  PROVE  Kept'
<1> USE Actors DEF store, site, browser, modes, ghosts
<1>1. CASE \/ DeleteExistingUpdate(u) \/ Cancel(u)
           \/ StageFailsCleaned(u) \/ UserDestroys(u)
  BY <1>1, KeptByRelease
  DEF DeleteExistingUpdate, Cancel, StageFailsCleaned, UserDestroys
<1>2. CASE \/ OpenUpdateForm(u)
           \/ \E v \in Version : SubmitUpdate(u, v)
           \/ \E b \in BOOLEAN : SubmitReady(u, b)
           \/ FinishPending(u)
  <2>1. CronWaits
    BY <1>2, CronWaitsFor
    DEF OpenUpdateForm, Show, SubmitUpdate, SubmitReady, FinishPending, CronWaits
  <2> QED
    BY <1>2, <2>1, KeptByOthers
    DEF OpenUpdateForm, Show, SubmitUpdate, SubmitReady, FinishPending
<1>3. CASE UserPostApply(u) \/ UserCannotDestroy(u)
  <2>1. CronWaits
    BY <1>3, CronWaitsFor DEF UserPostApply, UserCannotDestroy, Fail, CronWaits
  <2> QED
    BY <1>3, <2>1, KeptByOthers DEF UserPostApply, UserCannotDestroy
<1>4. CASE FinishOnline(u) \/ RunDatabaseUpdates(u)
  <2>1. CronWaits
    BY <1>4, CronWaitsFor DEF FinishOnline, RunDatabaseUpdates
  <2> QED
    BY <1>4, <2>1, KeptByOthers DEF FinishOnline, RunDatabaseUpdates
<1> QED
  BY <1>1, <1>2, <1>3, <1>4 DEF UserNext

LEMMA KeptInductive ==
  ASSUME Types, Kept, [Next]_vars
  PROVE  Kept'
<1>1. CASE Environment
  BY <1>1 DEF Environment, Age, Advisory, SetMaintenance, RestoreBackup, store,
              Kept
<1>2. CASE UNCHANGED vars
  BY <1>2 DEF vars, Kept
<1> QED
  BY <1>1, <1>2, KeptByCron, KeptByCronOnly, KeptByUser, KeptByUserNext, Steps
  DEF Actor

\* An unattended update leaves no stage behind, whatever fails in it and
\* whoever interferes, unless its request died, the subrequest was lost or
\* destroy() refused a stage that it did hold: with any number of sessions.
THEOREM CronAlwaysCleansUp == Spec => []CronCleansUp
<1>1. Init => Kept
  BY DEF Init, Kept
<1>2. Kept => CronCleansUp
  BY DEF Kept, CronCleansUp
<1> QED
  BY <1>1, <1>2, AlwaysTypes, KeptInductive, PTL DEF Spec

-----------------------------------------------------------------------------
(***************************************************************************)
(* The version that is applied.                                            *)
(***************************************************************************)

\* Between begin()'s write and create() nobody else's stage or begin() is about,
\* or the write is counted as overwriting.
BeginAlone ==
  \A a \in Actor : pc[a] = "create" =>
    \/ overwritten
    \/ /\ lock = None
       /\ packages \in {None, arg[a]}
       /\ \A b \in Actor \ {a} : pc[b] # "create"

\* The metadata of a stage is what its begin() was asked for, and so is what
\* Composer made of it.
StagedAsAsked ==
  lock # None =>
    \/ overwritten
    \/ packages \in {None, asked} /\ stage \in {None, "copy", "partial", asked}

\* Cron applies nothing that Composer did not finish.
CronStagedAll == pc[Cron] = "apply" /\ Owns => stage # "partial"

Asked == BeginAlone /\ StagedAsAsked /\ CronStagedAll

\* Nobody enters create(), and cron does not enter apply().
Quiet ==
  /\ \A a \in Actor : pc'[a] = "create" => pc[a] = "create" /\ arg'[a] = arg[a]
  /\ pc'[Cron] = "apply" => pc[Cron] = "apply" /\ held' = held

LEMMA GotoIsQuiet ==
  ASSUME Types, NEW a \in Actor, NEW step, Goto(a, step), step # "create",
         a = Cron => step # "apply", a # Cron => held' = held,
         \A b \in Actor \ {a} : arg'[b] = arg[b]
  PROVE  Quiet
<1>1. /\ pc'[a] = step
      /\ \A b \in Actor \ {a} : pc'[b] = pc[b]
  BY DEF Goto, Types, TypeOK
<1> QED
  BY <1>1, Actors DEF Quiet

LEMMA DoneIsQuiet ==
  ASSUME Types, NEW a \in Actor, Done(a)
  PROVE  Quiet
<1>1. \A b \in Actor \ {a} : arg'[b] = arg[b]
  BY DEF Done, Types, TypeOK
<1> QED
  BY <1>1, GotoIsQuiet DEF Done

LEMMA FailIsQuiet ==
  ASSUME Types, NEW a \in Actor, Fail(a)
  PROVE  Quiet
<1>1. CASE a = Cron /\ Goto(a, "clean") /\ UNCHANGED <<arg, held, session>>
  BY <1>1, GotoIsQuiet
<1> QED
  BY <1>1, DoneIsQuiet DEF Fail

\* A user works on a stage of the user's own.
LEMMA NotCrons ==
  ASSUME NEW u \in User, MayWork(u)
  PROVE  ~Owns /\ ~IsAvailable
BY Actors DEF MayWork, Claims, Owns, IsAvailable

LEMMA AskedKept ==
  ASSUME Asked, Quiet, UNCHANGED <<lock, packages, asked, overwritten>>,
         \/ stage' = stage
         \/ stage' = "partial" /\ (pc'[Cron] # "apply" \/ ~Owns)
  PROVE  Asked'
<1>1. BeginAlone'
  BY DEF Asked, BeginAlone, Quiet
<1>2. StagedAsAsked'
  BY DEF Asked, StagedAsAsked
<1>3. CronStagedAll'
  BY DEF Asked, CronStagedAll, Quiet, Owns, IsAvailable
<1> QED
  BY <1>1, <1>2, <1>3 DEF Asked

LEMMA AskedReleased ==
  ASSUME Asked, Quiet, Release
  PROVE  Asked'
<1>1. BeginAlone'
  BY DEF Asked, BeginAlone, Quiet, Release
<1>2. StagedAsAsked' /\ CronStagedAll'
  BY DEF StagedAsAsked, CronStagedAll, Owns, IsAvailable, Release
<1> QED
  BY <1>1, <1>2 DEF Asked

\* begin() writes the version over whatever is there.
LEMMA AskedByBegin ==
  ASSUME Types, Asked, NEW a \in Actor, BeginMetadata(a)
  PROVE  Asked'
<1> USE DEF BeginMetadata, Goto, Types, TypeOK
<1>1. BeginAlone'
  BY DEF BeginAlone
<1>2. StagedAsAsked'
  BY DEF StagedAsAsked
<1>3. CronStagedAll'
  BY DEF Asked, CronStagedAll, Owns, IsAvailable
<1> QED
  BY <1>1, <1>2, <1>3 DEF Asked

\* create(), whether it gets to the end or not: there is one stage, the one
\* that was asked for.
LEMMA AskedByCreate ==
  ASSUME Types, Asked, NEW a \in Actor, pc[a] = "create", IsAvailable,
         lock' = [id |-> NewId, owner |-> a], asked' = arg[a],
         UNCHANGED <<packages, overwritten>>, stage' \in {"copy", "partial"},
         Quiet, pc'[a] # "create", a = Cron => pc'[Cron] # "apply"
  PROVE  Asked'
<1>1. BeginAlone'
  BY DEF Asked, BeginAlone, Quiet
<1>2. StagedAsAsked'
  BY DEF Asked, BeginAlone, StagedAsAsked
<1>3. CronStagedAll'
  BY DEF CronStagedAll, Owns, IsAvailable
<1> QED
  BY <1>1, <1>2, <1>3 DEF Asked

\* Composer makes of the metadata what it says.
LEMMA AskedByStage ==
  ASSUME Types, Asked, NEW a \in Actor, Staged(a)
  PROVE  Asked'
<1> USE Actors DEF Staged
<1>1. stage' \in Version /\ stage' # "partial"
  BY ConstantsAssumption DEF Types, TypeOK
<1>2. CASE a = Cron
  <2>1. BeginAlone'
    BY <1>2 DEF Asked, BeginAlone, ghosts, Goto, Types, TypeOK
  <2> QED
    BY <1>1, <2>1 DEF Asked, StagedAsAsked, CronStagedAll, ghosts
<1>3. CASE a # Cron
  <2>1. BeginAlone'
    BY <1>3, DoneIsQuiet DEF Asked, BeginAlone, Quiet, ghosts
  <2> QED
    BY <1>1, <2>1 DEF Asked, StagedAsAsked, CronStagedAll, ghosts
<1> QED
  BY <1>2, <1>3

LEMMA AskedByActor ==
  ASSUME Types, Asked, NEW a \in Actor, ActorStep(a)
  PROVE  Asked'
<1> USE DEF store, site, browser, modes, ghosts
<1>1. CASE BeginMetadata(a) \/ Staged(a)
  BY <1>1, AskedByBegin, AskedByStage
<1>2. CASE Created(a)
  <2>1. Quiet /\ pc'[a] = "stage"
    <3>1. \A b \in Actor \ {a} : arg'[b] = arg[b]
      BY <1>2 DEF Created, Types, TypeOK
    <3> QED
      BY <1>2, <3>1, GotoIsQuiet DEF Created, Goto, Types, TypeOK
  <2> QED
    BY <1>2, <2>1, AskedByCreate DEF Created
<1>3. CASE CreateBreaks(a)
  <2>1. Quiet /\ pc'[a] \in {"clean", "idle"}
    <3>1. CASE a = Cron
      BY <1>3, <3>1, GotoIsQuiet DEF CreateBreaks, Goto, Types, TypeOK
    <3>2. CASE a # Cron
      BY <1>3, <3>2, DoneIsQuiet DEF CreateBreaks, Done, Goto, Types, TypeOK
    <3> QED
      BY <3>1, <3>2
  <2> QED
    BY <1>3, <2>1, AskedByCreate DEF CreateBreaks
<1>4. CASE Committed(a)
  BY <1>4, GotoIsQuiet, AskedKept DEF Committed
<1>5. CASE CreateRefused(a) \/ NotMine(a) \/ ApplyFails(a)
  BY <1>5, FailIsQuiet, AskedKept DEF CreateRefused, NotMine, ApplyFails
<1>6. CASE PreCreateFails(a)
  <2>1. lock' = None /\ Quiet
    BY <1>6, FailIsQuiet DEF PreCreateFails, IsAvailable
  <2>2. BeginAlone'
    BY <1>6, <2>1 DEF PreCreateFails, Asked, BeginAlone, Quiet, IsAvailable
  <2> QED
    BY <2>1, <2>2 DEF Asked, StagedAsAsked, CronStagedAll, Owns, IsAvailable
<1>7. CASE StageFails(a)
  <2>1. pc'[Cron] # "apply" \/ ~Owns
    <3>1. CASE a = Cron
      BY <1>7, <3>1, Actors DEF StageFails, Fail, Goto, Types, TypeOK
    <3>2. CASE a # Cron
      BY <1>7, <3>2, NotCrons DEF StageFails, Actor
    <3> QED
      BY <3>1, <3>2
  <2> QED
    BY <1>7, <2>1, FailIsQuiet, AskedKept DEF StageFails
<1>8. CASE CommitFails(a)
  <2>1. Quiet
    BY <1>8, FailIsQuiet, DoneIsQuiet DEF CommitFails
  <2> QED
    BY <1>8, <2>1, AskedKept DEF CommitFails
<1>9. CASE Abandon(a)
  <2>1. stage' # stage => stage' = "partial" /\ (pc'[Cron] # "apply" \/ ~Owns)
    <3>1. CASE a = Cron
      BY <1>9, <3>1 DEF Abandon, Done, Goto, Types, TypeOK
    <3>2. CASE a # Cron
      BY <1>9, <3>2, NotCrons DEF Abandon, Actor
    <3> QED
      BY <3>1, <3>2
  <2> QED
    BY <1>9, <2>1, DoneIsQuiet, AskedKept DEF Abandon
<1> QED
  BY <1>1, <1>2, <1>3, <1>4, <1>5, <1>6, <1>7, <1>8, <1>9 DEF ActorStep

LEMMA AskedByCronOnly ==
  ASSUME Types, Asked, CronOnly
  PROVE  Asked'
<1> USE Actors DEF store, site, browser, modes, ghosts
<1>1. CASE CronBegin \/ CronTakesOver
  <2>1. \A b \in Actor \ {Cron} : arg'[b] = arg[b]
    BY <1>1 DEF CronBegin, CronTakesOver, Types, TypeOK
  <2> QED
    BY <1>1, <2>1, GotoIsQuiet, AskedKept DEF CronBegin, CronTakesOver, CronStep
<1>2. CASE ForcedDestroy
  BY <1>2, GotoIsQuiet, AskedReleased DEF ForcedDestroy
<1>3. CASE CronDestroys
  BY <1>3, DoneIsQuiet, AskedReleased DEF CronDestroys
<1>4. CASE CronPostApply
  BY <1>4, GotoIsQuiet, AskedKept DEF CronPostApply
<1>5. CASE ForcedDestroyFails \/ SubrequestLost \/ CronCannotDestroy
  BY <1>5, DoneIsQuiet, AskedKept
  DEF ForcedDestroyFails, SubrequestLost, CronCannotDestroy
<1> QED
  BY <1>1, <1>2, <1>3, <1>4, <1>5 DEF CronOnly

LEMMA AskedByUser ==
  ASSUME Types, Asked, NEW u \in User, UserNext(u)
  PROVE  Asked'
<1> USE Actors DEF store, site, browser, modes, ghosts
<1>1. CASE OpenUpdateForm(u)
  BY <1>1, AskedKept DEF OpenUpdateForm, Show, Quiet
<1>2. CASE DeleteExistingUpdate(u) \/ Cancel(u)
  BY <1>2, AskedReleased DEF DeleteExistingUpdate, Cancel, Quiet
<1>3. CASE \/ \E v \in Version : SubmitUpdate(u, v)
           \/ \E b \in BOOLEAN : SubmitReady(u, b)
  <2>1. \A b \in Actor \ {u} : arg'[b] = arg[b]
    BY <1>3 DEF SubmitUpdate, SubmitReady, Types, TypeOK
  <2>2. Quiet
    BY <1>3, <2>1, GotoIsQuiet DEF SubmitUpdate, SubmitReady
  <2> QED
    BY <1>3, <2>2, AskedKept DEF SubmitUpdate, SubmitReady
<1>4. CASE StageFailsCleaned(u)
  BY <1>4, FailIsQuiet, AskedReleased DEF StageFailsCleaned
<1>5. CASE UserDestroys(u)
  BY <1>5, GotoIsQuiet, AskedReleased DEF UserDestroys
<1>6. CASE UserPostApply(u) \/ UserCannotDestroy(u)
  BY <1>6, GotoIsQuiet, FailIsQuiet, AskedKept DEF UserPostApply, UserCannotDestroy
<1>7. CASE FinishOnline(u) \/ RunDatabaseUpdates(u)
  BY <1>7, DoneIsQuiet, AskedKept DEF FinishOnline, RunDatabaseUpdates
<1>8. CASE FinishPending(u)
  BY <1>8, GotoIsQuiet, AskedKept DEF FinishPending
<1> QED
  BY <1>1, <1>2, <1>3, <1>4, <1>5, <1>6, <1>7, <1>8 DEF UserNext

LEMMA AskedInductive ==
  ASSUME Types, Asked, [Next]_vars
  PROVE  Asked'
<1>1. CASE Environment
  BY <1>1, AskedKept
  DEF Environment, Age, Advisory, SetMaintenance, RestoreBackup, store, ghosts, Quiet
<1>2. CASE UNCHANGED vars
  BY <1>2, AskedKept DEF vars, Quiet
<1> QED
  BY <1>1, <1>2, AskedByActor, AskedByCronOnly, AskedByUser, Steps

\* What is committed is the version begin() was asked for, unless another
\* begin() wrote over the metadata meanwhile; and only a user can commit a stage
\* that Composer did not finish: in any interleaving of cron and any number of
\* sessions.
THEOREM AlwaysAppliedAsAsked == Spec => AppliedAsAsked
<1>1. Init => Asked
  BY Actors DEF Init, Asked, BeginAlone, StagedAsAsked, CronStagedAll
<1>2. ASSUME Types, Asked, NEW a \in Actor, Committed(a)
      PROVE  stage = asked \/ overwritten \/ (a \in User /\ stage = "partial")
  <2>1. pc[a] = "apply" /\ MayWork(a) /\ stage \in Version \cup {"partial"}
    BY <1>2 DEF Committed, MayCommit
  <2>2. CASE stage \in Version
    <3>1. lock # None
      BY <2>1 DEF MayWork, Owns, Claims, IsAvailable
    <3> QED
      BY <1>2, <2>2, <3>1, ConstantsAssumption DEF Asked, StagedAsAsked
  <2>3. CASE stage = "partial"
    BY <1>2, <2>1, <2>3 DEF Asked, CronStagedAll, MayWork, Actor
  <2> QED
    BY <2>1, <2>2, <2>3
<1>3. Types /\ Asked => [\A a \in Actor : Committed(a) =>
                           \/ stage = asked
                           \/ overwritten
                           \/ a \in User /\ stage = "partial"]_vars
  BY <1>2
<1> QED
  BY <1>1, <1>3, AlwaysTypes, AskedInductive, PTL DEF Spec, AppliedAsAsked

-----------------------------------------------------------------------------
(***************************************************************************)
(* Maintenance mode.                                                       *)
(***************************************************************************)

\* The session knows the mode from before the update, and the update has not
\* put a site online that was offline.
ModeKnown ==
  \A u \in User : before[u] # None =>
    /\ key[u] = before[u]
    /\ before[u] = TRUE => InMaintenance

LEMMA ModeKept ==
  ASSUME ModeKnown, UNCHANGED modes
  PROVE  ModeKnown'
BY DEF ModeKnown, modes, InMaintenance

\* submitForm() saves the mode in the session first; if the site goes offline
\* then, what the others know is no longer so.
LEMMA ModeBySubmit ==
  ASSUME Types, ModeKnown, NEW u \in User, NEW b \in BOOLEAN, SubmitReady(u, b)
  PROVE  ModeKnown'
<1> SUFFICES ASSUME NEW w \in User, before'[w] # None
             PROVE  key'[w] = before'[w] /\ (before'[w] = TRUE => InMaintenance')
  BY DEF ModeKnown
<1>1. before'[w] = IF w = u THEN InMaintenance
                   ELSE IF maintenance' # maintenance THEN None ELSE before[w]
  BY DEF SubmitReady
<1>2. CASE w = u
  <2>1. key'[u] = InMaintenance
    BY DEF SubmitReady, SavedMode, Types, TypeOK
  <2>2. InMaintenance => InMaintenance'
    BY DEF SubmitReady, InMaintenance
  <2> QED
    BY <1>1, <1>2, <2>1, <2>2
<1>3. CASE w # u
  <2>1. key'[w] = key[w]
    BY <1>3 DEF SubmitReady, Types, TypeOK
  <2>2. before'[w] = before[w] /\ maintenance' = maintenance
    BY <1>1, <1>3
  <2> QED
    BY <2>1, <2>2 DEF ModeKnown, InMaintenance
<1> QED
  BY <1>2, <1>3

LEMMA ModeByRestore ==
  ASSUME Types, ModeKnown, NEW u \in User, RestoreMode(u)
  PROVE  ModeKnown'
<1> SUFFICES ASSUME NEW w \in User, before'[w] # None
             PROVE  key'[w] = before'[w] /\ (before'[w] = TRUE => InMaintenance')
  BY DEF ModeKnown
<1>1. w # u /\ maintenance' = maintenance /\ before'[w] = before[w]
  BY DEF RestoreMode
<1>2. key'[w] = key[w]
  BY <1>1 DEF RestoreMode, Types, TypeOK
<1> QED
  BY <1>1, <1>2 DEF ModeKnown, InMaintenance

LEMMA ModeInductive ==
  ASSUME Types, ModeKnown, [Next]_vars
  PROVE  ModeKnown'
<1>1. ASSUME NEW a \in Actor, ActorStep(a)
      PROVE  ModeKnown'
  BY <1>1, ModeKept
  DEF ActorStep, BeginMetadata, Created, Staged, Committed, CreateRefused,
      PreCreateFails, CreateBreaks, StageFails, NotMine, ApplyFails, CommitFails,
      Abandon
<1>2. CASE CronOnly
  BY <1>2, ModeKept
  DEF CronOnly, CronBegin, CronTakesOver, CronStep, ForcedDestroy,
      ForcedDestroyFails, CronPostApply, SubrequestLost, CronDestroys,
      CronCannotDestroy
<1>3. ASSUME NEW u \in User, UserNext(u)
      PROVE  ModeKnown'
  <2>1. CASE \/ OpenUpdateForm(u) \/ DeleteExistingUpdate(u) \/ Cancel(u)
             \/ \E v \in Version : SubmitUpdate(u, v)
             \/ StageFailsCleaned(u)
             \/ UserPostApply(u) \/ UserDestroys(u) \/ UserCannotDestroy(u)
             \/ FinishPending(u)
    BY <2>1, ModeKept
    DEF OpenUpdateForm, Show, DeleteExistingUpdate, Cancel, SubmitUpdate,
        StageFailsCleaned, UserPostApply, UserDestroys, UserCannotDestroy,
        FinishPending
  <2>2. CASE \E b \in BOOLEAN : SubmitReady(u, b)
    BY <2>2, ModeBySubmit
  <2>3. CASE FinishOnline(u) \/ RunDatabaseUpdates(u)
    BY <2>3, ModeByRestore DEF FinishOnline, RunDatabaseUpdates
  <2> QED
    BY <1>3, <2>1, <2>2, <2>3 DEF UserNext
<1>4. CASE Environment
  <2>1. CASE SetMaintenance
    BY <2>1 DEF SetMaintenance, ModeKnown
  <2> QED
    BY <1>4, <2>1, ModeKept DEF Environment, Age, Advisory, RestoreBackup
<1>5. CASE UNCHANGED vars
  BY <1>5, ModeKept DEF vars, modes
<1> QED
  BY <1>1, <1>2, <1>3, <1>4, <1>5, Steps

\* At the end of an update the site is in the mode it was in when the user
\* confirmed it, if nobody else changed the mode meanwhile: with any number of
\* administrators at work on the same site.
THEOREM AlwaysModeRestored == Spec => ModeRestored
<1>1. Init => ModeKnown
  BY DEF Init, ModeKnown
<1>2. ASSUME Types, ModeKnown, NEW u \in User, RestoreMode(u)
      PROVE  before[u] \in {None, InMaintenance'}
  <2> SUFFICES ASSUME before[u] # None PROVE before[u] = InMaintenance'
    OBVIOUS
  <2>1. /\ before[u] \in BOOLEAN /\ key[u] = before[u]
        /\ before[u] = TRUE => InMaintenance
    BY <1>2 DEF Types, TypeOK, ModeKnown
  <2>2. CASE before[u] = TRUE
    BY <1>2, <2>1, <2>2 DEF RestoreMode, InMaintenance
  <2>3. CASE before[u] = FALSE
    BY <1>2, <2>1, <2>3 DEF RestoreMode, InMaintenance
  <2> QED
    BY <2>1, <2>2, <2>3
<1>3. Types /\ ModeKnown =>
        [\A u \in User :
           FinishOnline(u) \/ (pc[u] = "update_php" /\ RunDatabaseUpdates(u))
             => before[u] \in {None, InMaintenance'}]_vars
  BY <1>2 DEF FinishOnline, RunDatabaseUpdates
<1> QED
  BY <1>1, <1>3, AlwaysTypes, ModeInductive, PTL DEF Spec, ModeRestored

=============================================================================
