--------------------------- MODULE ImceUploadQueue ---------------------------
(***************************************************************************)
(* imce/js/plugins/imce/imce.UploadQueue.js: the files that wait to be     *)
(* uploaded, one at a time.                                                *)
(*                                                                         *)
(* JavaScript runs one event at a time.  An event is a step, but for the   *)
(* selection of files, which is a step per file (selectFiles is a loop)    *)
(* with no event in between.  An item is completed and taken out of the    *)
(* queue in one step: complete() calls next(), and abort() calls           *)
(* complete() before it returns.  (When next() starts an item that it had  *)
(* passed over, from before the completed one, it stops there and removes  *)
(* the completed one the next time.  Until then nothing looks at it: it is *)
(* neither waiting nor active, and its id can be added again.)              *)
(***************************************************************************)
EXTENDS Naturals, Sequences

CONSTANTS Folder,          \* paths of folders
          Root,            \* the root folder, which is never deleted
          Name,            \* file names
          Valid,           \* those that validateFileUpload() lets through
          None

ASSUME ConstantsAssumption ==
  /\ Root \in Folder
  /\ Valid \subseteq Name
  /\ None \notin [destination : Folder, name : Name]

\* An item's id is its destination joined with the file's name.
Item == [destination : Folder, name : Name]

VARIABLES
  queue,                   \* the items, in the order of their uploads
  activeItem,              \* the item whose request is under way, or None
  running,                 \* the queue goes on to the next item by itself
  disabled,                \* the upload button
  picked,                  \* files selectFiles() has not come to yet, and the
  path,                    \* ... active folder when it began
  tree,                    \* the folders getFolder() finds
  activeFolder,
  autoStart,               \* the setting upload_auto_start
  missed                   \* history: items whose folder was missing while
                           \* they were in the queue

uploads == <<queue, activeItem, running, disabled, missed>>
picking == <<picked, path>>
folders == <<tree, activeFolder, autoStart>>
vars == <<queue, activeItem, running, disabled, picked, path, tree,
          activeFolder, autoStart, missed>>

Elements(q) == {q[i] : i \in DOMAIN q}
Queued == Elements(queue)

TypeOK ==
  /\ queue \in Seq(Item)
  /\ activeItem \in Item \cup {None}
  /\ running \in BOOLEAN /\ disabled \in BOOLEAN
  /\ picked \in Seq(Name)
  /\ path \in Folder
  /\ tree \in SUBSET Folder /\ Root \in tree
  /\ activeFolder \in tree
  /\ autoStart \in BOOLEAN
  /\ missed \in SUBSET Item

Init ==
  /\ queue = <<>> /\ activeItem = None
  /\ running = FALSE /\ disabled = FALSE
  /\ picked = <<>> /\ path = Root
  /\ tree \in SUBSET Folder /\ Root \in tree
  /\ activeFolder \in tree
  /\ autoStart \in BOOLEAN
  /\ missed = {}

\* No event is being handled.
Between == picked = <<>>

-----------------------------------------------------------------------------
(* The queue. *)

\* queue.splice(i, 1)
Splice(q, i) ==
  [j \in 1 .. Len(q) - 1 |-> IF j < i THEN q[j] ELSE q[j + 1]]

Without(q, x) ==
  IF \E i \in DOMAIN q : q[i] = x
  THEN Splice(q, CHOOSE i \in DOMAIN q : q[i] = x)
  ELSE q

\* ajaxPrepare() has options for an item whose destination is in the tree.
CanStart(x, t) == x.destination \in t

\* Mutant of IsNext: only the head of the queue is tried.
IsHead(q, i, t) == i = 1 /\ CanStart(q[i], t)

\* Mutant of IsNext: the queue is a stack.
IsLast(q, i, t) ==
  /\ CanStart(q[i], t)
  /\ \A j \in i + 1 .. Len(q) : ~CanStart(q[j], t)

IsNext(q, i, t) ==
  /\ CanStart(q[i], t)
  /\ \A j \in 1 .. i - 1 : ~CanStart(q[j], t)

\* next(), and end() when there is nothing to start.
StartNext(q, t) ==
  \/ \E i \in DOMAIN q :
       /\ IsNext(q, i, t)
       /\ activeItem' = q[i]
       /\ running' = TRUE
       /\ disabled' = TRUE
  \/ /\ ~\E i \in DOMAIN q : IsNext(q, i, t)
     /\ activeItem' = None
     /\ running' = FALSE
     /\ disabled' = FALSE

\* Mutant of Complete: the queue goes on only after a successful upload.
CompleteIfUploaded(q, t, status) ==
  IF status THEN StartNext(q, t)
  ELSE activeItem' = None /\ UNCHANGED <<running, disabled>>

\* The active item is completed, whether it was uploaded or not; q is what is
\* left in the queue.
Complete(q, t, status) == StartNext(q, t)

\* Mutant of Add: the newest item goes first.
AddFirst(q, x) == <<x>> \o q

Add(q, x) == Append(q, x)

\* History: items that have left are forgotten, items without folder noted.
Missing(S, t) == {x \in S : x.destination \notin t}

Track(q, t) ==
  missed' = (missed \cap Elements(q)) \cup Missing(Elements(q), t)

-----------------------------------------------------------------------------
(* Events of the user. *)

\* The file dialog is closed with some files selected.
InputChange(files) ==
  /\ Between
  /\ picked' = files
  /\ path' = activeFolder
  /\ UNCHANGED <<uploads, folders>>

PickedItem == [destination |-> path, name |-> Head(picked)]

\* After the last file the button is clicked, which starts the queue unless
\* the button is disabled.
LastPicked == Tail(picked) = <<>>

Autostarts == autoStart /\ LastPicked

\* An invalid file is passed over.
PassOver ==
  /\ ~Between
  /\ Head(picked) \notin Valid
  /\ picked' = Tail(picked)
  /\ IF Autostarts /\ ~running
     THEN StartNext(queue, tree)
     ELSE UNCHANGED <<activeItem, running, disabled>>
  /\ UNCHANGED <<queue, missed, path, folders>>

\* addItem() of a new file.
AddItem ==
  /\ ~Between
  /\ Head(picked) \in Valid
  /\ PickedItem # activeItem
  /\ picked' = Tail(picked)
  /\ queue' = Add(Without(queue, PickedItem), PickedItem)
  /\ IF Autostarts /\ ~running
     THEN StartNext(queue', tree)
     ELSE UNCHANGED <<activeItem, running, disabled>>
  /\ missed' = (missed \ {PickedItem}) \cup Missing({PickedItem}, tree)
  /\ UNCHANGED <<path, folders>>

\* addItem() of a file that is being uploaded: the upload is aborted, the queue
\* goes on without it or ends, and the file is added.
AddActive ==
  /\ ~Between
  /\ Head(picked) \in Valid
  /\ PickedItem = activeItem
  /\ picked' = Tail(picked)
  /\ LET rest == Without(queue, activeItem)
         goesOn == \E i \in DOMAIN rest : IsNext(rest, i, tree)
     IN /\ queue' = Add(rest, PickedItem)
        /\ Complete(IF ~goesOn /\ Autostarts THEN queue' ELSE rest, tree, FALSE)
  /\ missed' = (missed \ {PickedItem}) \cup Missing({PickedItem}, tree)
  /\ UNCHANGED <<path, folders>>

\* The upload button: start().
Start ==
  /\ Between
  /\ ~disabled
  /\ ~running
  /\ queue # <<>>
  /\ StartNext(queue, tree)
  /\ UNCHANGED <<queue, missed, picking, folders>>

Cancel(x) ==
  /\ Between
  /\ x \in Queued
  /\ queue' = Without(queue, x)
  /\ IF x = activeItem THEN Complete(queue', tree, FALSE)
     ELSE UNCHANGED <<activeItem, running, disabled>>
  /\ Track(queue', tree)
  /\ UNCHANGED <<picking, folders>>

-----------------------------------------------------------------------------
(* Events of the network and of the rest of imce. *)

\* The answer to the active upload, or its failure. An answer that adds the
\* file also adds a folder that the tree has lost (ajaxProcessAdded).
Respond(status) ==
  /\ Between
  /\ activeItem # None
  /\ tree' = IF status THEN tree \cup {activeItem.destination} ELSE tree
  /\ queue' = Without(queue, activeItem)
  /\ Complete(queue', tree', status)
  /\ Track(queue', tree')
  /\ UNCHANGED <<picking, activeFolder, autoStart>>

\* Mutant of FolderGone: the folder that is gone stays active.
FolderGoneActive(f) ==
  /\ Between
  /\ f \in tree \ {Root}
  /\ tree' = tree \ {f}
  /\ Track(queue, tree')
  /\ UNCHANGED <<queue, activeItem, running, disabled, picking, autoStart,
                 activeFolder>>

\* A folder is deleted or renamed; the parent of an active one is activated.
FolderGone(f) ==
  /\ Between
  /\ f \in tree \ {Root}
  /\ tree' = tree \ {f}
  /\ activeFolder' \in IF activeFolder = f THEN tree' ELSE {activeFolder}
  /\ Track(queue, tree')
  /\ UNCHANGED <<queue, activeItem, running, disabled, picking, autoStart>>

FolderAdded(f) ==
  /\ Between
  /\ f \notin tree
  /\ tree' = tree \cup {f}
  /\ UNCHANGED <<uploads, picking, activeFolder, autoStart>>

Activate(f) ==
  /\ Between
  /\ f \in tree
  /\ activeFolder' = f
  /\ UNCHANGED <<uploads, picking, tree, autoStart>>

\* The files a user can select at once, each of them once.
Selections == {s \in UNION {[1 .. n -> Name] : n \in 1 .. 2} :
                 \A i, j \in DOMAIN s : s[i] = s[j] => i = j}

Next ==
  \/ \E files \in Selections : InputChange(files)
  \/ PassOver \/ AddItem \/ AddActive
  \/ Start
  \/ \E x \in Item : Cancel(x)
  \/ \E status \in BOOLEAN : Respond(status)
  \/ \E f \in Folder : FolderGone(f) \/ FolderAdded(f) \/ Activate(f)

Spec == Init /\ [][Next]_vars

\* An event handler runs to its end, and a request is answered or fails, if the
\* user does not abort it.
FairSpec ==
  /\ Spec
  /\ WF_vars(PassOver \/ AddItem \/ AddActive)
  /\ SF_vars(\E status \in BOOLEAN : Respond(status))

-----------------------------------------------------------------------------

(***************************************************************************)
(* A queue that is running has one upload under way, of an item that is    *)
(* still in the queue, and only then the button is disabled: the queue     *)
(* never waits for an answer that is not going to come                     *)
(* (imce.UploadQueue.js:57-97, 304-325).                                   *)
(***************************************************************************)
OneUpload ==
  /\ running <=> activeItem # None
  /\ disabled <=> running
  /\ activeItem # None => activeItem \in Queued

(***************************************************************************)
(* A file that is selected with automatic start on does not stay in a      *)
(* queue that stands still, unless its folder was missing meanwhile        *)
(* (imce.UploadQueue.js:338, imce.Folder.js).                              *)
(***************************************************************************)
NothingForgotten ==
  autoStart /\ Between /\ ~running => Queued \subseteq missed

(***************************************************************************)
(* Uploads begin in the order of the queue: whatever stands before the     *)
(* item that starts has no folder to go to (imce.UploadQueue.js:82).       *)
(***************************************************************************)
InOrder ==
  [][activeItem' \notin {None, activeItem} =>
       \A i, j \in DOMAIN queue' :
         queue'[i] = activeItem' /\ j < i => queue'[j].destination \notin tree']_vars

(***************************************************************************)
(* Each item of a running queue gets its turn: it leaves the queue, unless *)
(* its folder goes, the queue ends or the user selects the file again      *)
(* (imce.UploadQueue.js:304).                                              *)
(***************************************************************************)
SelectedAgain(x) == ~Between /\ path = x.destination /\ Head(picked) = x.name

GetsItsTurn ==
  \A x \in Item :
    (x \in Queued /\ running) ~>
      (x \notin Queued \/ ~running \/ x.destination \notin tree \/ SelectedAgain(x))

=============================================================================
