--------------------------------- MODULE Imce ---------------------------------
(***************************************************************************)
(* The file manager imce: the folders a browser shows, the requests it has *)
(* in flight and the file system of the server, which others change too.   *)
(*                                                                         *)
(* JavaScript runs one event at a time, so an event handler is a step.  It *)
(* is written as an operator from one state of the browser to the next, in *)
(* the order of its calls.  What the code does to one item after the       *)
(* other, or up and down the tree by recursion, is said of all of them at  *)
(* once.  A folder is an object: it is removed from the tree while a       *)
(* request still refers to it, and another one may take its place.         *)
(*                                                                         *)
(* A path is the sequence of its names and <<>> is the root.  Permissions  *)
(* are all granted; the order of a folder's items is that of Names.        *)
(***************************************************************************)
EXTENDS Naturals, FiniteSets, SequencesExt

CONSTANTS Names,           \* the names of files and folders, in order
          FolderPath,      \* paths of folders, with their parents
          FilePath,        \* paths of files
          Existing,        \* sets of entries that a server may begin with
          Predefined,      \* paths with a configuration of their own
          MaxRequests,     \* bound: requests in flight
          MaxSent,         \* bound: requests after the first
          MaxForeign,      \* bound: changes that others make
          None

Name == Range(Names)
Entry == (FolderPath \cup FilePath) \ {<<>>}

\* An object is named after the place it was made for; gen tells apart those
\* that exist at a time.
Id == [at : Seq(Name), gen : Nat]
Root == [at |-> <<>>, gen |-> 0]

\* The path that a folder takes itself to have.
Path == Seq(Name \cup {"undefined"})

\* The paths in P and those that lead to them.
Leading(P) == UNION {{SubSeq(p, 1, k) : k \in 1 .. Len(p)} : p \in P}

Slot == 1 .. MaxRequests

Reply == [content : (SUBSET Name) \cup {None}, added : SUBSET Name,
          removed : SUBSET Name]

\* A request is about the items "on" of the folder at a path.
Request ==
  [op : {"browse", "delete", "newfolder", "upload"}, folder : Id,
   path : Path \cup {None}, on : SUBSET Name, answer : Reply \cup {None}]

ASSUME ConstantsAssumption ==
  /\ Names \in Seq(Name)
  /\ FolderPath \cup FilePath \subseteq Seq(Name) /\ <<>> \in FolderPath
  /\ Predefined \subseteq FolderPath /\ IsFiniteSet(Predefined)
  /\ FolderPath \cap FilePath = {}
  /\ \A p \in FolderPath \cup FilePath : p # <<>> => Front(p) \in FolderPath
  /\ \A S \in Existing : /\ Leading(Predefined) \subseteq S /\ S \subseteq Entry
                        /\ \A q \in S : Front(q) \in S \cup {<<>>}
  /\ MaxRequests \in Nat \ {0} /\ MaxSent \in Nat /\ MaxForeign \in Nat
  /\ None \notin Id /\ None \notin Path /\ \A S \in SUBSET Name : S # None
  /\ None \notin Reply /\ None \notin Request

VARIABLES
  ui,                      \* the browser: folders, tree, active and selected
  requests,                \* a request for each slot, or None
  server,                  \* the entries that exist
  sent,                    \* history: requests after the first
  foreign,                 \* history: changes that others have made
  disturbed                \* history: the view may differ from the server

vars == <<ui, requests, server, sent, foreign, disturbed>>

NameOf(o) == Last(o.at)
Content(S, p) == {Last(q) : q \in {e \in S : Front(e) = p}}
NamesIn(p) == Content(server, p)

\* An item is a folder, or None for a file; a folder out of the tree has no path.
FolderOK(x, folders) ==
  /\ DOMAIN x = {"parent", "path", "items", "busy", "loading", "loaded", "disabled",
                 "expanded"}
  /\ x.parent \in folders \cup {None}
  /\ x.path \in Path \cup {None}
  /\ DOMAIN x.items \subseteq Name
  /\ Range(x.items) \subseteq folders \cup {None}
  /\ {x.busy, x.loading, x.loaded, x.disabled, x.expanded} \subseteq BOOLEAN

TypeOK ==
  /\ DOMAIN ui = {"folders", "tree", "active", "selected"}
  /\ DOMAIN ui.folders \subseteq Id
  /\ \A f \in DOMAIN ui.folders : FolderOK(ui.folders[f], DOMAIN ui.folders)
  /\ DOMAIN ui.tree \subseteq Path
  /\ Range(ui.tree) \subseteq DOMAIN ui.folders
  /\ ui.active \in DOMAIN ui.folders
  /\ ui.selected \subseteq [of : Id, name : Name]
  /\ requests \in [Slot -> Request \cup {None}]
  /\ \A k \in Slot : requests[k] # None => requests[k].folder \in DOMAIN ui.folders
  /\ server \subseteq Seq(Name) \ {<<>>}
  /\ sent \in 0 .. MaxSent
  /\ foreign \in 0 .. MaxForeign
  /\ disturbed \in BOOLEAN

-----------------------------------------------------------------------------
(* Reading the state s of a browser. *)

Listed(s, f) == DOMAIN s.folders[f].items
Sub(s, f) == Range(s.folders[f].items) \ {None}

IsReady(s, f) == ~s.folders[f].busy /\ ~s.folders[f].disabled

IsPredefined(f) == f.at \in Predefined /\ f.gen = 0

\* What can be reached from F: without it, no set that contains F is closed.
IsClosed(next, S) == \A g \in S : next[g] \subseteq S

Reach(next, F) ==
  F \cup {g \in DOMAIN next \ F :
            \A S \in SUBSET (DOMAIN next \ (F \cup {g})) : ~IsClosed(next, F \cup S)}

Upward(s, f) ==
  [g \in {h \in DOMAIN s.folders : IsPrefix(h.at, f.at)}
     |-> {s.folders[g].parent} \ {None}]

\* A folder and those above it, or below.
Above(s, f) == Reach(Upward(s, f), {f})

Beneath(s, F) == {h \in DOMAIN s.folders : \E f \in F : IsPrefix(f.at, h.at)}
Below(s, F) == Reach([g \in Beneath(s, F) |-> Sub(s, g)], F)

HasConf(s, f) == \E g \in Above(s, f) : IsPredefined(g)

LeadsToPredefined(s, f, n) ==
  LET x == s.folders[f].items[n]
  IN x # None /\ \E g \in Below(s, {x}) : IsPredefined(g)

\* getPath(): the path of the nearest folder that has one, and the names from
\* there.
GetPath(s, f) ==
  LET P == {g \in Above(s, f) : s.folders[g].path # None}
      g == CHOOSE h \in P : \A i \in P : Len(i.at) <= Len(h.at)
  IN IF P = {} THEN None
     ELSE s.folders[g].path \o SubSeq(f.at, Len(g.at) + 1, Len(f.at))

\* The garbage collector keeps what something still refers to, after an event
\* that leaves requests rs.
Held(s, rs) ==
  Range(s.tree) \cup ({s.active} \ {None})
    \cup {rs[k].folder : k \in {l \in Slot : rs[l] # None}}

Linked(s, rs) ==
  Reach([g \in DOMAIN s.folders |-> Sub(s, g) \cup ({s.folders[g].parent} \ {None})],
        Held(s, rs))

Collect(s, rs) == [s EXCEPT !.folders = Restrict(@, Linked(s, rs))]

-----------------------------------------------------------------------------
(* Folders of the tree. *)

SetBusy(s, f, b) == [s EXCEPT !.folders[f].busy = b]
SetExpanded(s, f, b) == [s EXCEPT !.folders[f].expanded = b]

\* setLoading(TRUE): the active folder loses the selection.
StartLoading(s, f) ==
  [s EXCEPT !.folders[f].loading = TRUE, !.folders[f].busy = TRUE,
            !.selected = IF s.active = f THEN {} ELSE @]

\* With other folders, or with folders that are other than they were.
Override(new, old) ==
  [x \in DOMAIN new \cup DOMAIN old |-> IF x \in DOMAIN new THEN new[x] ELSE old[x]]

With(s, folders) == [s EXCEPT !.folders = Override(folders, @)]

\* Mutant of UpdateSubtrees: nothing is updated.
KeepExpanded(s, F) == s

\* updateSubtree(): a folder without subfolders is not expanded.
UpdateSubtrees(s, F) ==
  With(s, [g \in {h \in F : Sub(s, h) = {}} |->
             [s.folders[g] EXCEPT !.expanded = FALSE]])

ExpandAbove(s, f) ==
  With(s, [g \in Above(s, f) \ {f} |-> [s.folders[g] EXCEPT !.expanded = TRUE]])

\* Mutant of Activate: the selection stays.
ActivateKeeping(s, f) ==
  IF s.active = f THEN s ELSE ExpandAbove([s EXCEPT !.active = f], f)

\* activate(): the old folder loses the selection.
Activate(s, f) ==
  IF s.active = f THEN s
  ELSE ExpandAbove([s EXCEPT !.selected = {}, !.active = f], f)

\* setPath(null)
ForgetPath(s, B) ==
  With([s EXCEPT !.tree = Restrict(@, DOMAIN @ \ {s.folders[g].path : g \in B})],
       [g \in B |-> [s.folders[g] EXCEPT !.path = None]])

ForgetPaths(s, F) == ForgetPath(s, Below(s, F))

\* removeItem() of the items N of f.  The loop over the descendants of a folder
\* leaves out every other one, because each removal moves those behind it.
Position(n) == CHOOSE i \in DOMAIN Names : Names[i] = n

EveryOther(s, f) ==
  {n \in Listed(s, f) :
     Cardinality({m \in Listed(s, f) : Position(m) <= Position(n)}) % 2 = 1}

Pick(s, f, N) == {s.folders[f].items[n] : n \in N} \ {None}

Removed(s, f, N) ==
  LET F == Pick(s, f, N)
  IN Reach([g \in Beneath(s, F) |-> Pick(s, g, EveryOther(s, g))], F)

\* The names that each folder loses.
Cuts(s, f, N) ==
  [g \in {f} \cup Removed(s, f, N) |-> IF g = f THEN N ELSE EveryOther(s, g)]

Deselect(s, cuts) ==
  [s EXCEPT !.selected = {i \in @ : i.of \in DOMAIN cuts => i.name \notin cuts[i.of]}]

\* Mutant of Leave: the folder above f is activated.
LeaveAbove(s, f, X) ==
  IF s.active \in X THEN [s EXCEPT !.active = s.folders[f].parent] ELSE s

\* The removal of a folder that is active activates the one above it, and so on
\* up to f, whose items X is about.
Leave(s, f, X) ==
  IF s.active \in X THEN Activate(ExpandAbove(s, s.folders[s.active].parent), f)
  ELSE s

\* The items go; a folder that goes is not busy any more.
Cut(s, f, cuts) ==
  With(s, [g \in DOMAIN cuts |->
    [s.folders[g] EXCEPT !.items = Restrict(@, DOMAIN @ \ cuts[g]),
                         !.parent = IF g = f THEN @ ELSE None,
                         !.busy = IF g = f THEN @ ELSE FALSE]])

Detach(s, f, N, cuts) ==
  Cut(ForgetPaths(Leave(Deselect(s, cuts), f, DOMAIN cuts \ {f}), Pick(s, f, N)),
      f, cuts)

RemoveFrom(s, f, N, cuts) == UpdateSubtrees(Detach(s, f, N, cuts), DOMAIN cuts)

RemoveItems(s, f, N) == RemoveFrom(s, f, N, Cuts(s, f, N))

DropItems(s, f, N) == RemoveItems(s, f, N \cap Listed(s, f))

\* appendItem() of new items of f and, in those that are folders, of more: the
\* folders and the files at some paths. x has the object of each.
FreshId(s, p) ==
  [at |-> p, gen |-> CHOOSE g \in 0 .. Cardinality(DOMAIN s.folders) :
     /\ [at |-> p, gen |-> g] \notin DOMAIN s.folders
     /\ \A h \in 0 .. g - 1 : [at |-> p, gen |-> h] \in DOMAIN s.folders]

Objects(s, folders, files) ==
  [p \in folders \cup files |-> IF p \in folders THEN FreshId(s, p) ELSE None]

\* The new items at the path p.
ItemsAt(x, p) ==
  [n \in {Last(q) : q \in {r \in DOMAIN x : Front(r) = p}} |-> x[Append(p, n)]]

\* A folder without parent is taken for the root.
PathIn(s, f) ==
  IF s.folders[f].parent = None THEN <<>>
  ELSE IF s.folders[f].path = None THEN <<"undefined">> ELSE s.folders[f].path

PathOf(s, f, p) == PathIn(s, f) \o SubSeq(p, Len(f.at) + 1, Len(p))

\* The first subfolder expands an active folder (prepareSubtree()); a folder is
\* disabled if it inherits no configuration (setPath()).
NewFolder(s, f, x, p) ==
  [parent |-> IF Front(p) = f.at THEN f ELSE x[Front(p)],
   path |-> PathOf(s, f, p),
   items |-> ItemsAt(x, p),
   busy |-> FALSE, loading |-> FALSE, loaded |-> FALSE,
   disabled |-> ~HasConf(s, f)
     /\ ~\E q \in DOMAIN x : IsPrefix(q, p) /\ IsPredefined(x[q]),
   expanded |-> s.active = None /\ Range(ItemsAt(x, p)) \ {None} # {}]

\* The folder f with the items y as well.
Extended(s, f, y) ==
  [s.folders[f] EXCEPT
     !.items = Override(y, @),
     !.expanded = IF Sub(s, f) # {} \/ Range(y) \ {None} = {} THEN @
                  ELSE s.active \in {f, None}]

Made(x) == Range(x) \ {None}

\* setPath() of the new folders.
Register(s, f, x) ==
  [s EXCEPT !.tree = Override(
     [p \in {PathOf(s, f, g.at) : g \in Made(x)} |->
        CHOOSE g \in Made(x) : PathOf(s, f, g.at) = p], @)]

Graft(s, f, x) ==
  With(Register(s, f, x),
       [g \in Made(x) \cup {f} |->
          IF g = f THEN Extended(s, f, ItemsAt(x, f.at)) ELSE NewFolder(s, f, x, g.at)])

\* addFolder(): the folders that are missing from the last one on the path that
\* there is. They take the place of an item that has the name of the first.
LastKnown(s, p) ==
  CHOOSE k \in 0 .. Len(p) :
    /\ SubSeq(p, 1, k) \in DOMAIN s.tree
    /\ \A j \in k + 1 .. Len(p) : SubSeq(p, 1, j) \notin DOMAIN s.tree

Missing(f, p, k) == {f.at \o SubSeq(p, k + 1, j) : j \in k + 1 .. Len(p)}

AddBelow(s, f, p, k) ==
  LET r == DropItems(s, f, {p[k + 1]})
  IN Graft(r, f, Objects(r, Missing(f, p, k), {}))

AddFolder(s, p) ==
  LET k == LastKnown(s, p)
  IN IF p \in DOMAIN s.tree THEN s
     ELSE AddBelow(s, s.tree[SubSeq(p, 1, k)], p, k)

SelectAll(s, f, names) ==
  IF s.active = f THEN [s EXCEPT !.selected = {[of |-> f, name |-> n] : n \in names}]
  ELSE s

\* addContent(): items the folder has already are only updated.
AddContent(s, f, names) ==
  LET P == {Append(f.at, n) : n \in names \ Listed(s, f)}
  IN Graft(s, f, Objects(s, P \ FilePath, P \cap FilePath))

\* setContent(): what is not listed goes, unless it leads to a predefined folder.
Outdated(s, f, content) ==
  {n \in Listed(s, f) \ content : ~LeadsToPredefined(s, f, n)}

SetLoaded(s, f) == [s EXCEPT !.folders[f].loaded = TRUE]

SetContent(s, f, content) ==
  UpdateSubtrees(
    SetLoaded(AddContent(RemoveItems(s, f, Outdated(s, f, content)), f, content), f),
    {f})

-----------------------------------------------------------------------------
(* Requests. *)

Free(rs) == {k \in Slot : rs[k] = None}
InFlight == {requests[k] : k \in Slot} \ {None}

\* Requests that may see each other's work: of one folder, or of a folder and
\* one above it.
Tangled(rs) ==
  \E k, l \in Slot :
    /\ k # l /\ rs[k] # None /\ rs[l] # None
    /\ \/ rs[k].folder = rs[l].folder
       \/ IsPrefix(rs[k].folder.at, rs[l].folder.at)

\* The event has ended with the browser in state s and requests rs.
End(s, rs) ==
  /\ ui' = Collect(s, rs)
  /\ requests' = rs
  /\ disturbed' = (disturbed \/ Tangled(rs))

\* imce.ajax(): the folder is busy until the answer comes.
Send(s, op, f, on) ==
  /\ Free(requests) # {} /\ sent < MaxSent
  /\ sent' = sent + 1
  /\ LET k == CHOOSE l \in Free(requests) : \A m \in Free(requests) : l <= m
     IN End(SetBusy(s, f, TRUE),
            [requests EXCEPT ![k] = [op |-> op, folder |-> f, path |-> GetPath(s, f),
                                     on |-> on, answer |-> None]])
  /\ UNCHANGED <<server, foreign>>

\* load()
Load(s, f) ==
  Send(IF s.folders[f].loading THEN s ELSE StartLoading(s, f), "browse", f, {})

Settle(s) == End(s, requests) /\ UNCHANGED <<server, sent, foreign>>

-----------------------------------------------------------------------------
(* Events of the user. *)

\* Branches that can be seen below the branch of f.
Shown(f) ==
  Reach([g \in Beneath(ui, {f}) |-> IF ui.folders[g].expanded THEN Sub(ui, g) ELSE {}],
        {f})

\* open(): by a click on its branch, a double click on its item, or ENTER.
Open(f) ==
  IF ui.folders[f].loaded \/ ~IsReady(ui, f)
  THEN f # ui.active /\ Settle(Activate(ui, f))
  ELSE Load(Activate(ui, f), f)

ClickFolder ==
  \E f \in Shown(Root) \cup Sub(ui, ui.active) \cup {ui.active} : Open(f)

\* A click on the toggle of a branch, or the arrow keys LEFT and RIGHT.
Toggle ==
  \E f \in Shown(Root) \cup {ui.active} :
    IF Sub(ui, f) = {} THEN Open(f)
    ELSE Settle(SetExpanded(ui, f, ~ui.folders[f].expanded))

\* The arrow keys UP and DOWN go from branch to branch: up to the last one that
\* can be seen below a sibling, or to the parent; down to a subfolder, or to a
\* sibling of this folder or of one above it. Their order is left out.
Siblings(g) ==
  IF ui.folders[g].parent = None THEN {} ELSE Sub(ui, ui.folders[g].parent)

WalkUp ==
  (UNION {Shown(h) : h \in Siblings(ui.active) \ {ui.active}})
    \cup ({ui.folders[ui.active].parent} \ {None})

WalkDown ==
  (IF ui.folders[ui.active].expanded THEN Sub(ui, ui.active) ELSE {})
    \cup (UNION {Siblings(g) \ {g} : g \in Above(ui, ui.active)})

Walk == \E f \in WalkUp \cup WalkDown : Settle(Activate(ui, f))

Refresh == IsReady(ui, ui.active) /\ Load(ui, ui.active)

\* A click on an item, with the control key, or the keys that select all.
Select ==
  \E n \in Listed(ui, ui.active) :
    LET item == [of |-> ui.active, name |-> n]
        toggled == IF item \in ui.selected THEN ui.selected \ {item}
                   ELSE ui.selected \cup {item}
    IN \E S \in {{item}, toggled, [of : {ui.active}, name : Listed(ui, ui.active)]} :
         S # ui.selected /\ Settle([ui EXCEPT !.selected = S])

\* validatePermissions() throws in a folder that is not in the tree.
DeleteSelection ==
  /\ IsReady(ui, ui.active)
  /\ ui.selected # {}
  /\ GetPath(ui, ui.active) \in DOMAIN ui.tree
  /\ ~\E i \in ui.selected : LeadsToPredefined(ui, i.of, i.name)
  /\ Send(ui, "delete", ui.active, {i.name : i \in ui.selected})

CreateFolder ==
  \E n \in Name \ Listed(ui, ui.active) :
    /\ IsReady(ui, ui.active)
    /\ Append(ui.active.at, n) \in FolderPath
    /\ Send(ui, "newfolder", ui.active, {n})

\* The upload queue starts an item, whether the folder is busy or not.
StartUpload ==
  \E q \in FilePath :
    /\ Front(q) \in DOMAIN ui.tree
    /\ \A r \in InFlight : r.op # "upload"
    /\ Send(ui, "upload", ui.tree[Front(q)], {Last(q)})

-----------------------------------------------------------------------------
(* The server. *)

Under(S, P) == {q \in S : \E p \in P : IsPrefix(p, q)}

NoContent == [content |-> None, added |-> {}, removed |-> {}]

\* Every request first makes the predefined folders that are missing.
Ensured == server \cup Leading(Predefined)

\* folderInConf(), for a folder that exists
InConf(p) == \E q \in Predefined : IsPrefix(q, p)

\* The server has no such folder, was not told one, or has no configuration
\* for it.
Unknown(r) == ~(r.path \in Ensured \cup {<<>>} /\ InConf(r.path))

\* What "newfolder" and "upload" may make: a folder that does not exist; a file
\* that is new or replaced, or that gets another name.
Makes(r, n) ==
  IF r.op = "newfolder" THEN n \in r.on /\ Append(r.path, n) \notin Ensured
  ELSE n \in r.on \/ Append(r.path, n) \in FilePath \ Ensured

Answer(k, a, S) ==
  /\ requests' = [requests EXCEPT ![k].answer = a]
  /\ server' = S

Serve(k) ==
  LET r == requests[k]
      on == {Append(r.path, n) : n \in r.on}
  IN
  /\ r # None /\ r.answer = None
  /\ \/ \* The folder exists, mkdir() fails, or the upload is refused.
        /\ Unknown(r) \/ r.op \in {"newfolder", "upload"}
        /\ Answer(k, NoContent, Ensured)
        /\ UNCHANGED disturbed
     \/ /\ ~Unknown(r) /\ r.op = "browse"
        /\ Answer(k, [NoContent EXCEPT !.content = Content(Ensured, r.path)], Ensured)
        /\ UNCHANGED disturbed
     \/ \* What does not exist is removed in the browser too, even if the rest is
        \* refused because it leads to a predefined folder. A folder may be
        \* deleted in part: it stays, and the answer does not tell.
        /\ ~Unknown(r) /\ r.op = "delete"
        /\ \E gone \in SUBSET Under(Ensured, on) :
             /\ on \cap Leading(Predefined) # {} => gone = {}
             /\ \A q \in Ensured : Front(q) \in gone => q \in gone
             /\ Answer(k, [NoContent EXCEPT !.removed =
                              {n \in r.on : Append(r.path, n) \notin Ensured \ gone}],
                       Ensured \ gone)
             /\ disturbed' = (disturbed \/ gone \notin {{}, Under(Ensured, on)})
     \/ /\ ~Unknown(r) /\ r.op \in {"newfolder", "upload"}
        /\ \E n \in Name :
             /\ Makes(r, n)
             /\ Answer(k, [NoContent EXCEPT !.added = {n}],
                       Ensured \cup {Append(r.path, n)})
        /\ UNCHANGED disturbed
  /\ UNCHANGED <<ui, sent, foreign>>

\* Another user, or another window.
OthersChange ==
  /\ foreign < MaxForeign
  /\ foreign' = foreign + 1
  /\ disturbed' = TRUE
  /\ \/ \E q \in server : server' = server \ Under(server, {q})
     \/ \E q \in Entry \ server :
          /\ Front(q) \in server \cup {<<>>}
          /\ server' = server \cup {q}
  /\ UNCHANGED <<ui, requests, sent>>

-----------------------------------------------------------------------------
(* The end of a request. *)

\* ajaxProcessRemoved() of items of the folder at a path.
ProcessRemoved(s, path, removed) ==
  IF path \in DOMAIN s.tree THEN DropItems(s, s.tree[path], removed) ELSE s

\* Mutant of AddTo: only the active folder is updated.
AddIfActive(s, f, names) ==
  IF s.active = f THEN SelectAll(AddContent(s, f, names), f, names) ELSE s

AddTo(s, f, names) == SelectAll(AddContent(s, f, names), f, names)

AddAt(s, path, names) == AddTo(s, s.tree[path], names)

\* ajaxProcessAdded()
ProcessAdded(s, path, added) ==
  IF added = {} THEN s ELSE AddAt(AddFolder(s, path), path, added)

EndLoading(s, f) ==
  IF s.folders[f].loading
  THEN [s EXCEPT !.folders[f].loading = FALSE, !.folders[f].busy = FALSE] ELSE s

ExpandLoaded(s, f) == IF Sub(s, f) = {} THEN s ELSE SetExpanded(s, f, TRUE)

\* Mutant of LoadComplete: only an answer with content ends the loading.
LoadCompleteIfContent(s, f, content) ==
  IF content = None THEN s
  ELSE ExpandLoaded(EndLoading(SetContent(s, f, content), f), f)

\* xFolderLoadComplete(); content is None if there is none in the answer.
LoadComplete(s, f, content) ==
  ExpandLoaded(EndLoading(IF content = None THEN s
                          ELSE SetContent(s, f, content), f), f)

\* ajaxComplete(), after ajaxSuccess() or ajaxError().
Complete(s, r, content) ==
  IF r.op = "browse" THEN LoadComplete(SetBusy(s, r.folder, FALSE), r.folder, content)
  ELSE SetBusy(s, r.folder, FALSE)

Deliver(k) ==
  LET r == requests[k] IN
  /\ r # None /\ r.answer # None
  /\ End(Complete(ProcessAdded(ProcessRemoved(ui, r.path, r.answer.removed),
                               r.path, r.answer.added), r, r.answer.content),
         [requests EXCEPT ![k] = None])
  /\ UNCHANGED <<server, sent, foreign>>

\* The request or its answer is lost, or the server fails.
Lose(k) ==
  LET r == requests[k] IN
  /\ r # None
  /\ ui' = Collect(Complete(ui, r, None), [requests EXCEPT ![k] = None])
  /\ requests' = [requests EXCEPT ![k] = None]
  /\ disturbed' = TRUE
  /\ UNCHANGED <<server, sent, foreign>>

-----------------------------------------------------------------------------

\* The root, the predefined folders and the one that the server tells to
\* activate, with those above them.
Bare ==
  [folders |-> [f \in {Root} |->
     [parent |-> None, path |-> <<>>, items |-> <<>>, busy |-> FALSE,
      loading |-> FALSE, loaded |-> FALSE, disabled |-> <<>> \notin Predefined,
      expanded |-> FALSE]],
   tree |-> [p \in {<<>>} |-> Root], active |-> None, selected |-> {}]

InitTree(P) == Graft(Bare, Root, Objects(Bare, Leading(P), {}))

LoadActive(s) == StartLoading(s, s.active)

ActivatePath(s, p) == Activate(s, s.tree[p])

Start(p) == LoadActive(ActivatePath(InitTree(Predefined \cup {p}), p))

Init ==
  /\ server \in Existing
  /\ \E p \in FolderPath \cap (server \cup {<<>>}) :
       /\ InConf(p)
       /\ ui = Start(p)
       /\ requests = [k \in Slot |->
            IF k = 1 THEN [op |-> "browse", folder |-> ui.active, path |-> p,
                           on |-> {}, answer |-> None]
            ELSE None]
  /\ sent = 0 /\ foreign = 0
  /\ disturbed = FALSE

Next ==
  \/ ClickFolder \/ Toggle \/ Walk \/ Refresh
  \/ Select \/ DeleteSelection \/ CreateFolder \/ StartUpload
  \/ \E k \in Slot : Serve(k) \/ Deliver(k) \/ Lose(k)
  \/ OthersChange

Spec == Init /\ [][Next]_vars

-----------------------------------------------------------------------------

(***************************************************************************)
(* What is selected is in the active folder: an operation on the selection *)
(* never touches what the user does not see (imce.Folder.js:254, 392-401). *)
(***************************************************************************)
SelectionIsActive ==
  \A i \in ui.selected : i.of = ui.active /\ i.name \in Listed(ui, ui.active)

(***************************************************************************)
(* A folder that is busy or loading waits for a request: it never stays    *)
(* unusable (imce.js:1363, imce.Folder.js:406-424, 778-790).               *)
(***************************************************************************)
BusyIsPending ==
  \A f \in DOMAIN ui.folders :
    /\ ui.folders[f].busy => \E r \in InFlight : r.folder = f
    /\ ui.folders[f].loading =>
         \E r \in InFlight : r.folder = f /\ r.op = "browse"

(***************************************************************************)
(* A folder that is expanded has subfolders. eTreeUp() goes down from such *)
(* a branch to its last one until it comes to one that is not expanded,    *)
(* and would never come to an end otherwise (imce.js:847).                 *)
(***************************************************************************)
ExpandedHasSubfolders ==
  \A f \in DOMAIN ui.folders : ui.folders[f].expanded => Sub(ui, f) # {}

(***************************************************************************)
(* When all requests are answered the folders that were loaded show what   *)
(* the server has, if nobody else changed it, no answer was lost and no    *)
(* two requests went to one folder or to folders above each other          *)
(* (imce.js:1399-1427, imce.Folder.js:68-143).                             *)
(***************************************************************************)
InTree == {f \in DOMAIN ui.folders : Root \in Above(ui, f)}

ViewIsCurrent ==
  InFlight = {} /\ ~disturbed =>
    \A f \in InTree : ui.folders[f].loaded =>
      /\ NamesIn(f.at) \subseteq Listed(ui, f)
      /\ \A n \in Listed(ui, f) \ NamesIn(f.at) : LeadsToPredefined(ui, f, n)

(***************************************************************************)
(* The folder that is active is in the tree: the removal of a folder is to *)
(* "Remove all descendants of the subfolder." (imce.Folder.js:223)         *)
(***************************************************************************)
ActiveIsInTree == Root \in Above(ui, ui.active)
=============================================================================
