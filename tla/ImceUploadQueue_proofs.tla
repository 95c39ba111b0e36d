------------------------ MODULE ImceUploadQueue_proofs ------------------------
(***************************************************************************)
(* Proofs about ImceUploadQueue.tla, for any folders, files and selections *)
(* and a queue of any length.                                              *)
(***************************************************************************)
EXTENDS ImceUploadQueue, WellFoundedInduction, TLAPS

Unique(q) == \A i, j \in DOMAIN q : q[i] = q[j] => i = j

\* Items whose folder is missing now have been noted.
Noted == Missing(Queued, tree) \subseteq missed

IInv ==
  /\ TypeOK
  /\ Unique(queue)
  /\ OneUpload
  /\ Noted
  /\ NothingForgotten

-----------------------------------------------------------------------------
(* The queue as a sequence. *)

LEMMA SpliceIsSequence ==
  ASSUME NEW q \in Seq(Item), NEW k \in DOMAIN q
  PROVE  Splice(q, k) \in Seq(Item)
<1> DEFINE n == Len(q) - 1
<1>1. n \in Nat
  OBVIOUS
<1>2. \A j \in 1 .. n : (IF j < k THEN q[j] ELSE q[j + 1]) \in Item
  OBVIOUS
<1> QED
  BY <1>1, <1>2 DEF Splice

LEMMA SpliceElements ==
  ASSUME NEW q \in Seq(Item), Unique(q), NEW k \in DOMAIN q
  PROVE  /\ Unique(Splice(q, k))
         /\ Elements(Splice(q, k)) = Elements(q) \ {q[k]}
<1> DEFINE s == Splice(q, k)
<1> DEFINE n == Len(q) - 1
<1>1. n \in Nat /\ k \in 1 .. n + 1 /\ DOMAIN q = 1 .. n + 1
  OBVIOUS
<1>2. /\ DOMAIN s = 1 .. n
      /\ \A j \in 1 .. n : s[j] = IF j < k THEN q[j] ELSE q[j + 1]
  BY <1>1 DEF Splice
<1>3. Unique(s)
  <2> SUFFICES ASSUME NEW i \in 1 .. n, NEW j \in 1 .. n, s[i] = s[j]
               PROVE  i = j
    BY <1>2 DEF Unique
  <2> DEFINE old(l) == IF l < k THEN l ELSE l + 1
  <2>1. /\ old(i) \in DOMAIN q /\ s[i] = q[old(i)]
        /\ old(j) \in DOMAIN q /\ s[j] = q[old(j)]
    BY <1>1, <1>2
  <2>2. old(i) = old(j)
    <3> HIDE DEF old, s
    <3> QED
      BY <2>1 DEF Unique
  <2> QED
    BY <1>1, <2>2
<1>4. Elements(s) \subseteq Elements(q) \ {q[k]}
  BY <1>1, <1>2 DEF Elements, Unique
<1>5. ASSUME NEW i \in DOMAIN q, q[i] # q[k]
      PROVE  q[i] \in Elements(s)
  <2>1. CASE i < k
    BY <1>1, <1>2, <2>1 DEF Elements
  <2>2. CASE i > k
    <3>1. i - 1 \in 1 .. n /\ s[i - 1] = q[i]
      BY <1>1, <1>2, <2>2
    <3> QED
      BY <3>1, <1>2 DEF Elements
  <2> QED
    BY <1>5, <2>1, <2>2, <1>1
<1> QED
  BY <1>3, <1>4, <1>5 DEF Elements

LEMMA WithoutFacts ==
  ASSUME NEW q \in Seq(Item), Unique(q), NEW x
  PROVE  /\ Without(q, x) \in Seq(Item)
         /\ Unique(Without(q, x))
         /\ Elements(Without(q, x)) = Elements(q) \ {x}
<1>1. CASE \E i \in DOMAIN q : q[i] = x
  <2> DEFINE k == CHOOSE i \in DOMAIN q : q[i] = x
  <2>1. k \in DOMAIN q /\ q[k] = x
    BY <1>1
  <2>2. Without(q, x) = Splice(q, k)
    BY <1>1 DEF Without
  <2> HIDE DEF k
  <2> QED
    BY <2>1, <2>2, SpliceIsSequence, SpliceElements
<1>2. CASE ~\E i \in DOMAIN q : q[i] = x
  BY <1>2 DEF Without, Elements
<1> QED
  BY <1>1, <1>2

LEMMA AddFacts ==
  ASSUME NEW q \in Seq(Item), Unique(q), NEW x \in Item, x \notin Elements(q)
  PROVE  /\ Add(q, x) \in Seq(Item)
         /\ Unique(Add(q, x))
         /\ Elements(Add(q, x)) = Elements(q) \cup {x}
         /\ DOMAIN Add(q, x) = 1 .. Len(q) + 1
         /\ \A i \in DOMAIN q : Add(q, x)[i] = q[i]
<1> DEFINE a == Add(q, x)
<1>1. a \in Seq(Item) /\ Len(a) = Len(q) + 1 /\ DOMAIN a = 1 .. Len(q) + 1
  BY DEF Add
<1>2. \A i \in DOMAIN q : a[i] = q[i]
  BY DEF Add
<1>3. a[Len(q) + 1] = x
  BY DEF Add
<1>4. \A i \in DOMAIN a : i = Len(q) + 1 \/ i \in DOMAIN q
  BY <1>1
<1>5. Unique(a)
  BY <1>1, <1>2, <1>3, <1>4 DEF Unique, Elements
<1>6. Elements(a) = Elements(q) \cup {x}
  BY <1>1, <1>2, <1>3, <1>4 DEF Elements
<1> QED
  BY <1>1, <1>2, <1>5, <1>6

LEMMA ElementsAreItems ==
  ASSUME NEW q \in Seq(Item)
  PROVE  Elements(q) \subseteq Item
BY DEF Elements

-----------------------------------------------------------------------------
(* What next() establishes. *)

\* It starts an item of the queue, or ends when all folders are missing.
LEMMA Started ==
  ASSUME NEW q \in Seq(Item), NEW t, StartNext(q, t)
  PROVE  /\ activeItem' \in Item \cup {None}
         /\ running' \in BOOLEAN /\ disabled' \in BOOLEAN
         /\ running' <=> activeItem' # None
         /\ disabled' <=> running'
         /\ activeItem' # None => activeItem' \in Elements(q)
         /\ ~running' => Elements(q) = Missing(Elements(q), t)
<1>1. None \notin Item
  BY ConstantsAssumption DEF Item
<1>2. ASSUME NEW i \in DOMAIN q, CanStart(q[i], t)
      PROVE  \E k \in DOMAIN q : IsNext(q, k, t)
  <2> DEFINE less == OpToRel(<, Nat)
             T == {k \in DOMAIN q : CanStart(q[k], t)}
  <2>1. IsWellFoundedOn(less, Nat)
    BY NatLessThanWellFounded
  <2>2. T \subseteq Nat /\ T # {}
    BY <1>2
  <2>3. PICK k \in T : \A j \in T : <<j, k>> \notin less
    <3> HIDE DEF less, T
    <3> QED
      BY <2>1, <2>2, WFMin
  <2>4. \A j \in 1 .. k - 1 : ~CanStart(q[j], t)
    <3> SUFFICES ASSUME NEW j \in 1 .. k - 1, CanStart(q[j], t)
                 PROVE  FALSE
      OBVIOUS
    <3>1. j \in T /\ j < k
      BY <2>2
    <3> QED
      BY <2>2, <2>3, <3>1 DEF OpToRel
  <2> QED
    BY <2>3, <2>4 DEF IsNext
<1>3. CASE \E i \in DOMAIN q : /\ IsNext(q, i, t)
                               /\ activeItem' = q[i]
                               /\ running' = TRUE
                               /\ disabled' = TRUE
  BY <1>1, <1>3 DEF Elements
<1>4. CASE /\ ~\E i \in DOMAIN q : IsNext(q, i, t)
           /\ activeItem' = None
           /\ running' = FALSE
           /\ disabled' = FALSE
  BY <1>2, <1>4 DEF Elements, CanStart, Missing
<1> QED
  BY <1>3, <1>4 DEF StartNext

\* Nothing before the item it starts has a folder.
LEMMA FirstStarted ==
  ASSUME NEW q \in Seq(Item), NEW t, StartNext(q, t), activeItem' # None
  PROVE  \E k \in DOMAIN q : /\ activeItem' = q[k]
                             /\ \A j \in 1 .. k - 1 : q[j].destination \notin t
BY DEF StartNext, IsNext, CanStart

-----------------------------------------------------------------------------
(* The invariant. *)

LEMMA InitIInv == Init => IInv
<1> SUFFICES ASSUME Init
             PROVE  IInv
  OBVIOUS
<1>1. TypeOK
  <2>1. queue \in Seq(Item) /\ picked \in Seq(Name)
    BY DEF Init
  <2>2. /\ activeItem \in Item \cup {None}
        /\ path \in Folder /\ missed \in SUBSET Item
    BY ConstantsAssumption DEF Init
  <2>3. running \in BOOLEAN /\ disabled \in BOOLEAN
    BY DEF Init
  <2>4. /\ tree \in SUBSET Folder /\ Root \in tree
        /\ activeFolder \in tree /\ autoStart \in BOOLEAN
    BY DEF Init
  <2> QED
    BY <2>1, <2>2, <2>3, <2>4 DEF TypeOK
<1>2. Queued = {} /\ Unique(queue)
  BY DEF Init, Queued, Elements, Unique
<1> QED
  BY <1>1, <1>2 DEF Init, IInv, OneUpload, Noted, NothingForgotten, Missing

LEMMA NextIInv == IInv /\ [Next]_vars => IInv'
<1> SUFFICES ASSUME IInv, [Next]_vars
             PROVE  IInv'
  OBVIOUS
<1> USE DEF IInv
<1>0. /\ queue \in Seq(Item) /\ Queued \subseteq Item
      /\ TypeOK
  BY ElementsAreItems DEF TypeOK, Queued
<1>1. ASSUME NEW files \in Selections, InputChange(files)
      PROVE  IInv'
  <2>1. files \in Seq(Name) /\ files # <<>>
    BY DEF Selections
  <2>2. TypeOK'
    BY <1>1, <2>1 DEF TypeOK, InputChange, uploads, folders
  <2> QED
    BY <1>1, <2>1, <2>2 DEF InputChange, uploads, folders, OneUpload, Noted,
       NothingForgotten, Between, Queued, Missing
<1>2. CASE PassOver
  <2>1. picked' \in Seq(Name) /\ (Tail(picked) = <<>> <=> picked' = <<>>)
    BY <1>2 DEF PassOver, Between, TypeOK
  <2>2. CASE Autostarts /\ ~running
    <3>1. StartNext(queue, tree)
      BY <1>2, <2>2 DEF PassOver
    <3>2. TypeOK'
      BY <1>2, <2>1, <3>1, <1>0, Started DEF TypeOK, PassOver, folders
    <3>3. OneUpload'
      BY <1>2, <3>1, <1>0, Started DEF OneUpload, PassOver, Queued
    <3>4. Noted' /\ Unique(queue')
      BY <1>2 DEF PassOver, Noted, Queued, folders
    <3>5. NothingForgotten'
      BY <1>2, <3>1, <1>0, Started DEF NothingForgotten, PassOver, Queued, Noted
    <3> QED
      BY <3>2, <3>3, <3>4, <3>5
  <2>3. CASE ~(Autostarts /\ ~running)
    <3>1. UNCHANGED <<activeItem, running, disabled>>
      BY <1>2, <2>3 DEF PassOver
    <3>2. TypeOK'
      BY <1>2, <2>1, <3>1 DEF TypeOK, PassOver, folders
    <3>3. OneUpload' /\ Noted' /\ Unique(queue')
      BY <1>2, <3>1 DEF OneUpload, PassOver, Queued, Noted, folders
    <3>4. NothingForgotten'
      BY <1>2, <2>3, <3>1 DEF NothingForgotten, PassOver, Between, Autostarts,
         LastPicked, folders
    <3> QED
      BY <3>2, <3>3, <3>4
  <2> QED
    BY <2>2, <2>3
<1>3. CASE AddItem
  <2> DEFINE rest == Without(queue, PickedItem)
  <2>1. PickedItem \in Item /\ picked' \in Seq(Name)
    BY <1>3 DEF AddItem, Between, TypeOK, PickedItem, Item
  <2>2. /\ rest \in Seq(Item) /\ Unique(rest)
        /\ Elements(rest) = Queued \ {PickedItem}
    BY <1>0, WithoutFacts DEF Queued
  <2>3. /\ queue' \in Seq(Item) /\ Unique(queue')
        /\ Queued' = Queued \cup {PickedItem}
    <3>1. queue' = Add(rest, PickedItem)
      BY <1>3 DEF AddItem
    <3> HIDE DEF rest
    <3> QED
      BY <2>1, <2>2, <3>1, AddFacts DEF Queued
  <2>4. missed' = (missed \ {PickedItem}) \cup Missing({PickedItem}, tree)
    BY <1>3 DEF AddItem
  <2>5. missed' \in SUBSET Item
    BY <1>0, <2>1, <2>4 DEF TypeOK, Missing
  <2>6. Noted'
    <3>1. tree' = tree
      BY <1>3 DEF AddItem, folders
    <3> QED
      BY <2>3, <2>4, <3>1 DEF Noted, Missing
  <2>7. CASE Autostarts /\ ~running
    <3>1. StartNext(queue', tree)
      BY <1>3, <2>7 DEF AddItem
    <3>2. TypeOK'
      BY <1>3, <2>1, <2>3, <2>5, <3>1, Started DEF TypeOK, AddItem, folders
    <3>3. OneUpload'
      BY <2>3, <3>1, Started DEF OneUpload, Queued
    <3>4. NothingForgotten'
      BY <1>3, <2>3, <2>6, <3>1, Started
      DEF NothingForgotten, Noted, AddItem, Queued, folders
    <3> QED
      BY <2>3, <2>6, <3>2, <3>3, <3>4
  <2>8. CASE ~(Autostarts /\ ~running)
    <3>1. UNCHANGED <<activeItem, running, disabled>>
      BY <1>3, <2>8 DEF AddItem
    <3>2. TypeOK'
      BY <1>3, <2>1, <2>3, <2>5, <3>1 DEF TypeOK, AddItem, folders
    <3>3. OneUpload'
      BY <2>3, <3>1 DEF OneUpload
    <3>4. NothingForgotten'
      BY <1>3, <2>8, <3>1 DEF NothingForgotten, AddItem, Between, Autostarts,
         LastPicked, folders
    <3> QED
      BY <2>3, <2>6, <3>2, <3>3, <3>4
  <2> QED
    BY <2>7, <2>8
<1>4. CASE AddActive
  <2> DEFINE rest == Without(queue, activeItem)
             goesOn == \E i \in DOMAIN rest : IsNext(rest, i, tree)
             q == IF ~goesOn /\ Autostarts THEN queue' ELSE rest
  <2>1. /\ PickedItem \in Item /\ picked' \in Seq(Name)
        /\ PickedItem = activeItem
    BY <1>4 DEF AddActive, Between, TypeOK, PickedItem, Item
  <2>2. /\ rest \in Seq(Item) /\ Unique(rest)
        /\ Elements(rest) = Queued \ {PickedItem}
    BY <1>0, <2>1, WithoutFacts DEF Queued
  <2>3. /\ queue' \in Seq(Item) /\ Unique(queue')
        /\ Queued' = Queued \cup {PickedItem}
    <3>1. queue' = Add(rest, PickedItem)
      BY <1>4 DEF AddActive
    <3> HIDE DEF rest
    <3> QED
      BY <2>1, <2>2, <3>1, AddFacts DEF Queued
  <2>4. /\ missed' = (missed \ {PickedItem}) \cup Missing({PickedItem}, tree)
        /\ tree' = tree
    BY <1>4 DEF AddActive, folders
  <2>5. missed' \in SUBSET Item
    BY <1>0, <2>1, <2>4 DEF TypeOK, Missing
  <2>6. Noted'
    BY <2>3, <2>4 DEF Noted, Missing
  <2>7. StartNext(q, tree)
    BY <1>4 DEF AddActive, Complete
  <2>8. q \in Seq(Item) /\ Elements(q) \subseteq Queued'
    BY <2>2, <2>3 DEF Queued
  <2>9. TypeOK'
    <3> HIDE DEF q
    <3> QED
      BY <1>4, <2>1, <2>3, <2>5, <2>7, <2>8, Started
      DEF TypeOK, AddActive, folders
  <2>10. OneUpload'
    <3> HIDE DEF q
    <3> QED
      BY <2>7, <2>8, Started DEF OneUpload
  <2>11. NothingForgotten'
    <3> SUFFICES ASSUME Autostarts, ~running'
                 PROVE  Queued' \subseteq missed'
      BY <1>4 DEF NothingForgotten, AddActive, Between, Autostarts, LastPicked,
         folders
    <3>1. CASE goesOn
      <4>1. StartNext(rest, tree)
        BY <2>7, <3>1
      <4> HIDE DEF rest
      <4> QED
        BY <3>1, <4>1 DEF StartNext
    <3>2. CASE ~goesOn
      <4>1. StartNext(queue', tree)
        BY <2>7, <3>2
      <4> HIDE DEF goesOn, q
      <4> QED
        BY <2>3, <2>4, <2>6, <4>1, Started DEF Noted, Queued
    <3> QED
      BY <3>1, <3>2
  <2> QED
    BY <2>3, <2>6, <2>9, <2>10, <2>11
<1>5. CASE Start
  <2>1. StartNext(queue, tree)
    BY <1>5 DEF Start
  <2>2. TypeOK'
    BY <1>5, <1>0, <2>1, Started DEF TypeOK, Start, picking, folders
  <2>3. OneUpload'
    BY <1>5, <1>0, <2>1, Started DEF OneUpload, Start, Queued
  <2>4. Noted' /\ Unique(queue')
    BY <1>5 DEF Start, Noted, Queued, folders
  <2>5. NothingForgotten'
    BY <1>5, <1>0, <2>1, Started DEF NothingForgotten, Start, Queued, Noted
  <2> QED
    BY <2>2, <2>3, <2>4, <2>5
<1>6. ASSUME NEW x \in Item, Cancel(x)
      PROVE  IInv'
  <2>1. /\ queue' \in Seq(Item) /\ Unique(queue')
        /\ Queued' = Queued \ {x}
    BY <1>0, <1>6, WithoutFacts DEF Cancel, Queued
  <2>2. /\ missed' = (missed \cap Queued') \cup Missing(Queued', tree)
        /\ tree' = tree
    BY <1>6 DEF Cancel, Track, folders, Queued
  <2>3. Noted' /\ missed' \in SUBSET Item
    BY <1>0, <2>1, <2>2 DEF Noted, TypeOK, Missing
  <2>4. CASE x = activeItem
    <3>1. StartNext(queue', tree)
      BY <1>6, <2>4 DEF Cancel, Complete
    <3>2. TypeOK'
      BY <1>6, <2>1, <2>3, <3>1, Started DEF TypeOK, Cancel, picking, folders
    <3>3. OneUpload'
      BY <2>1, <3>1, Started DEF OneUpload, Queued
    <3>4. NothingForgotten'
      BY <2>1, <2>2, <3>1, Started DEF NothingForgotten, Queued
    <3> QED
      BY <2>1, <2>3, <3>2, <3>3, <3>4
  <2>5. CASE x # activeItem
    <3>1. UNCHANGED <<activeItem, running, disabled>>
      BY <1>6, <2>5 DEF Cancel
    <3>2. TypeOK'
      BY <1>6, <2>1, <2>3, <3>1 DEF TypeOK, Cancel, picking, folders
    <3>3. OneUpload'
      BY <2>1, <2>5, <3>1 DEF OneUpload
    <3>4. NothingForgotten'
      BY <1>6, <2>1, <2>2, <3>1 DEF NothingForgotten, Cancel, Between, folders
    <3> QED
      BY <2>1, <2>3, <3>2, <3>3, <3>4
  <2> QED
    BY <2>4, <2>5
<1>7. ASSUME NEW status \in BOOLEAN, Respond(status)
      PROVE  IInv'
  <2>1. /\ queue' \in Seq(Item) /\ Unique(queue')
        /\ Queued' = Queued \ {activeItem}
    BY <1>0, <1>7, WithoutFacts DEF Respond, Queued
  <2>2. missed' = (missed \cap Queued') \cup Missing(Queued', tree')
    BY <1>7 DEF Respond, Track, Queued
  <2>3. Noted' /\ missed' \in SUBSET Item
    BY <1>0, <2>1, <2>2 DEF Noted, TypeOK, Missing
  <2>4. tree' \in SUBSET Folder /\ tree \subseteq tree'
    BY <1>7 DEF Respond, TypeOK, Item
  <2>5. StartNext(queue', tree')
    BY <1>7 DEF Respond, Complete
  <2>6. TypeOK'
    BY <1>7, <2>1, <2>3, <2>4, <2>5, Started DEF TypeOK, Respond, picking
  <2>7. OneUpload'
    BY <2>1, <2>5, Started DEF OneUpload, Queued
  <2>8. NothingForgotten'
    BY <2>1, <2>2, <2>5, Started DEF NothingForgotten, Queued
  <2> QED
    BY <2>1, <2>3, <2>6, <2>7, <2>8
<1>8. ASSUME NEW f \in Folder, FolderGone(f)
      PROVE  IInv'
  <2>1. /\ UNCHANGED <<queue, activeItem, running, disabled, picking, autoStart>>
        /\ missed' = (missed \cap Queued') \cup Missing(Queued', tree')
        /\ Queued' = Queued
    BY <1>8 DEF FolderGone, Track, Queued
  <2>2. /\ tree' \in SUBSET Folder /\ Root \in tree'
        /\ activeFolder' \in tree'
    BY <1>8 DEF FolderGone, TypeOK
  <2>3. missed' \in SUBSET Item
    BY <1>0, <2>1 DEF TypeOK, Missing
  <2>4. TypeOK'
    BY <2>1, <2>2, <2>3 DEF TypeOK, picking
  <2>5. OneUpload' /\ Noted' /\ Unique(queue')
    BY <2>1 DEF OneUpload, Noted
  <2>6. NothingForgotten'
    BY <2>1 DEF NothingForgotten, Between, picking
  <2> QED
    BY <2>4, <2>5, <2>6
<1>9. ASSUME NEW f \in Folder, FolderAdded(f)
      PROVE  IInv'
  <2>1. TypeOK'
    BY <1>9 DEF FolderAdded, TypeOK, uploads, picking
  <2>2. Queued' = Queued /\ tree \subseteq tree'
    BY <1>9 DEF FolderAdded, uploads, Queued
  <2>3. OneUpload' /\ Unique(queue') /\ NothingForgotten'
    BY <1>9, <2>2 DEF FolderAdded, uploads, picking, OneUpload, NothingForgotten,
       Between
  <2>4. Noted'
    BY <1>9, <2>2 DEF FolderAdded, uploads, Noted, Missing
  <2> QED
    BY <2>1, <2>3, <2>4
<1>10. ASSUME NEW f \in Folder, Activate(f)
       PROVE  IInv'
  BY <1>10 DEF Activate, TypeOK, uploads, picking, OneUpload, Noted,
     NothingForgotten, Between, Queued
<1>11. CASE UNCHANGED vars
  BY <1>11 DEF vars, TypeOK, OneUpload, Noted, NothingForgotten, Between, Queued
<1> QED
  BY <1>1, <1>2, <1>3, <1>4, <1>5, <1>6, <1>7, <1>8, <1>9, <1>10, <1>11 DEF Next

LEMMA InvariantHolds == Spec => []IInv
BY InitIInv, NextIInv, PTL DEF Spec

(***************************************************************************)
(* The queue holds items, each of them once, the missed ones among them    *)
(* are items, and the active folder is in the tree.                        *)
(***************************************************************************)
THEOREM TypeCorrect == Spec => []TypeOK
BY InvariantHolds, PTL DEF IInv

(***************************************************************************)
(* The queue runs exactly while a request of one of its items is under way *)
(* (imce.UploadQueue.js:57-97, 304-325).                                   *)
(***************************************************************************)
THEOREM OneUploadAtATime == Spec => []OneUpload
BY InvariantHolds, PTL DEF IInv

(***************************************************************************)
(* With automatic start, what is left in a queue that stands still has     *)
(* missed its folder (imce.UploadQueue.js:338).                            *)
(***************************************************************************)
THEOREM NobodyForgotten == Spec => []NothingForgotten
BY InvariantHolds, PTL DEF IInv

-----------------------------------------------------------------------------
(* The order of the uploads. *)

\* An item that starts is preceded by items without folder only.
LEMMA StartsInOrder ==
  ASSUME NEW q \in Seq(Item), NEW r \in Seq(Item), NEW t, StartNext(q, t),
         DOMAIN q \subseteq DOMAIN r, Unique(r),
         \A i \in DOMAIN q : r[i] = q[i],
         activeItem' # None
  PROVE  \A i, j \in DOMAIN r :
           r[i] = activeItem' /\ j < i => r[j].destination \notin t
<1>1. PICK k \in DOMAIN q : /\ activeItem' = q[k]
                            /\ \A j \in 1 .. k - 1 : q[j].destination \notin t
  BY FirstStarted
<1> SUFFICES ASSUME NEW i \in DOMAIN r, NEW j \in DOMAIN r,
                    r[i] = activeItem', j < i
             PROVE  r[j].destination \notin t
  OBVIOUS
<1>2. i = k
  BY <1>1 DEF Unique
<1>3. j \in 1 .. k - 1 /\ j \in DOMAIN q
  BY <1>1, <1>2
<1> QED
  BY <1>1, <1>3

(***************************************************************************)
(* No upload begins while one that stands before it could                  *)
(* (imce.UploadQueue.js:71-97).                                            *)
(***************************************************************************)
THEOREM UploadsInOrder == Spec => InOrder
<1> DEFINE Order ==
      activeItem' \notin {None, activeItem} =>
        \A i, j \in DOMAIN queue' :
          queue'[i] = activeItem' /\ j < i => queue'[j].destination \notin tree'
<1>1. IInv /\ IInv' /\ [Next]_vars => [Order]_vars
  <2> SUFFICES ASSUME IInv, IInv', Next, activeItem' \notin {None, activeItem}
               PROVE  Order
    BY DEF vars
  <2>0. queue' \in Seq(Item) /\ Unique(queue') /\ queue \in Seq(Item)
    BY DEF IInv, TypeOK
  <2>1. ASSUME StartNext(queue', tree')
        PROVE  Order
    BY <2>0, <2>1, StartsInOrder
  <2>2. CASE PassOver
    BY <2>1, <2>2 DEF PassOver, folders
  <2>3. CASE AddItem
    BY <2>1, <2>3 DEF AddItem, folders
  <2>4. CASE AddActive
    <3> DEFINE rest == Without(queue, activeItem)
    <3>1. rest \in Seq(Item) /\ Unique(rest) /\ PickedItem \notin Elements(rest)
      BY <2>0, <2>4, WithoutFacts DEF IInv, AddActive
    <3>2. PickedItem \in Item
      BY <2>4 DEF IInv, AddActive, Between, TypeOK, PickedItem, Item
    <3>3. queue' = Add(rest, PickedItem) /\ tree' = tree
      BY <2>4 DEF AddActive, folders
    <3>4. CASE StartNext(queue', tree)
      BY <2>1, <3>3, <3>4
    <3>5. CASE StartNext(rest, tree)
      <4> HIDE DEF rest
      <4>1. /\ DOMAIN rest \subseteq DOMAIN queue'
            /\ \A i \in DOMAIN rest : queue'[i] = rest[i]
        BY <3>1, <3>2, <3>3, AddFacts
      <4> QED
        BY <2>0, <3>1, <3>3, <3>5, <4>1, StartsInOrder
    <3> QED
      BY <2>4, <3>4, <3>5 DEF AddActive, Complete
  <2>5. CASE Start
    BY <2>1, <2>5 DEF Start, folders
  <2>6. ASSUME NEW x \in Item, Cancel(x)
        PROVE  Order
    BY <2>1, <2>6 DEF Cancel, Complete, folders
  <2>7. ASSUME NEW status \in BOOLEAN, Respond(status)
        PROVE  Order
    BY <2>1, <2>7 DEF Respond, Complete
  <2>8. CASE \/ \E files \in Selections : InputChange(files)
             \/ \E f \in Folder : FolderGone(f) \/ FolderAdded(f) \/ Activate(f)
    BY <2>8 DEF InputChange, FolderGone, FolderAdded, Activate, uploads
  <2> QED
    BY <2>2, <2>3, <2>4, <2>5, <2>6, <2>7, <2>8 DEF Next
<1> QED
  BY <1>1, InvariantHolds, PTL DEF Spec, InOrder

=============================================================================
