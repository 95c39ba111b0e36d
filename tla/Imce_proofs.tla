----------------------------- MODULE Imce_proofs -----------------------------
(***************************************************************************)
(* Proofs about Imce.tla, for any tree of folders, any files and names, any*)
(* number of requests and any changes by others.                           *)
(***************************************************************************)
EXTENDS Imce, FiniteSetTheorems, SequenceTheorems, WellFoundedInduction, TLAPS

(***************************************************************************)
(* The folders of a browser in the state s.  They hold between the calls   *)
(* of a handler, too.                                                      *)
(***************************************************************************)
Parent(s, f) == s.folders[f].parent
Item(s, p, n) == s.folders[p].items[n]

Typed(s) ==
  /\ DOMAIN s = {"folders", "tree", "active", "selected"}
  /\ DOMAIN s.folders \subseteq Id /\ IsFiniteSet(DOMAIN s.folders)
  /\ \A f \in DOMAIN s.folders : FolderOK(s.folders[f], DOMAIN s.folders)
  /\ DOMAIN s.tree \subseteq Path
  /\ \A b \in DOMAIN s.tree : s.tree[b] \in DOMAIN s.folders

\* A folder among the items of another is there under its name, and knows that
\* it is; one that has a parent is among its items.
Families(s) ==
  /\ \A p \in DOMAIN s.folders : \A n \in Listed(s, p) :
       Item(s, p, n) # None =>
         Parent(s, Item(s, p, n)) = p /\ Item(s, p, n).at = Append(p.at, n)
  /\ \A f \in DOMAIN s.folders :
       Parent(s, f) # None => \E n \in Listed(s, Parent(s, f)) : Item(s, Parent(s, f), n) = f

\* The tree has folders under their own paths, and the root; no other folder
\* without a parent has a path.
Paths(s) ==
  /\ \A b \in DOMAIN s.tree : s.folders[s.tree[b]].path = b
  /\ <<>> \in DOMAIN s.tree /\ s.tree[<<>>] = Root
  /\ \A f \in DOMAIN s.folders \ {Root} :
       /\ s.folders[f].path # <<>>
       /\ s.folders[f].parent = None => s.folders[f].path = None

Struct(s) == Typed(s) /\ Families(s) /\ Paths(s)

\* ExpandedHasSubfolders, but for the folders F.
ExpandedBut(s, F) ==
  \A f \in DOMAIN s.folders \ F : s.folders[f].expanded => Sub(s, f) # {}

\* SelectionIsActive, and what is active is a folder.
Focus(s) ==
  /\ s.active \in DOMAIN s.folders \cup {None}
  /\ s.selected \subseteq [of : Id, name : Name]
  /\ \A i \in s.selected : i.of = s.active /\ i.name \in Listed(s, s.active)

Good(s) == Struct(s) /\ ExpandedBut(s, {}) /\ Focus(s)

\* BusyIsPending, of the state s of a browser and requests rs.
Pending(s, rs) ==
  \A f \in DOMAIN s.folders :
    /\ s.folders[f].busy => \E k \in Slot : rs[k] # None /\ rs[k].folder = f
    /\ s.folders[f].loading =>
         \E k \in Slot : rs[k] # None /\ rs[k].folder = f /\ rs[k].op = "browse"

\* What an event leaves.
Valid(s, rs) ==
  /\ Good(s) /\ s.active # None
  /\ rs \in [Slot -> Request \cup {None}]
  /\ \A k \in Slot : rs[k] # None => rs[k].folder \in DOMAIN s.folders
  /\ Pending(s, rs)

\* A request that tells of new items is about a folder that the server has.
Answered(rs) ==
  \A k \in Slot : rs[k] # None /\ rs[k].answer # None =>
    rs[k].answer.added = {} \/ rs[k].path \in Seq(Name)

IInv ==
  /\ Valid(ui, requests) /\ Answered(requests)
  /\ server \subseteq Seq(Name) \ {<<>>}
  /\ sent \in 0 .. MaxSent /\ foreign \in 0 .. MaxForeign /\ disturbed \in BOOLEAN

-----------------------------------------------------------------------------
(* Sequences. *)

LEMMA AppendFacts ==
  ASSUME NEW S, NEW p \in Seq(S), NEW n \in S
  PROVE  /\ Append(p, n) \in Seq(S) \ {<<>>}
         /\ Front(Append(p, n)) = p /\ Last(Append(p, n)) = n
         /\ Len(Append(p, n)) = Len(p) + 1
         /\ \A q \in Seq(S), m \in S : Append(p, n) = Append(q, m) => p = q /\ n = m
<1>1. Front(Append(p, n)) = p
  BY DEF Front
<1>2. \A q \in Seq(S), m \in S :
        Front(Append(q, m)) = q /\ Last(Append(q, m)) = m
  BY DEF Front, Last
<1> QED
  BY <1>1, <1>2

LEMMA FrontFacts ==
  ASSUME NEW S, NEW p \in Seq(S), p # <<>>
  PROVE  /\ Front(p) \in Seq(S) /\ Last(p) \in S
         /\ p = Append(Front(p), Last(p))
         /\ Len(Front(p)) = Len(p) - 1
<1>1. Len(p) \in Nat \ {0}
  OBVIOUS
<1>2. /\ Front(p) \in Seq(S) /\ Len(Front(p)) = Len(p) - 1
      /\ \A i \in 1 .. Len(p) - 1 : Front(p)[i] = p[i]
  <2>1. Front(p) = [i \in 1 .. Len(p) - 1 |-> p[i]]
    BY <1>1 DEF Front, SubSeq
  <2>2. \A i \in 1 .. Len(p) - 1 : p[i] \in S
    BY <1>1
  <2>3. Len(p) - 1 \in Nat
    BY <1>1
  <2> QED
    BY <2>1, <2>2, <2>3
<1>3. Last(p) \in S /\ Last(p) = p[Len(p)]
  BY <1>1 DEF Last
<1> DEFINE q == Append(Front(p), Last(p))
<1>4. q \in Seq(S) /\ Len(q) = Len(p)
  BY <1>1, <1>2, <1>3
<1>5. \A i \in 1 .. Len(p) : q[i] = p[i]
  BY <1>1, <1>2, <1>3
<1>6. p = q
  <2> HIDE DEF q
  <2> QED
    BY <1>4, <1>5
<1> QED
  BY <1>2, <1>3, <1>6

LEMMA PrefixTransitive ==
  ASSUME NEW S, NEW p \in Seq(S), NEW q \in Seq(S), NEW r \in Seq(S),
         IsPrefix(p, q), IsPrefix(q, r)
  PROVE  IsPrefix(p, r)
<1>1. Len(p) <= Len(q) /\ Len(q) <= Len(r)
  BY DEF IsPrefix
<1>2. \A i \in 1 .. Len(p) : p[i] = q[i]
  BY <1>1 DEF IsPrefix
<1>3. \A i \in 1 .. Len(q) : q[i] = r[i]
  BY <1>1 DEF IsPrefix
<1> QED
  BY <1>1, <1>2, <1>3 DEF IsPrefix

LEMMA PrefixOfAppend ==
  ASSUME NEW S, NEW p \in Seq(S), NEW q \in Seq(S), NEW n \in S
  PROVE  /\ IsPrefix(p, p) /\ IsPrefix(p, Append(p, n))
         /\ IsPrefix(Append(p, n), q) => IsPrefix(p, q) /\ Len(p) < Len(q)
  BY PrefixTransitive DEF IsPrefix

-----------------------------------------------------------------------------
(* What can be reached. *)

LEMMA ReachFacts ==
  ASSUME NEW next, NEW F, F \subseteq DOMAIN next,
         \A g \in DOMAIN next : next[g] \subseteq DOMAIN next
  PROVE  /\ F \subseteq Reach(next, F) /\ Reach(next, F) \subseteq DOMAIN next
         /\ \A g \in Reach(next, F) : next[g] \subseteq Reach(next, F)
         /\ \A C : F \subseteq C /\ (\A g \in C \cap DOMAIN next : next[g] \subseteq C)
              => Reach(next, F) \subseteq C
         /\ \A g \in Reach(next, F) \ F : \E h \in Reach(next, F) : g \in next[h]
<1> DEFINE R == Reach(next, F)
<1>1. F \subseteq R /\ R \subseteq DOMAIN next
  BY DEF Reach
<1>2. ASSUME NEW g \in R, NEW h \in next[g]
      PROVE  h \in R
  <2>1. CASE h \in F
    BY <2>1, <1>1
  <2>2. CASE h \notin F
    <3> SUFFICES ASSUME NEW S \in SUBSET (DOMAIN next \ (F \cup {h})),
                        IsClosed(next, F \cup S)
                 PROVE  FALSE
      BY <1>1, <2>2 DEF Reach
    <3>1. g \notin F \cup S
      BY <2>2 DEF IsClosed
    <3> QED
      BY <3>1 DEF Reach
  <2> QED
    BY <2>1, <2>2
<1>3. ASSUME NEW C, F \subseteq C, \A g \in C \cap DOMAIN next : next[g] \subseteq C
      PROVE  R \subseteq C
  <2> SUFFICES ASSUME NEW g \in R, g \notin C
               PROVE  FALSE
    OBVIOUS
  <2> DEFINE S == (C \cap DOMAIN next) \ F
  <2>1. F \cup S = C \cap DOMAIN next
    BY <1>3
  <2>2. IsClosed(next, F \cup S)
    BY <1>3, <2>1 DEF IsClosed
  <2>3. S \in SUBSET (DOMAIN next \ (F \cup {g}))
    OBVIOUS
  <2>4. g \notin F
    BY <1>3
  <2> HIDE DEF S
  <2> QED
    BY <2>2, <2>3, <2>4 DEF Reach
<1>4. ASSUME NEW g \in R \ F
      PROVE  \E h \in R : g \in next[h]
  <2> DEFINE C == F \cup {i \in R : \E h \in R : i \in next[h]}
  <2>1. \A h \in C \cap DOMAIN next : next[h] \subseteq C
    BY <1>1, <1>2
  <2>2. R \subseteq C
    BY <2>1, <1>3
  <2> QED
    BY <2>2
<1> QED
  BY <1>1, <1>2, <1>3, <1>4

-----------------------------------------------------------------------------
(* The same folders with other marks. *)

Fields == {"folders", "tree", "active", "selected"}

LEMMA WithFacts ==
  ASSUME NEW s, DOMAIN s = Fields, NEW new
  PROVE  /\ DOMAIN With(s, new) = Fields
         /\ With(s, new).tree = s.tree
         /\ With(s, new).active = s.active
         /\ With(s, new).selected = s.selected
         /\ DOMAIN With(s, new).folders = DOMAIN new \cup DOMAIN s.folders
         /\ \A g \in DOMAIN new : With(s, new).folders[g] = new[g]
         /\ \A g \in DOMAIN s.folders \ DOMAIN new :
              With(s, new).folders[g] = s.folders[g]
BY DEF With, Override, Fields

\* A folder with another mark.
LEMMA MarkFacts ==
  ASSUME NEW x, NEW D, FolderOK(x, D), NEW b \in BOOLEAN
  PROVE  /\ LET y == [x EXCEPT !.expanded = b] IN
            /\ FolderOK(y, D) /\ y.expanded = b
            /\ y.parent = x.parent /\ y.path = x.path /\ y.items = x.items
            /\ y.busy = x.busy /\ y.loading = x.loading
         /\ LET y == [x EXCEPT !.loaded = b] IN
            /\ FolderOK(y, D) /\ y.expanded = x.expanded
            /\ y.parent = x.parent /\ y.path = x.path /\ y.items = x.items
            /\ y.busy = x.busy /\ y.loading = x.loading
         /\ LET y == [x EXCEPT !.busy = b] IN
            /\ FolderOK(y, D) /\ y.expanded = x.expanded
            /\ y.parent = x.parent /\ y.path = x.path /\ y.items = x.items
            /\ y.busy = b /\ y.loading = x.loading
BY DEF FolderOK

\* What folders are called, where they are and what they list.
Alike(s, t) ==
  /\ DOMAIN t = Fields
  /\ t.tree = s.tree
  /\ DOMAIN t.folders = DOMAIN s.folders
  /\ \A f \in DOMAIN s.folders :
       /\ FolderOK(t.folders[f], DOMAIN s.folders)
       /\ t.folders[f].parent = s.folders[f].parent
       /\ t.folders[f].path = s.folders[f].path
       /\ t.folders[f].items = s.folders[f].items

LEMMA AlikeFacts ==
  ASSUME NEW s, NEW t, Struct(s), Alike(s, t)
  PROVE  /\ Struct(t)
         /\ \A f \in DOMAIN s.folders : Sub(t, f) = Sub(s, f) /\ Listed(t, f) = Listed(s, f)
<1>1. Typed(t)
  BY DEF Struct, Typed, Alike, Fields
<1>2. \A f \in DOMAIN s.folders : Sub(t, f) = Sub(s, f) /\ Listed(t, f) = Listed(s, f)
  BY DEF Alike, Sub, Listed
<1>3. \A f \in DOMAIN s.folders : Parent(s, f) \in DOMAIN s.folders \cup {None}
  BY DEF Struct, Typed, FolderOK, Parent
<1>4. \A f \in DOMAIN s.folders : \A n \in Listed(s, f) :
        Item(s, f, n) \in DOMAIN s.folders \cup {None}
  BY DEF Struct, Typed, FolderOK, Listed, Range, Item
<1>5. Families(t)
  <2>1. \A f \in DOMAIN s.folders : Parent(t, f) = Parent(s, f)
    BY DEF Alike, Parent
  <2>2. \A p \in DOMAIN s.folders : \A n : Item(t, p, n) = Item(s, p, n)
    BY DEF Alike, Item
  <2>3. DOMAIN t.folders = DOMAIN s.folders
    BY DEF Alike
  <2> QED
    BY <1>2, <1>3, <1>4, <2>1, <2>2, <2>3 DEF Struct, Families, Parent
<1>6. Paths(t)
  BY DEF Struct, Typed, Paths, Alike
<1> QED
  BY <1>1, <1>2, <1>5, <1>6 DEF Struct

LEMMA AlikeTransitive ==
  ASSUME NEW s, NEW t, NEW u, Alike(s, t), Alike(t, u)
  PROVE  Alike(s, u)
BY DEF Alike

\* Marks that a folder has in t it had in s.
NotBusier(s, t) ==
  \A f \in DOMAIN t.folders :
    /\ t.folders[f].busy => f \in DOMAIN s.folders /\ s.folders[f].busy
    /\ t.folders[f].loading => f \in DOMAIN s.folders /\ s.folders[f].loading

-----------------------------------------------------------------------------
(* Folders above and below each other. *)

LEMMA NoneIsNoFolder ==
  ASSUME NEW s, Struct(s)
  PROVE  /\ None \notin DOMAIN s.folders
         /\ \A f \in DOMAIN s.folders : f.at \in Seq(Name)
BY ConstantsAssumption DEF Struct, Typed, Id

LEMMA ParentFacts ==
  ASSUME NEW s, Struct(s), NEW f \in DOMAIN s.folders, Parent(s, f) # None
  PROVE  /\ Parent(s, f) \in DOMAIN s.folders
         /\ f \in Sub(s, Parent(s, f))
         /\ \E n \in Name : n \in Listed(s, Parent(s, f)) /\ f.at = Append(Parent(s, f).at, n)
<1>1. Parent(s, f) \in DOMAIN s.folders
  BY DEF Struct, Typed, FolderOK, Parent
<1>2. PICK n \in Listed(s, Parent(s, f)) : Item(s, Parent(s, f), n) = f
  BY DEF Struct, Families
<1>3. f # None
  BY NoneIsNoFolder
<1>4. f.at = Append(Parent(s, f).at, n)
  BY <1>1, <1>2, <1>3 DEF Struct, Families
<1>5. n \in Name
  BY <1>1, <1>2 DEF Struct, Typed, FolderOK, Listed
<1>6. f \in Sub(s, Parent(s, f))
  BY <1>2, <1>3 DEF Sub, Item, Listed, Range
<1> QED
  BY <1>1, <1>2, <1>4, <1>5, <1>6

LEMMA ChildFacts ==
  ASSUME NEW s, Struct(s), NEW p \in DOMAIN s.folders, NEW n \in Listed(s, p),
         Item(s, p, n) # None
  PROVE  /\ Item(s, p, n) \in DOMAIN s.folders /\ Item(s, p, n) \in Sub(s, p)
         /\ Parent(s, Item(s, p, n)) = p
         /\ n \in Name /\ Item(s, p, n).at = Append(p.at, n)
BY DEF Struct, Typed, Families, FolderOK, Listed, Range, Item, Sub

LEMMA SubFacts ==
  ASSUME NEW s, Struct(s), NEW p \in DOMAIN s.folders, NEW f \in Sub(s, p)
  PROVE  /\ f \in DOMAIN s.folders /\ Parent(s, f) = p
         /\ \E n \in Listed(s, p) :
              n \in Name /\ Item(s, p, n) = f /\ f.at = Append(p.at, n)
<1>1. PICK n \in Listed(s, p) : Item(s, p, n) = f /\ f # None
  BY DEF Sub, Listed, Range, Item
<1> QED
  BY <1>1, ChildFacts

LEMMA AboveFacts ==
  ASSUME NEW s, Struct(s), NEW f \in DOMAIN s.folders
  PROVE  /\ f \in Above(s, f) /\ Above(s, f) \subseteq DOMAIN s.folders
         /\ \A g \in Above(s, f) : IsPrefix(g.at, f.at)
         /\ \A g \in Above(s, f) \ {f} : Sub(s, g) # {} /\ Len(g.at) < Len(f.at)
<1> DEFINE up == Upward(s, f)
<1>1. /\ DOMAIN up = {h \in DOMAIN s.folders : IsPrefix(h.at, f.at)}
      /\ \A g \in DOMAIN up : up[g] = {Parent(s, g)} \ {None}
  BY DEF Upward, Parent
<1>2. f \in DOMAIN up
  BY <1>1, NoneIsNoFolder, PrefixOfAppend DEF IsPrefix
<1>3. ASSUME NEW g \in DOMAIN up, Parent(s, g) # None
      PROVE  Parent(s, g) \in DOMAIN up /\ Len(Parent(s, g).at) < Len(f.at)
  <2>1. PICK n \in Name : g.at = Append(Parent(s, g).at, n)
    BY <1>1, <1>3, ParentFacts
  <2>2. Parent(s, g) \in DOMAIN s.folders
    BY <1>1, <1>3, ParentFacts
  <2>3. f.at \in Seq(Name) /\ Parent(s, g).at \in Seq(Name)
    BY <2>2, NoneIsNoFolder
  <2>4. IsPrefix(g.at, f.at)
    BY <1>1
  <2>5. IsPrefix(Parent(s, g).at, f.at) /\ Len(Parent(s, g).at) < Len(f.at)
    BY <2>1, <2>3, <2>4, PrefixOfAppend
  <2> QED
    BY <1>1, <2>2, <2>5
<1>4. {f} \subseteq DOMAIN up /\ \A g \in DOMAIN up : up[g] \subseteq DOMAIN up
  BY <1>1, <1>2, <1>3
<1>5. Above(s, f) = Reach(up, {f})
  BY DEF Above
<1> HIDE DEF up
<1>6. /\ {f} \subseteq Above(s, f) /\ Above(s, f) \subseteq DOMAIN up
      /\ \A g \in Above(s, f) \ {f} : \E h \in Above(s, f) : g \in up[h]
  BY <1>4, <1>5, ReachFacts
<1>7. ASSUME NEW g \in Above(s, f) \ {f}
      PROVE  Sub(s, g) # {} /\ Len(g.at) < Len(f.at)
  <2>1. PICK h \in Above(s, f) : g \in up[h]
    BY <1>6
  <2>2. h \in DOMAIN up /\ Parent(s, h) = g /\ g # None
    BY <1>1, <1>6, <2>1
  <2> QED
    BY <1>1, <1>3, <2>2, ParentFacts
<1> QED
  BY <1>1, <1>6, <1>7

LEMMA BeneathFacts ==
  ASSUME NEW s, Struct(s), NEW F \in SUBSET DOMAIN s.folders
  PROVE  /\ F \subseteq Beneath(s, F)
         /\ \A g \in Beneath(s, F) : Sub(s, g) \subseteq Beneath(s, F)
<1>1. \A f \in DOMAIN s.folders : IsPrefix(f.at, f.at)
  BY NoneIsNoFolder DEF IsPrefix
<1>2. ASSUME NEW g \in Beneath(s, F), NEW h \in Sub(s, g)
      PROVE  h \in Beneath(s, F)
  <2>1. g \in DOMAIN s.folders /\ \E f \in F : IsPrefix(f.at, g.at)
    BY DEF Beneath
  <2>2. PICK f \in F : IsPrefix(f.at, g.at)
    BY <2>1
  <2>3. PICK n \in Name : h \in DOMAIN s.folders /\ h.at = Append(g.at, n)
    BY <2>1, SubFacts
  <2>4. f.at \in Seq(Name) /\ g.at \in Seq(Name) /\ h.at \in Seq(Name)
    BY <2>1, <2>3, NoneIsNoFolder
  <2>5. IsPrefix(g.at, h.at)
    BY <2>3, <2>4, PrefixOfAppend
  <2>6. IsPrefix(f.at, h.at)
    BY <2>2, <2>4, <2>5, PrefixTransitive
  <2> QED
    BY <2>3, <2>6 DEF Beneath
<1> QED
  BY <1>1, <1>2 DEF Beneath

-----------------------------------------------------------------------------
(* Operations that change marks, and what is active. *)

SameFocus(s, t) == t.active = s.active /\ t.selected = s.selected

\* As s, but for marks other than "busy" and "loading", and no more expanded than
\* is right if s is so but for the folders F.
Remarked(s, t) ==
  /\ Alike(s, t)
  /\ \A f \in DOMAIN s.folders :
       /\ t.folders[f].busy = s.folders[f].busy
       /\ t.folders[f].loading = s.folders[f].loading
       /\ t.folders[f].expanded => s.folders[f].expanded \/ Sub(s, f) # {}

LEMMA RemarkedFacts ==
  ASSUME NEW s, NEW t, Struct(s), Remarked(s, t)
  PROVE  /\ Struct(t) /\ NotBusier(s, t)
         /\ DOMAIN t.folders = DOMAIN s.folders
         /\ \A F : ExpandedBut(s, F) => ExpandedBut(t, F)
         /\ \A f \in DOMAIN s.folders : Sub(t, f) = Sub(s, f) /\ Listed(t, f) = Listed(s, f)
<1>1. Struct(t) /\ DOMAIN t.folders = DOMAIN s.folders
      /\ \A f \in DOMAIN s.folders : Sub(t, f) = Sub(s, f) /\ Listed(t, f) = Listed(s, f)
  BY AlikeFacts DEF Remarked, Alike
<1> QED
  BY <1>1 DEF Remarked, NotBusier, ExpandedBut

LEMMA RemarkedTransitive ==
  ASSUME NEW s, NEW t, NEW u, Struct(s), Remarked(s, t), Remarked(t, u)
  PROVE  Remarked(s, u)
<1>1. \A f \in DOMAIN s.folders : Sub(t, f) = Sub(s, f)
  BY RemarkedFacts
<1>2. Alike(s, u)
  BY AlikeTransitive DEF Remarked
<1>3. DOMAIN t.folders = DOMAIN s.folders
  BY DEF Remarked, Alike
<1> QED
  BY <1>1, <1>2, <1>3 DEF Remarked

LEMMA WithRemarks ==
  ASSUME NEW s, Struct(s), NEW new, DOMAIN new \subseteq DOMAIN s.folders,
         \A f \in DOMAIN new :
           /\ FolderOK(new[f], DOMAIN s.folders)
           /\ new[f].parent = s.folders[f].parent
           /\ new[f].path = s.folders[f].path
           /\ new[f].items = s.folders[f].items
           /\ new[f].busy = s.folders[f].busy
           /\ new[f].loading = s.folders[f].loading
           /\ new[f].expanded => s.folders[f].expanded \/ Sub(s, f) # {}
  PROVE  Remarked(s, With(s, new)) /\ SameFocus(s, With(s, new))
<1>1. DOMAIN s = Fields
  BY DEF Struct, Typed, Fields
<1> DEFINE t == With(s, new)
<1>2. /\ DOMAIN t = Fields /\ t.tree = s.tree
      /\ t.active = s.active /\ t.selected = s.selected
      /\ DOMAIN t.folders = DOMAIN new \cup DOMAIN s.folders
      /\ \A f \in DOMAIN new : t.folders[f] = new[f]
      /\ \A f \in DOMAIN s.folders \ DOMAIN new : t.folders[f] = s.folders[f]
  <2> HIDE DEF t
  <2> QED
    BY <1>1, WithFacts DEF t
<1>3. \A f \in DOMAIN s.folders : FolderOK(s.folders[f], DOMAIN s.folders)
  BY DEF Struct, Typed
<1> HIDE DEF t
<1>4. Alike(s, t)
  BY <1>2, <1>3 DEF Alike
<1>5. Remarked(s, t) /\ SameFocus(s, t)
  BY <1>2, <1>4 DEF Remarked, SameFocus
<1> QED
  BY <1>5 DEF t

LEMMA SubtreesUpdated ==
  ASSUME NEW s, Struct(s), NEW F \in SUBSET DOMAIN s.folders
  PROVE  /\ Remarked(s, UpdateSubtrees(s, F)) /\ SameFocus(s, UpdateSubtrees(s, F))
         /\ ExpandedBut(s, F) => ExpandedBut(UpdateSubtrees(s, F), {})
<1> DEFINE new == [g \in {h \in F : Sub(s, h) = {}} |->
                     [s.folders[g] EXCEPT !.expanded = FALSE]]
           t == With(s, new)
<1>1. t = UpdateSubtrees(s, F)
  BY DEF UpdateSubtrees
<1>2. DOMAIN new \subseteq F /\ \A f \in DOMAIN new :
           /\ FolderOK(new[f], DOMAIN s.folders)
           /\ new[f].parent = s.folders[f].parent
           /\ new[f].path = s.folders[f].path
           /\ new[f].items = s.folders[f].items
           /\ new[f].busy = s.folders[f].busy
           /\ new[f].loading = s.folders[f].loading
           /\ new[f].expanded = FALSE
  BY MarkFacts DEF Struct, Typed
<1>3. \A f \in F \ DOMAIN new : Sub(s, f) # {}
  OBVIOUS
<1> HIDE DEF new
<1>4. Remarked(s, t) /\ SameFocus(s, t)
  BY <1>2, WithRemarks
<1>5. /\ DOMAIN t.folders = DOMAIN s.folders
      /\ \A f \in DOMAIN new : t.folders[f] = new[f]
  <2>1. DOMAIN s = Fields
    BY DEF Struct, Typed, Fields
  <2> HIDE DEF t
  <2>2. /\ DOMAIN t.folders = DOMAIN new \cup DOMAIN s.folders
        /\ \A f \in DOMAIN new : t.folders[f] = new[f]
    BY <2>1, WithFacts DEF t
  <2> QED
    BY <1>2, <2>2
<1> HIDE DEF t
<1>6. \A f \in DOMAIN s.folders : Sub(t, f) = Sub(s, f)
  BY <1>4, RemarkedFacts
<1>7. ASSUME ExpandedBut(s, F) PROVE ExpandedBut(t, {})
  BY <1>2, <1>3, <1>4, <1>5, <1>6, <1>7 DEF ExpandedBut, Remarked
<1> QED
  BY <1>1, <1>4, <1>7

LEMMA AboveExpanded ==
  ASSUME NEW s, Struct(s), NEW f \in DOMAIN s.folders
  PROVE  Remarked(s, ExpandAbove(s, f)) /\ SameFocus(s, ExpandAbove(s, f))
<1> DEFINE new == [g \in Above(s, f) \ {f} |-> [s.folders[g] EXCEPT !.expanded = TRUE]]
<1>1. With(s, new) = ExpandAbove(s, f)
  BY DEF ExpandAbove
<1>2. DOMAIN new \subseteq DOMAIN s.folders /\ \A g \in DOMAIN new : Sub(s, g) # {}
  BY AboveFacts
<1>3. \A g \in DOMAIN new :
           /\ FolderOK(new[g], DOMAIN s.folders)
           /\ new[g].parent = s.folders[g].parent
           /\ new[g].path = s.folders[g].path
           /\ new[g].items = s.folders[g].items
           /\ new[g].busy = s.folders[g].busy
           /\ new[g].loading = s.folders[g].loading
  BY <1>2, MarkFacts DEF Struct, Typed
<1> HIDE DEF new
<1>4. Remarked(s, With(s, new)) /\ SameFocus(s, With(s, new))
  BY <1>2, <1>3, WithRemarks
<1> QED
  BY <1>1, <1>4

LEMMA FocusKept ==
  ASSUME NEW s, NEW t, Focus(s), SameFocus(s, t),
         DOMAIN s.folders \subseteq DOMAIN t.folders,
         \A f \in DOMAIN s.folders : Listed(s, f) \subseteq Listed(t, f)
  PROVE  Focus(t)
<1>1. s.selected # {} => s.active \in DOMAIN s.folders
  BY ConstantsAssumption DEF Focus
<1> QED
  BY <1>1 DEF Focus, SameFocus

LEMMA GoodRemarked ==
  ASSUME NEW s, NEW t, Good(s), Remarked(s, t), SameFocus(s, t)
  PROVE  Good(t)
<1>1. Struct(t) /\ ExpandedBut(t, {})
  BY RemarkedFacts DEF Good
<1>2. Focus(t)
  BY RemarkedFacts, FocusKept DEF Good
<1> QED
  BY <1>1, <1>2 DEF Good

\* Another selection, or another active folder.
LEMMA Refocused ==
  ASSUME NEW s, Struct(s), NEW t, DOMAIN t = Fields,
         t.folders = s.folders, t.tree = s.tree
  PROVE  Remarked(s, t)
BY DEF Struct, Typed, Alike, Remarked, FolderOK

LEMMA Activated ==
  ASSUME NEW s, Struct(s), NEW f \in DOMAIN s.folders
  PROVE  /\ Remarked(s, Activate(s, f)) /\ Activate(s, f).active = f
         /\ Activate(s, f).selected = IF s.active = f THEN s.selected ELSE {}
         /\ Good(s) => Good(Activate(s, f))
<1>1. CASE s.active = f
  BY <1>1, Refocused DEF Activate, Struct, Typed, Fields
<1>2. CASE s.active # f
  <2> DEFINE r == [s EXCEPT !.selected = {}, !.active = f]
  <2>1. /\ DOMAIN r = Fields /\ r.folders = s.folders /\ r.tree = s.tree
        /\ r.active = f /\ r.selected = {}
    BY DEF Struct, Typed, Fields
  <2>2. Activate(s, f) = ExpandAbove(r, f)
    BY <1>2 DEF Activate
  <2> HIDE DEF r
  <2>3. Remarked(s, r) /\ Struct(r)
    BY <2>1, Refocused, RemarkedFacts
  <2>4. Remarked(r, Activate(s, f)) /\ SameFocus(r, Activate(s, f))
    BY <2>1, <2>2, <2>3, AboveExpanded
  <2>5. Remarked(s, Activate(s, f))
    BY <2>3, <2>4, RemarkedTransitive
  <2>6. Activate(s, f).active = f /\ Activate(s, f).selected = {}
    BY <2>1, <2>4 DEF SameFocus
  <2>7. Good(s) => Good(Activate(s, f))
    BY <2>5, <2>6, RemarkedFacts DEF Good, Focus
  <2> QED
    BY <1>2, <2>5, <2>6, <2>7
<1> QED
  BY <1>1, <1>2

\* One mark of one folder.
LEMMA MarkedFacts ==
  ASSUME NEW s, Struct(s), NEW f \in DOMAIN s.folders, NEW x,
         FolderOK(x, DOMAIN s.folders),
         x.parent = s.folders[f].parent, x.path = s.folders[f].path,
         x.items = s.folders[f].items
  PROVE  LET t == [s EXCEPT !.folders[f] = x] IN
         /\ Alike(s, t) /\ SameFocus(s, t)
         /\ t.folders[f] = x
         /\ \A g \in DOMAIN s.folders \ {f} : t.folders[g] = s.folders[g]
BY DEF Struct, Typed, Alike, SameFocus, Fields

IsBusySet(s, f, b, t) ==
  /\ Alike(s, t) /\ SameFocus(s, t)
  /\ Good(s) => Good(t)
  /\ t.folders[f].busy = b /\ t.folders[f].loading = s.folders[f].loading
  /\ \A g \in DOMAIN s.folders \ {f} : t.folders[g] = s.folders[g]

LEMMA BusySet ==
  ASSUME NEW s, Struct(s), NEW f \in DOMAIN s.folders, NEW b \in BOOLEAN
  PROVE  IsBusySet(s, f, b, SetBusy(s, f, b))
<1> DEFINE x == [s.folders[f] EXCEPT !.busy = b]
           t == [s EXCEPT !.folders[f] = x]
<1>1. t = SetBusy(s, f, b)
  BY DEF SetBusy
<1>2. /\ FolderOK(x, DOMAIN s.folders) /\ x.expanded = s.folders[f].expanded
      /\ x.parent = s.folders[f].parent /\ x.path = s.folders[f].path
      /\ x.items = s.folders[f].items
      /\ x.busy = b /\ x.loading = s.folders[f].loading
  <2>1. FolderOK(s.folders[f], DOMAIN s.folders)
    BY DEF Struct, Typed
  <2> QED
    BY <2>1 DEF FolderOK
<1> HIDE DEF x
<1>3. /\ Alike(s, t) /\ SameFocus(s, t) /\ t.folders[f] = x
      /\ \A g \in DOMAIN s.folders \ {f} : t.folders[g] = s.folders[g]
  BY <1>2, MarkedFacts
<1> HIDE DEF t
<1>4. ASSUME Good(s) PROVE Good(t)
  <2>1. Struct(t) /\ \A g \in DOMAIN s.folders : Sub(t, g) = Sub(s, g) /\ Listed(t, g) = Listed(s, g)
    BY <1>3, AlikeFacts
  <2>2. DOMAIN t.folders = DOMAIN s.folders
    BY <1>3 DEF Alike
  <2>3. ExpandedBut(t, {})
    BY <1>2, <1>3, <1>4, <2>1, <2>2 DEF Good, ExpandedBut
  <2>4. Focus(t)
    BY <1>3, <1>4, <2>1, <2>2, FocusKept DEF Good
  <2> QED
    BY <2>1, <2>3, <2>4 DEF Good
<1> QED
  BY <1>1, <1>2, <1>3, <1>4 DEF IsBusySet

LEMMA ExpandedSet ==
  ASSUME NEW s, Good(s), NEW f \in DOMAIN s.folders, NEW b \in BOOLEAN, b => Sub(s, f) # {}
  PROVE  /\ Remarked(s, SetExpanded(s, f, b)) /\ SameFocus(s, SetExpanded(s, f, b))
         /\ Good(SetExpanded(s, f, b))
<1> DEFINE x == [s.folders[f] EXCEPT !.expanded = b]
           t == [s EXCEPT !.folders[f] = x]
<1>1. t = SetExpanded(s, f, b)
  BY DEF SetExpanded
<1>2. /\ FolderOK(x, DOMAIN s.folders) /\ x.expanded = b
      /\ x.parent = s.folders[f].parent /\ x.path = s.folders[f].path
      /\ x.items = s.folders[f].items
      /\ x.busy = s.folders[f].busy /\ x.loading = s.folders[f].loading
  <2>1. FolderOK(s.folders[f], DOMAIN s.folders)
    BY DEF Good, Struct, Typed
  <2> QED
    BY <2>1 DEF FolderOK
<1> HIDE DEF x
<1>3. /\ Alike(s, t) /\ SameFocus(s, t) /\ t.folders[f] = x
      /\ \A g \in DOMAIN s.folders \ {f} : t.folders[g] = s.folders[g]
  BY <1>2, MarkedFacts DEF Good
<1> HIDE DEF t
<1>4. Remarked(s, t)
  BY <1>2, <1>3 DEF Remarked
<1> QED
  BY <1>1, <1>3, <1>4, GoodRemarked

LEMMA LoadedSet ==
  ASSUME NEW s, Good(s), NEW f \in DOMAIN s.folders
  PROVE  /\ Remarked(s, SetLoaded(s, f)) /\ SameFocus(s, SetLoaded(s, f))
         /\ Good(SetLoaded(s, f))
<1> DEFINE x == [s.folders[f] EXCEPT !.loaded = TRUE]
           t == [s EXCEPT !.folders[f] = x]
<1>1. t = SetLoaded(s, f)
  BY DEF SetLoaded
<1>2. /\ FolderOK(x, DOMAIN s.folders) /\ x.expanded = s.folders[f].expanded
      /\ x.parent = s.folders[f].parent /\ x.path = s.folders[f].path
      /\ x.items = s.folders[f].items
      /\ x.busy = s.folders[f].busy /\ x.loading = s.folders[f].loading
  <2>1. FolderOK(s.folders[f], DOMAIN s.folders)
    BY DEF Good, Struct, Typed
  <2> QED
    BY <2>1, MarkFacts
<1> HIDE DEF x
<1>3. /\ Alike(s, t) /\ SameFocus(s, t) /\ t.folders[f] = x
      /\ \A g \in DOMAIN s.folders \ {f} : t.folders[g] = s.folders[g]
  BY <1>2, MarkedFacts DEF Good
<1> HIDE DEF t
<1>4. Remarked(s, t)
  BY <1>2, <1>3 DEF Remarked
<1> QED
  BY <1>1, <1>3, <1>4, GoodRemarked

-----------------------------------------------------------------------------
(* The removal of items. *)

LEMMA PickFacts ==
  ASSUME NEW s, Struct(s), NEW f \in DOMAIN s.folders, NEW N \in SUBSET Listed(s, f)
  PROVE  /\ Pick(s, f, N) \subseteq Sub(s, f)
         /\ \A n \in N : Item(s, f, n) # None => Item(s, f, n) \in Pick(s, f, N)
         /\ \A g \in Pick(s, f, N) : \E n \in N : Item(s, f, n) = g
BY DEF Pick, Sub, Item, Listed, Range

\* What is below F, when those are folders of f.
LEMMA BelowFacts ==
  ASSUME NEW s, Struct(s), NEW f \in DOMAIN s.folders, NEW F \in SUBSET Sub(s, f)
  PROVE  /\ F \subseteq Below(s, F) /\ Below(s, F) \subseteq DOMAIN s.folders
         /\ \A g \in Below(s, F) : Sub(s, g) \subseteq Below(s, F)
         /\ f \notin Below(s, F) /\ Root \notin Below(s, F)
<1> DEFINE down == [g \in Beneath(s, F) |-> Sub(s, g)]
           C == {h \in DOMAIN s.folders : Len(h.at) > Len(f.at)}
<1>1. F \subseteq DOMAIN s.folders
  BY SubFacts
<1>2. F \subseteq DOMAIN down /\ \A g \in DOMAIN down : down[g] \subseteq DOMAIN down
  BY <1>1, BeneathFacts
<1>3. Below(s, F) = Reach(down, F)
  BY DEF Below
<1>4. DOMAIN down \subseteq DOMAIN s.folders /\ \A g \in DOMAIN down : down[g] = Sub(s, g)
  BY DEF Beneath
<1> HIDE DEF down
<1>5. /\ F \subseteq Below(s, F) /\ Below(s, F) \subseteq DOMAIN down
      /\ \A g \in Below(s, F) : down[g] \subseteq Below(s, F)
  BY <1>2, <1>3, ReachFacts
<1>6. ASSUME NEW g \in DOMAIN s.folders, NEW h \in Sub(s, g)
      PROVE  h \in DOMAIN s.folders /\ Len(h.at) = Len(g.at) + 1
  BY <1>6, SubFacts, NoneIsNoFolder, AppendFacts
<1>7. \A g \in DOMAIN s.folders : Len(g.at) \in Nat
  BY NoneIsNoFolder
<1>8. F \subseteq C /\ \A g \in C \cap DOMAIN down : down[g] \subseteq C
  BY <1>4, <1>6, <1>7
<1>9. Below(s, F) \subseteq C
  <2> HIDE DEF C
  <2> QED
    BY <1>2, <1>3, <1>8, ReachFacts
<1> QED
  BY <1>4, <1>5, <1>7, <1>9 DEF Root

LEMMA RemovedFacts ==
  ASSUME NEW s, Struct(s), NEW f \in DOMAIN s.folders, NEW N \in SUBSET Listed(s, f)
  PROVE  LET R == Removed(s, f, N)
             cuts == Cuts(s, f, N)
         IN
         /\ R \subseteq Below(s, Pick(s, f, N)) /\ R \subseteq DOMAIN s.folders
         /\ f \notin R /\ Root \notin R
         /\ DOMAIN cuts = R \cup {f} /\ cuts[f] = N
         /\ \A g \in R \cup {f} :
              /\ cuts[g] \subseteq Listed(s, g)
              /\ \A n \in cuts[g] : Item(s, g, n) # None => Item(s, g, n) \in R
         /\ \A h \in R : \E g \in R \cup {f} : \E n \in cuts[g] : Item(s, g, n) = h
<1> DEFINE F == Pick(s, f, N)
           R == Removed(s, f, N)
           cuts == Cuts(s, f, N)
           down == [g \in Beneath(s, F) |-> Pick(s, g, EveryOther(s, g))]
<1>1. F \subseteq Sub(s, f) /\ F \subseteq DOMAIN s.folders
  BY PickFacts, SubFacts
<1>2. R = Reach(down, F)
  BY DEF Removed
<1>3. DOMAIN down = Beneath(s, F) /\ DOMAIN down \subseteq DOMAIN s.folders
  BY DEF Beneath
<1>4. \A g \in DOMAIN down : down[g] = Pick(s, g, EveryOther(s, g))
  OBVIOUS
<1>5. \A g \in DOMAIN s.folders :
        EveryOther(s, g) \subseteq Listed(s, g) /\ Pick(s, g, EveryOther(s, g)) \subseteq Sub(s, g)
  BY PickFacts DEF EveryOther
<1> HIDE DEF down
<1>6. F \subseteq DOMAIN down /\ \A g \in DOMAIN down : down[g] \subseteq DOMAIN down
  BY <1>1, <1>3, <1>4, <1>5, BeneathFacts
<1>7. F \subseteq Below(s, F) /\ \A g \in Below(s, F) : Sub(s, g) \subseteq Below(s, F)
  BY <1>1, BelowFacts
<1>8. \A g \in Below(s, F) \cap DOMAIN down : down[g] \subseteq Below(s, F)
  BY <1>3, <1>4, <1>5, <1>7
<1>9. R \subseteq Below(s, F)
  BY <1>2, <1>6, <1>7, <1>8, ReachFacts
<1>10. R \subseteq DOMAIN s.folders /\ f \notin R /\ Root \notin R
  BY <1>1, <1>9, BelowFacts
<1>11. /\ DOMAIN cuts = R \cup {f} /\ cuts[f] = N
       /\ \A g \in R : cuts[g] = EveryOther(s, g)
  BY <1>10 DEF Cuts
<1>12. /\ F \subseteq R /\ R \subseteq DOMAIN down
       /\ \A g \in R : down[g] \subseteq R
       /\ \A g \in R \ F : \E h \in R : g \in down[h]
  BY <1>2, <1>6, ReachFacts
<1> HIDE DEF F, R, cuts
<1>13. ASSUME NEW g \in R \cup {f}
       PROVE  /\ cuts[g] \subseteq Listed(s, g)
              /\ \A n \in cuts[g] : Item(s, g, n) # None => Item(s, g, n) \in R
  <2>1. CASE g = f
    BY <2>1, <1>11, <1>12, PickFacts DEF F
  <2>2. CASE g \in R
    BY <2>2, <1>3, <1>4, <1>5, <1>10, <1>11, <1>12, PickFacts
  <2> QED
    BY <2>1, <2>2
<1>14. ASSUME NEW h \in R
       PROVE  \E g \in R \cup {f} : \E n \in cuts[g] : Item(s, g, n) = h
  <2>1. CASE h \in F
    BY <2>1, <1>11, PickFacts DEF F
  <2>2. CASE h \notin F
    <3>1. PICK g \in R : h \in Pick(s, g, EveryOther(s, g))
      BY <2>2, <1>4, <1>12
    <3> QED
      BY <3>1, <1>5, <1>10, <1>11, PickFacts
  <2> QED
    BY <2>1, <2>2
<1> QED
  BY <1>9, <1>10, <1>11, <1>13, <1>14 DEF F, R, cuts

LEMMA ExceptFacts ==
  ASSUME NEW x, NEW D, FolderOK(x, D), NEW I, NEW P, NEW B
  PROVE  LET y == [x EXCEPT !.items = I, !.parent = P, !.busy = B] IN
         /\ DOMAIN y = DOMAIN x
         /\ y.items = I /\ y.parent = P /\ y.busy = B
         /\ y.path = x.path /\ y.loading = x.loading /\ y.loaded = x.loaded
         /\ y.disabled = x.disabled /\ y.expanded = x.expanded
BY DEF FolderOK

LEMMA CutFacts ==
  ASSUME NEW s, Struct(s), NEW f \in DOMAIN s.folders, NEW cuts,
         NEW R \in SUBSET DOMAIN s.folders, f \notin R, Root \notin R,
         DOMAIN cuts = R \cup {f},
         \A g \in R \cup {f} :
           /\ cuts[g] \subseteq Listed(s, g)
           /\ \A n \in cuts[g] : Item(s, g, n) # None => Item(s, g, n) \in R,
         \A h \in R : \E g \in R \cup {f} : \E n \in cuts[g] : Item(s, g, n) = h,
         \A h \in R : s.folders[h].path = None
  PROVE  LET t == Cut(s, f, cuts) IN
         /\ Struct(t) /\ SameFocus(s, t) /\ NotBusier(s, t)
         /\ DOMAIN t.folders = DOMAIN s.folders
         /\ Parent(t, f) = Parent(s, f)
         /\ \A g \in R \cup {f} : Listed(t, g) = Listed(s, g) \ cuts[g]
         /\ \A g \in DOMAIN s.folders \ (R \cup {f}) : t.folders[g] = s.folders[g]
         /\ \A g \in DOMAIN s.folders :
              /\ t.folders[g].path = s.folders[g].path
              /\ t.folders[g].expanded = s.folders[g].expanded
<1> DEFINE new == [g \in DOMAIN cuts |->
             [s.folders[g] EXCEPT !.items = Restrict(@, DOMAIN @ \ cuts[g]),
                                  !.parent = IF g = f THEN @ ELSE None,
                                  !.busy = IF g = f THEN @ ELSE FALSE]]
           t == With(s, new)
<1>1. t = Cut(s, f, cuts)
  BY DEF Cut
<1>2. \A g \in DOMAIN s.folders : FolderOK(s.folders[g], DOMAIN s.folders)
  BY DEF Struct, Typed
<1>3. DOMAIN new = R \cup {f}
  OBVIOUS
<1>4. \A g \in R \cup {f} :
        /\ DOMAIN new[g] = DOMAIN s.folders[g]
        /\ new[g].path = s.folders[g].path
        /\ new[g].loading = s.folders[g].loading
        /\ new[g].loaded = s.folders[g].loaded
        /\ new[g].disabled = s.folders[g].disabled
        /\ new[g].expanded = s.folders[g].expanded
        /\ new[g].busy \in {FALSE, s.folders[g].busy}
        /\ new[g].parent = IF g = f THEN s.folders[g].parent ELSE None
        /\ DOMAIN new[g].items = DOMAIN s.folders[g].items \ cuts[g]
        /\ \A n \in DOMAIN new[g].items : new[g].items[n] = s.folders[g].items[n]
  <2> SUFFICES ASSUME NEW g \in R \cup {f}
               PROVE  /\ DOMAIN new[g] = DOMAIN s.folders[g]
                      /\ new[g].path = s.folders[g].path
                      /\ new[g].loading = s.folders[g].loading
                      /\ new[g].loaded = s.folders[g].loaded
                      /\ new[g].disabled = s.folders[g].disabled
                      /\ new[g].expanded = s.folders[g].expanded
                      /\ new[g].busy \in {FALSE, s.folders[g].busy}
                      /\ new[g].parent = IF g = f THEN s.folders[g].parent ELSE None
                      /\ DOMAIN new[g].items = DOMAIN s.folders[g].items \ cuts[g]
                      /\ \A n \in DOMAIN new[g].items :
                           new[g].items[n] = s.folders[g].items[n]
    <3> HIDE DEF new
    <3> QED
      OBVIOUS
  <2> DEFINE x == s.folders[g]
             I == Restrict(x.items, DOMAIN x.items \ cuts[g])
             P == IF g = f THEN x.parent ELSE None
             B == IF g = f THEN x.busy ELSE FALSE
             y == [x EXCEPT !.items = I, !.parent = P, !.busy = B]
  <2>1. new[g] = y
    OBVIOUS
  <2>2. FolderOK(x, DOMAIN s.folders)
    BY <1>2
  <2>3. DOMAIN I = DOMAIN x.items \ cuts[g] /\ \A n \in DOMAIN I : I[n] = x.items[n]
    BY DEF Restrict
  <2> HIDE DEF x, I, P, B, new
  <2>4. /\ DOMAIN y = DOMAIN x
        /\ y.items = I /\ y.parent = P /\ y.busy = B
        /\ y.path = x.path /\ y.loading = x.loading /\ y.loaded = x.loaded
        /\ y.disabled = x.disabled /\ y.expanded = x.expanded
    BY <2>2, ExceptFacts
  <2> HIDE DEF y
  <2> QED
    BY <2>1, <2>3, <2>4 DEF x, P, B
<1> HIDE DEF new
<1>5. /\ DOMAIN t = Fields /\ t.tree = s.tree
      /\ t.active = s.active /\ t.selected = s.selected
      /\ DOMAIN t.folders = DOMAIN new \cup DOMAIN s.folders
      /\ \A g \in DOMAIN new : t.folders[g] = new[g]
      /\ \A g \in DOMAIN s.folders \ DOMAIN new : t.folders[g] = s.folders[g]
  <2>1. DOMAIN s = Fields
    BY DEF Struct, Typed, Fields
  <2> HIDE DEF t
  <2> QED
    BY <2>1, WithFacts DEF t
<1>6. DOMAIN t.folders = DOMAIN s.folders
  BY <1>3, <1>5
<1> HIDE DEF t
<1>7. /\ \A g \in R \cup {f} : Listed(t, g) = Listed(s, g) \ cuts[g]
      /\ \A g \in DOMAIN s.folders \ (R \cup {f}) : Listed(t, g) = Listed(s, g)
      /\ \A g \in DOMAIN s.folders : \A n \in Listed(t, g) : Item(t, g, n) = Item(s, g, n)
      /\ \A g \in DOMAIN s.folders : Parent(t, g) = IF g \in R THEN None ELSE Parent(s, g)
      /\ \A g \in DOMAIN s.folders : t.folders[g].path = s.folders[g].path
      /\ \A g \in DOMAIN s.folders : t.folders[g].expanded = s.folders[g].expanded
  <2>1. \A g \in R \cup {f} : t.folders[g] = new[g]
    BY <1>3, <1>5
  <2>2. \A g \in DOMAIN s.folders \ (R \cup {f}) : t.folders[g] = s.folders[g]
    BY <1>3, <1>5
  <2>7. /\ \A g \in R \cup {f} : DOMAIN new[g].items = DOMAIN s.folders[g].items \ cuts[g]
        /\ \A g \in R \cup {f} : \A n \in DOMAIN new[g].items :
             new[g].items[n] = s.folders[g].items[n]
    BY <1>4
  <2>8. \A g \in R \cup {f} :
          new[g].parent = IF g = f THEN s.folders[g].parent ELSE None
    BY <1>4
  <2>3. /\ \A g \in R \cup {f} : Listed(t, g) = Listed(s, g) \ cuts[g]
        /\ \A g \in DOMAIN s.folders \ (R \cup {f}) : Listed(t, g) = Listed(s, g)
    BY <2>1, <2>2, <2>7 DEF Listed
  <2>4. \A g \in DOMAIN s.folders : \A n \in Listed(t, g) : Item(t, g, n) = Item(s, g, n)
    BY <2>1, <2>2, <2>7 DEF Listed, Item
  <2>5. \A g \in DOMAIN s.folders : Parent(t, g) = IF g \in R THEN None ELSE Parent(s, g)
    BY <2>1, <2>2, <2>8 DEF Parent
  <2>6. \A g \in DOMAIN s.folders :
          t.folders[g].path = s.folders[g].path /\ t.folders[g].expanded = s.folders[g].expanded
    BY <1>4, <2>1, <2>2, ZenonT(40)
  <2> QED
    BY <2>3, <2>4, <2>5, <2>6
<1>8. Typed(t)
  <2>1. \A g \in R \cup {f} : FolderOK(new[g], DOMAIN s.folders)
    <3> SUFFICES ASSUME NEW g \in R \cup {f}
                 PROVE  FolderOK(new[g], DOMAIN s.folders)
      OBVIOUS
    <3>1. FolderOK(s.folders[g], DOMAIN s.folders)
      BY <1>2
    <3>2. Range(new[g].items) \subseteq Range(s.folders[g].items)
      <4>1. /\ DOMAIN new[g].items \subseteq DOMAIN s.folders[g].items
            /\ \A n \in DOMAIN new[g].items : new[g].items[n] = s.folders[g].items[n]
        BY <1>4, ZenonT(40)
      <4> QED
        BY <4>1 DEF Range
    <3>3. new[g].parent \in DOMAIN s.folders \cup {None} /\ new[g].busy \in BOOLEAN
      BY <1>4, <3>1 DEF FolderOK
    <3> QED
      BY <1>4, <3>1, <3>2, <3>3 DEF FolderOK
  <2>2. \A g \in DOMAIN s.folders : FolderOK(t.folders[g], DOMAIN s.folders)
    BY <1>2, <1>3, <1>5, <2>1
  <2> QED
    BY <1>5, <1>6, <2>2 DEF Struct, Typed, Fields
<1>9. Families(t)
  <2>1. ASSUME NEW p \in DOMAIN s.folders, NEW n \in Listed(t, p), Item(t, p, n) # None
        PROVE  Parent(t, Item(t, p, n)) = p /\ Item(t, p, n).at = Append(p.at, n)
    <3>1. n \in Listed(s, p) /\ Item(t, p, n) = Item(s, p, n)
      BY <1>7
    <3>2. /\ Item(s, p, n) \in DOMAIN s.folders /\ Parent(s, Item(s, p, n)) = p
          /\ n \in Name /\ Item(s, p, n).at = Append(p.at, n)
      BY <2>1, <3>1, ChildFacts
    <3>3. ASSUME Item(s, p, n) \in R
          PROVE  FALSE
      <4>1. PICK g \in R \cup {f} : \E m \in cuts[g] : Item(s, g, m) = Item(s, p, n)
        BY <3>3
      <4>2. PICK m \in cuts[g] : Item(s, g, m) = Item(s, p, n)
        BY <4>1
      <4>3. m \in Listed(s, g) /\ g \in DOMAIN s.folders
        OBVIOUS
      <4>4. g = p /\ m \in Name /\ Item(s, p, n).at = Append(p.at, m)
        BY <2>1, <3>1, <3>2, <4>2, <4>3, ChildFacts
      <4>5. m = n
        <5>1. p.at \in Seq(Name)
          BY NoneIsNoFolder
        <5>2. Append(p.at, n) = Append(p.at, m)
          BY <3>2, <4>4
        <5>3. n \in Name /\ m \in Name
          BY <3>2, <4>4
        <5> QED
          BY <5>1, <5>2, <5>3, AppendFacts
      <4> QED
        BY <1>7, <4>4, <4>5
    <3> QED
      BY <1>7, <3>1, <3>2, <3>3
  <2>2. ASSUME NEW h \in DOMAIN s.folders, Parent(t, h) # None
        PROVE  \E n \in Listed(t, Parent(t, h)) : Item(t, Parent(t, h), n) = h
    <3>1. h \notin R /\ Parent(t, h) = Parent(s, h)
      BY <1>7, <2>2
    <3>2. Parent(s, h) \in DOMAIN s.folders
      BY <2>2, <3>1, ParentFacts
    <3>3. PICK n \in Listed(s, Parent(s, h)) : Item(s, Parent(s, h), n) = h
      BY <2>2, <3>1 DEF Struct, Families
    <3>4. h # None
      BY NoneIsNoFolder
    <3>5. n \in Listed(t, Parent(s, h))
      BY <1>7, <3>1, <3>2, <3>3, <3>4
    <3> QED
      BY <1>7, <3>1, <3>2, <3>3, <3>5
  <2> QED
    BY <1>6, <2>1, <2>2 DEF Families
<1>10. Paths(t)
  <2>1. \A b \in DOMAIN s.tree : s.tree[b] \in DOMAIN s.folders
    BY DEF Struct, Typed
  <2> QED
    BY <1>5, <1>6, <1>7, <2>1 DEF Struct, Paths, Parent
<1>11. NotBusier(s, t)
  <2>1. ASSUME NEW g \in DOMAIN s.folders
        PROVE  /\ t.folders[g].busy => s.folders[g].busy
               /\ t.folders[g].loading => s.folders[g].loading
    <3>1. CASE g \in R \cup {f}
      <4>1. /\ t.folders[g].busy \in {FALSE, s.folders[g].busy}
            /\ t.folders[g].loading = s.folders[g].loading
        BY <1>3, <1>4, <1>5, <3>1, ZenonT(40)
      <4> QED
        BY <4>1
    <3>2. CASE g \notin R \cup {f}
      BY <1>3, <1>5, <3>2
    <3> QED
      BY <3>1, <3>2
  <2> QED
    BY <1>6, <2>1 DEF NotBusier
<1> QED
  BY <1>1, <1>3, <1>5, <1>6, <1>7, <1>8, <1>9, <1>10, <1>11 DEF Struct, SameFocus

LEMMA PathForgotten ==
  ASSUME NEW s, Struct(s), NEW f \in DOMAIN s.folders, NEW F \in SUBSET Sub(s, f)
  PROVE  LET t == ForgetPaths(s, F) IN
         /\ Struct(t) /\ SameFocus(s, t)
         /\ DOMAIN t.folders = DOMAIN s.folders
         /\ \A g \in DOMAIN s.folders :
              /\ t.folders[g].items = s.folders[g].items
              /\ t.folders[g].parent = s.folders[g].parent
              /\ t.folders[g].busy = s.folders[g].busy
              /\ t.folders[g].loading = s.folders[g].loading
              /\ t.folders[g].expanded = s.folders[g].expanded
              /\ t.folders[g].path = IF g \in Below(s, F) THEN None ELSE s.folders[g].path
<1> DEFINE B == Below(s, F)
           gone == {s.folders[g].path : g \in B}
           r == [s EXCEPT !.tree = Restrict(@, DOMAIN @ \ gone)]
           new == [g \in B |-> [s.folders[g] EXCEPT !.path = None]]
           t == With(r, new)
<1>1. t = ForgetPaths(s, F)
  BY DEF ForgetPaths, ForgetPath
<1>2. /\ DOMAIN r = Fields /\ r.folders = s.folders
      /\ r.active = s.active /\ r.selected = s.selected
      /\ DOMAIN r.tree = DOMAIN s.tree \ gone
      /\ \A b \in DOMAIN r.tree : r.tree[b] = s.tree[b]
  BY DEF Struct, Typed, Fields, Restrict
<1>3. \A g \in DOMAIN s.folders : FolderOK(s.folders[g], DOMAIN s.folders)
  BY DEF Struct, Typed
<1>4. /\ B \subseteq DOMAIN s.folders /\ Root \notin B
      /\ DOMAIN new = B
  BY BelowFacts
<1>5. ASSUME NEW g \in B
      PROVE  /\ FolderOK(new[g], DOMAIN s.folders)
             /\ new[g].items = s.folders[g].items
             /\ new[g].parent = s.folders[g].parent
             /\ new[g].busy = s.folders[g].busy
             /\ new[g].loading = s.folders[g].loading
             /\ new[g].expanded = s.folders[g].expanded
             /\ new[g].path = None
  <2>1. FolderOK(s.folders[g], DOMAIN s.folders)
    BY <1>3, <1>4
  <2>2. new[g] = [s.folders[g] EXCEPT !.path = None]
    OBVIOUS
  <2> QED
    BY <2>1, <2>2 DEF FolderOK
<1> HIDE DEF r, new, t, B
<1>6. /\ DOMAIN t = Fields /\ t.tree = r.tree
      /\ t.active = s.active /\ t.selected = s.selected
      /\ DOMAIN t.folders = B \cup DOMAIN s.folders
      /\ \A g \in B : t.folders[g] = new[g]
      /\ \A g \in DOMAIN s.folders \ B : t.folders[g] = s.folders[g]
  BY <1>2, <1>4, WithFacts DEF t
<1>7. DOMAIN t.folders = DOMAIN s.folders
  BY <1>4, <1>6
<1>8. \A g \in DOMAIN s.folders :
        /\ FolderOK(t.folders[g], DOMAIN s.folders)
        /\ t.folders[g].items = s.folders[g].items
        /\ t.folders[g].parent = s.folders[g].parent
        /\ t.folders[g].busy = s.folders[g].busy
        /\ t.folders[g].loading = s.folders[g].loading
        /\ t.folders[g].expanded = s.folders[g].expanded
        /\ t.folders[g].path = IF g \in B THEN None ELSE s.folders[g].path
  BY <1>3, <1>5, <1>6
<1>9. \A b \in DOMAIN s.tree : s.tree[b] \in DOMAIN s.folders
  BY DEF Struct, Typed
<1>10. Typed(t)
  BY <1>2, <1>6, <1>7, <1>8, <1>9 DEF Struct, Typed, Fields
<1>11. Families(t)
  <2>1. \A g \in DOMAIN s.folders : Parent(t, g) = Parent(s, g) /\ Listed(t, g) = Listed(s, g)
    BY <1>8 DEF Parent, Listed
  <2>2. \A p \in DOMAIN s.folders : \A n : Item(t, p, n) = Item(s, p, n)
    BY <1>8 DEF Item
  <2>3. ASSUME NEW p \in DOMAIN s.folders, NEW n \in Listed(t, p), Item(t, p, n) # None
        PROVE  Parent(t, Item(t, p, n)) = p /\ Item(t, p, n).at = Append(p.at, n)
    BY <2>1, <2>2, <2>3, ChildFacts
  <2>4. ASSUME NEW h \in DOMAIN s.folders, Parent(t, h) # None
        PROVE  \E n \in Listed(t, Parent(t, h)) : Item(t, Parent(t, h), n) = h
    <3>1. Parent(s, h) \in DOMAIN s.folders
      BY <2>1, <2>4, ParentFacts
    <3> QED
      BY <2>1, <2>2, <2>4, <3>1 DEF Struct, Families
  <2> QED
    BY <1>7, <2>3, <2>4 DEF Families
<1>12. Paths(t)
  <2>1. ASSUME NEW b \in DOMAIN t.tree
        PROVE  t.folders[t.tree[b]].path = b
    <3>1. b \in DOMAIN s.tree /\ b \notin gone /\ t.tree[b] = s.tree[b]
      BY <1>2, <1>6
    <3>2. s.folders[s.tree[b]].path = b /\ s.tree[b] \in DOMAIN s.folders
      BY <1>9, <3>1 DEF Struct, Paths
    <3>3. s.tree[b] \notin B
      BY <3>1, <3>2
    <3> QED
      BY <1>8, <3>1, <3>2, <3>3
  <2>2. ASSUME NEW g \in B
        PROVE  s.folders[g].path # <<>>
    BY <1>4 DEF Struct, Paths
  <2>3. <<>> \in DOMAIN t.tree /\ t.tree[<<>>] = Root
    BY <1>2, <1>6, <2>2 DEF Struct, Paths
  <2>4. None # <<>>
    BY ConstantsAssumption DEF Path
  <2>5. ASSUME NEW g \in DOMAIN t.folders \ {Root}
        PROVE  /\ t.folders[g].path # <<>>
               /\ t.folders[g].parent = None => t.folders[g].path = None
    <3>1. /\ s.folders[g].path # <<>>
          /\ s.folders[g].parent = None => s.folders[g].path = None
      BY <1>7 DEF Struct, Paths
    <3> QED
      BY <1>7, <1>8, <2>4, <3>1
  <2> QED
    BY <2>1, <2>3, <2>5 DEF Paths
<1> QED
  BY <1>1, <1>6, <1>7, <1>8, <1>10, <1>11, <1>12 DEF Struct, SameFocus, B

\* The folder above one that is removed, and what is active afterwards.
LEMMA LeftFacts ==
  ASSUME NEW s, Good(s), NEW f \in DOMAIN s.folders, NEW N \in SUBSET Listed(s, f)
  PROVE  LET R == Removed(s, f, N)
             cuts == Cuts(s, f, N)
             t == Leave(Deselect(s, cuts), f, DOMAIN cuts \ {f})
         IN
         /\ Remarked(s, t)
         /\ t.active \in DOMAIN s.folders \cup {None}
         /\ s.active # None => t.active # None
         /\ t.selected \subseteq s.selected
         /\ \A i \in t.selected :
              t.active = s.active /\ (i.of \in R \cup {f} => i.name \notin cuts[i.of])
<1> DEFINE R == Removed(s, f, N)
           cuts == Cuts(s, f, N)
           r == Deselect(s, cuts)
           t == Leave(r, f, DOMAIN cuts \ {f})
<1>1. /\ R \subseteq DOMAIN s.folders /\ f \notin R
      /\ DOMAIN cuts = R \cup {f}
      /\ \A g \in R \cup {f} : cuts[g] \subseteq Listed(s, g)
      /\ \A h \in R : \E g \in R \cup {f} : \E n \in cuts[g] : Item(s, g, n) = h
  BY RemovedFacts DEF Good
<1>2. /\ DOMAIN r = Fields /\ r.folders = s.folders /\ r.tree = s.tree
      /\ r.active = s.active
      /\ r.selected = {i \in s.selected : i.of \in DOMAIN cuts => i.name \notin cuts[i.of]}
  BY DEF Deselect, Good, Struct, Typed, Fields
<1> HIDE DEF R, cuts, r
<1>3. Remarked(s, r) /\ Struct(r)
  BY <1>2, Refocused, RemarkedFacts DEF Good
<1>4. CASE s.active \notin R
  <2>1. t = r
    BY <1>1, <1>2, <1>4 DEF Leave
  <2>2. /\ r.active \in DOMAIN s.folders \cup {None} /\ r.active = s.active
        /\ r.selected \subseteq s.selected
        /\ \A i \in r.selected :
             r.active = s.active /\ (i.of \in R \cup {f} => i.name \notin cuts[i.of])
    BY <1>1, <1>2 DEF Good, Focus
  <2> HIDE DEF t
  <2> QED
    BY <1>3, <2>1, <2>2 DEF t, R, cuts, r
<1>5. CASE s.active \in R
  <2> DEFINE u == ExpandAbove(r, r.folders[r.active].parent)
  <2>1. t = Activate(u, f)
    BY <1>1, <1>2, <1>5 DEF Leave
  <2>2. PICK g \in R \cup {f} : \E n \in cuts[g] : Item(s, g, n) = s.active
    BY <1>1, <1>5
  <2>3. s.active # None
    BY <1>1, <1>5, NoneIsNoFolder DEF Good
  <2>4. Parent(s, s.active) = g
    BY <1>1, <2>2, <2>3, ChildFacts DEF Good
  <2>5. r.folders[r.active].parent \in DOMAIN r.folders
    BY <1>1, <1>2, <2>4 DEF Parent
  <2>6. Remarked(r, u) /\ SameFocus(r, u)
    BY <1>3, <2>5, AboveExpanded
  <2> HIDE DEF u
  <2>7. Struct(u) /\ DOMAIN u.folders = DOMAIN s.folders
    BY <1>2, <1>3, <2>6, RemarkedFacts
  <2>8. Remarked(u, t) /\ t.active = f /\ t.selected = {}
    <3>1. u.active # f
      BY <1>1, <1>2, <1>5, <2>6 DEF SameFocus
    <3>2. f \in DOMAIN u.folders
      BY <2>7
    <3> HIDE DEF t
    <3>3. /\ Remarked(u, t) /\ t.active = f
          /\ t.selected = IF u.active = f THEN u.selected ELSE {}
      BY <2>1, <2>7, <3>2, Activated
    <3> QED
      BY <3>1, <3>3
  <2>9. Remarked(s, t)
    BY <1>3, <2>6, <2>7, <2>8, RemarkedTransitive DEF Good
  <2>10. f # None
    BY NoneIsNoFolder DEF Good
  <2> QED
    BY <2>8, <2>9, <2>10 DEF R, cuts, r
<1> QED
  BY <1>4, <1>5

LEMMA BelowAlike ==
  ASSUME NEW s, NEW t, Struct(s), Alike(s, t), NEW F \in SUBSET DOMAIN s.folders
  PROVE  Below(t, F) = Below(s, F)
<1>1. Beneath(t, F) = Beneath(s, F)
  BY DEF Alike, Beneath
<1>2. \A g \in Beneath(s, F) : Sub(t, g) = Sub(s, g)
  BY AlikeFacts DEF Beneath
<1>3. [g \in Beneath(t, F) |-> Sub(t, g)] = [g \in Beneath(s, F) |-> Sub(s, g)]
  BY <1>1, <1>2
<1> QED
  BY <1>3 DEF Below

\* removeItem(), for any items of a folder.
LEMMA ItemsRemoved ==
  ASSUME NEW s, Good(s), NEW f \in DOMAIN s.folders, NEW N \in SUBSET Listed(s, f)
  PROVE  LET t == RemoveItems(s, f, N) IN
         /\ Good(t) /\ NotBusier(s, t)
         /\ DOMAIN t.folders = DOMAIN s.folders
         /\ Parent(t, f) = Parent(s, f) /\ t.folders[f].path = s.folders[f].path
         /\ Listed(t, f) = Listed(s, f) \ N
         /\ s.active # None => t.active # None
<1> DEFINE F == Pick(s, f, N)
           R == Removed(s, f, N)
           cuts == Cuts(s, f, N)
           a == Leave(Deselect(s, cuts), f, DOMAIN cuts \ {f})
           b == ForgetPaths(a, F)
           c == Cut(b, f, cuts)
           t == UpdateSubtrees(c, DOMAIN cuts)
<1>1. t = RemoveItems(s, f, N)
  BY DEF RemoveItems, RemoveFrom, Detach
<1>2. Struct(s)
  BY DEF Good
<1>3. /\ R \subseteq Below(s, F) /\ R \subseteq DOMAIN s.folders
      /\ f \notin R /\ Root \notin R
      /\ DOMAIN cuts = R \cup {f} /\ cuts[f] = N
      /\ \A g \in R \cup {f} :
           /\ cuts[g] \subseteq Listed(s, g)
           /\ \A n \in cuts[g] : Item(s, g, n) # None => Item(s, g, n) \in R
      /\ \A h \in R : \E g \in R \cup {f} : \E n \in cuts[g] : Item(s, g, n) = h
  BY <1>2, RemovedFacts
<1>4. /\ Remarked(s, a)
      /\ a.active \in DOMAIN s.folders \cup {None}
      /\ s.active # None => a.active # None
      /\ a.selected \subseteq s.selected
      /\ \A i \in a.selected :
           a.active = s.active /\ (i.of \in R \cup {f} => i.name \notin cuts[i.of])
  BY LeftFacts
<1>5. F \subseteq Sub(s, f) /\ F \subseteq DOMAIN s.folders /\ f \notin Below(s, F)
  BY <1>2, PickFacts, SubFacts, BelowFacts
<1> HIDE DEF F, R, cuts, a, b, c, t
<1>6. /\ Struct(a) /\ DOMAIN a.folders = DOMAIN s.folders
      /\ ExpandedBut(a, {})
      /\ \A g \in DOMAIN s.folders : Sub(a, g) = Sub(s, g)
      /\ Alike(s, a) /\ NotBusier(s, a)
  BY <1>2, <1>4, RemarkedFacts DEF Good, Remarked
<1>7. Below(a, F) = Below(s, F)
  BY <1>2, <1>5, <1>6, BelowAlike
<1>8. F \in SUBSET Sub(a, f) /\ f \in DOMAIN a.folders
  BY <1>5, <1>6
<1>9. /\ Struct(b) /\ SameFocus(a, b) /\ DOMAIN b.folders = DOMAIN s.folders
      /\ \A g \in DOMAIN s.folders :
           /\ b.folders[g].items = a.folders[g].items
           /\ b.folders[g].parent = a.folders[g].parent
           /\ b.folders[g].busy = a.folders[g].busy
           /\ b.folders[g].loading = a.folders[g].loading
           /\ b.folders[g].expanded = a.folders[g].expanded
           /\ b.folders[g].path = IF g \in Below(a, F) THEN None ELSE a.folders[g].path
  BY <1>6, <1>8, PathForgotten DEF b
<1>10. \A g \in DOMAIN s.folders :
         /\ b.folders[g].items = s.folders[g].items
         /\ b.folders[g].parent = s.folders[g].parent
         /\ g \notin Below(s, F) => b.folders[g].path = s.folders[g].path
         /\ g \in Below(s, F) => b.folders[g].path = None
  BY <1>6, <1>7, <1>9 DEF Alike
<1>11. \A g \in DOMAIN s.folders :
         /\ Listed(b, g) = Listed(s, g) /\ Sub(b, g) = Sub(s, g)
         /\ \A n : Item(b, g, n) = Item(s, g, n)
  BY <1>10 DEF Listed, Item, Sub
<1>12. /\ \A g \in R \cup {f} :
            /\ cuts[g] \subseteq Listed(b, g)
            /\ \A n \in cuts[g] : Item(b, g, n) # None => Item(b, g, n) \in R
       /\ \A h \in R : \E g \in R \cup {f} : \E n \in cuts[g] : Item(b, g, n) = h
       /\ \A h \in R : b.folders[h].path = None
  BY <1>3, <1>10, <1>11
<1>13. /\ Struct(c) /\ SameFocus(b, c) /\ NotBusier(b, c)
       /\ DOMAIN c.folders = DOMAIN s.folders
       /\ Parent(c, f) = Parent(b, f)
       /\ \A g \in R \cup {f} : Listed(c, g) = Listed(b, g) \ cuts[g]
       /\ \A g \in DOMAIN s.folders \ (R \cup {f}) : c.folders[g] = b.folders[g]
       /\ \A g \in DOMAIN s.folders :
            /\ c.folders[g].path = b.folders[g].path
            /\ c.folders[g].expanded = b.folders[g].expanded
  BY <1>3, <1>9, <1>12, CutFacts DEF c
<1>14. ExpandedBut(c, R \cup {f})
  <2> SUFFICES ASSUME NEW g \in DOMAIN s.folders \ (R \cup {f}), c.folders[g].expanded
               PROVE  Sub(c, g) # {}
    BY <1>13 DEF ExpandedBut
  <2>1. Sub(c, g) = Sub(a, g)
    BY <1>6, <1>9, <1>13 DEF Sub
  <2> QED
    BY <1>6, <1>9, <1>13, <2>1 DEF ExpandedBut
<1>15. /\ Remarked(c, t) /\ SameFocus(c, t) /\ ExpandedBut(t, {})
  BY <1>3, <1>13, <1>14, SubtreesUpdated DEF t
<1>16. /\ Struct(t) /\ NotBusier(c, t) /\ DOMAIN t.folders = DOMAIN s.folders
       /\ \A g \in DOMAIN s.folders : Listed(t, g) = Listed(c, g)
  BY <1>13, <1>15, RemarkedFacts
<1>17. Focus(t)
  <2>1. t.active = a.active /\ t.selected = a.selected
    BY <1>9, <1>13, <1>15 DEF SameFocus
  <2>2. ASSUME NEW i \in a.selected
        PROVE  i.of = a.active /\ i.name \in Listed(t, a.active)
    <3>1. i.of = s.active /\ i.name \in Listed(s, s.active) /\ a.active = s.active
      BY <1>4 DEF Good, Focus
    <3>2. i.of \in Id
      BY <1>4 DEF Good, Focus
    <3>3. s.active \in DOMAIN s.folders
      BY <3>1, <3>2, ConstantsAssumption DEF Good, Focus
    <3>4. CASE s.active \in R \cup {f}
      BY <1>4, <1>11, <1>13, <1>16, <3>1, <3>3, <3>4
    <3>5. CASE s.active \notin R \cup {f}
      BY <1>11, <1>13, <1>16, <3>1, <3>3, <3>5 DEF Listed
    <3> QED
      BY <3>4, <3>5
  <2> QED
    BY <1>4, <1>16, <2>1, <2>2 DEF Good, Focus
<1>18. NotBusier(s, t)
  <2>1. \A g \in DOMAIN s.folders :
          /\ b.folders[g].busy = a.folders[g].busy
          /\ b.folders[g].loading = a.folders[g].loading
    BY <1>9
  <2> QED
    BY <1>6, <1>9, <1>13, <1>16, <2>1 DEF NotBusier
<1>19. Parent(t, f) = Parent(s, f) /\ t.folders[f].path = s.folders[f].path
  <2>1. t.folders[f].parent = c.folders[f].parent /\ t.folders[f].path = c.folders[f].path
    BY <1>13, <1>15 DEF Remarked, Alike
  <2> QED
    BY <1>5, <1>10, <1>13, <2>1 DEF Parent
<1>21. s.active # None => t.active # None
  BY <1>4, <1>9, <1>13, <1>15 DEF SameFocus
<1>20. Listed(t, f) = Listed(s, f) \ N
  BY <1>3, <1>11, <1>13, <1>16
<1> QED
  BY <1>1, <1>15, <1>16, <1>17, <1>18, <1>19, <1>20, <1>21 DEF Good

-----------------------------------------------------------------------------
(* Numbers and finite sets. *)

LEMMA Least ==
  ASSUME NEW T \in SUBSET Nat, T # {}
  PROVE  \E k \in T : \A j \in T : k <= j
<1> DEFINE less == OpToRel(<, Nat)
<1>1. IsWellFoundedOn(less, Nat)
  BY NatLessThanWellFounded
<1>2. PICK k \in T : \A j \in T : <<j, k>> \notin less
  <2> HIDE DEF less
  <2> QED
    BY <1>1, WFMin
<1>3. \A j \in T : ~(j < k)
  BY <1>2 DEF OpToRel
<1> QED
  BY <1>3

LEMMA Greatest ==
  ASSUME NEW n \in Nat, NEW T \in SUBSET (0 .. n), T # {}
  PROVE  \E k \in T : \A j \in T : j <= k
<1> DEFINE U == {i \in 0 .. n : n - i \in T}
<1>1. U \in SUBSET Nat /\ U # {}
  <2>1. PICK k \in T : TRUE
    OBVIOUS
  <2>2. n - k \in 0 .. n /\ n - (n - k) = k
    OBVIOUS
  <2>3. n - k \in U
    <3> HIDE DEF U
    <3>1. n - (n - k) \in T
      BY <2>2
    <3> QED
      BY <2>2, <3>1 DEF U
  <2>4. U \subseteq Nat
    OBVIOUS
  <2> QED
    BY <2>3, <2>4
<1>2. PICK u \in U : \A v \in U : u <= v
  <2> HIDE DEF U
  <2> QED
    BY <1>1, Least
<1>3. \A j \in T : n - j \in U
  <2>1. \A j \in 0 .. n : n - j \in 0 .. n /\ n - (n - j) = j
    OBVIOUS
  <2> QED
    BY <2>1
<1>4. \A j \in T : u <= n - j
  BY <1>2, <1>3
<1>5. n - u \in T /\ u \in 0 .. n
  OBVIOUS
<1> QED
  BY <1>4, <1>5

LEMMA FiniteImage ==
  ASSUME NEW S, IsFiniteSet(S), NEW f, DOMAIN f = S
  PROVE  IsFiniteSet({f[x] : x \in S})
<1> DEFINE T == {f[x] : x \in S}
           g == [x \in S |-> f[x]]
<1>1. g \in Surjection(S, T)
  BY DEF Surjection
<1> HIDE DEF g, T
<1>2. IsFiniteSet(T)
  BY <1>1, FS_Surjection
<1> QED
  BY <1>2 DEF T

LEMMA NameIsFinite == IsFiniteSet(Name)
<1>1. Name = {Names[i] : i \in 1 .. Len(Names)} /\ Len(Names) \in Nat
  BY ConstantsAssumption DEF Name, Range
<1>2. IsFiniteSet(1 .. Len(Names)) /\ DOMAIN Names = 1 .. Len(Names)
  BY <1>1, FS_Interval, ConstantsAssumption
<1> QED
  BY <1>1, <1>2, FiniteImage

-----------------------------------------------------------------------------
(* New folders. *)

LEMMA FreshFacts ==
  ASSUME NEW s, Typed(s), NEW p \in Seq(Name)
  PROVE  /\ FreshId(s, p) \in Id /\ FreshId(s, p).at = p
         /\ FreshId(s, p) \notin DOMAIN s.folders
<1> DEFINE D == DOMAIN s.folders
           c == Cardinality(D)
           id(g) == [at |-> p, gen |-> g]
           T == {g \in 0 .. c : id(g) \notin D}
<1>1. IsFiniteSet(D) /\ c \in Nat
  BY FS_CardinalityType DEF Typed
<1>2. T # {}
  <2> SUFFICES ASSUME T = {}
               PROVE  FALSE
    OBVIOUS
  <2> DEFINE F == [g \in 0 .. c |-> id(g)]
  <2>1. F \in Injection(0 .. c, D)
    <3>1. ASSUME NEW g \in 0 .. c
          PROVE  id(g) \in D
      <4>1. g \notin T
        OBVIOUS
      <4> QED
        BY <4>1
    <3>2. F \in [0 .. c -> D]
      BY <3>1
    <3>3. \A a, b \in 0 .. c : F[a] = F[b] => a = b
      <4>1. \A a \in 0 .. c : F[a].gen = a
        OBVIOUS
      <4> HIDE DEF F
      <4> QED
        BY <4>1
    <3> HIDE DEF F, D
    <3> QED
      BY <3>2, <3>3 DEF Injection, IsInjective
  <2> HIDE DEF F
  <2>2. Cardinality(0 .. c) <= c
    BY <1>1, <2>1, FS_Injection
  <2>3. Cardinality(0 .. c) = c + 1
    BY <1>1, FS_Interval
  <2> QED
    BY <1>1, <2>2, <2>3
<1>3. PICK g \in T : \A h \in T : g <= h
  <2>1. T \in SUBSET Nat
    BY <1>1
  <2> HIDE DEF T
  <2> QED
    BY <1>2, <2>1, Least
<1>4. g \in 0 .. c /\ id(g) \notin D /\ \A h \in 0 .. g - 1 : id(h) \in D
  BY <1>1, <1>3
<1> DEFINE ok(i) == id(i) \notin D /\ \A h \in 0 .. i - 1 : id(h) \in D
           k == CHOOSE i \in 0 .. c : ok(i)
<1>5. k \in 0 .. c /\ id(k) \notin D
  <2>1. ok(g)
    BY <1>4
  <2>2. k \in 0 .. c /\ ok(k)
    <3> HIDE DEF ok
    <3> QED
      BY <1>4, <2>1
  <2> QED
    BY <2>2
<1>6. FreshId(s, p) = id(k)
  BY DEF FreshId
<1> HIDE DEF k, c
<1>7. k \in Nat
  BY <1>1, <1>5
<1> QED
  BY <1>5, <1>6, <1>7 DEF Id

LEMMA ObjectsFacts ==
  ASSUME NEW s, Typed(s), NEW A \in SUBSET Seq(Name), NEW B
  PROVE  LET x == Objects(s, A, B) IN
         /\ DOMAIN x = A \cup B
         /\ \A p \in A : x[p] \in Id /\ x[p].at = p /\ x[p] \notin DOMAIN s.folders
         /\ \A p \in B \ A : x[p] = None
         /\ \A g \in Made(x) : g.at \in A /\ x[g.at] = g
         /\ \A p \in A : x[p] \in Made(x)
<1> DEFINE x == Objects(s, A, B)
<1>1. /\ DOMAIN x = A \cup B
      /\ \A p \in A : x[p] = FreshId(s, p)
      /\ \A p \in B \ A : x[p] = None
  BY DEF Objects
<1> HIDE DEF x
<1>2. \A p \in A : x[p] \in Id /\ x[p].at = p /\ x[p] \notin DOMAIN s.folders
  BY <1>1, FreshFacts
<1>3. \A g \in Made(x) : \E p \in A : x[p] = g
  BY <1>1 DEF Made, Range
<1>4. \A p \in A : x[p] \in Made(x)
  BY <1>1, <1>2, ConstantsAssumption DEF Made, Range
<1> QED
  BY <1>1, <1>2, <1>3, <1>4 DEF x

LEMMA ItemsAtFacts ==
  ASSUME NEW x, DOMAIN x \subseteq Seq(Name) \ {<<>>}, NEW p \in Seq(Name)
  PROVE  /\ DOMAIN ItemsAt(x, p) = {n \in Name : Append(p, n) \in DOMAIN x}
         /\ \A n \in DOMAIN ItemsAt(x, p) : ItemsAt(x, p)[n] = x[Append(p, n)]
<1>1. \A q \in DOMAIN x : q \in Seq(Name) /\ q # <<>> /\ Last(q) \in Name
                            /\ q = Append(Front(q), Last(q))
  BY FrontFacts
<1>2. \A n \in Name : Front(Append(p, n)) = p /\ Last(Append(p, n)) = n
  BY AppendFacts
<1>3. {Last(q) : q \in {r \in DOMAIN x : Front(r) = p}} =
      {n \in Name : Append(p, n) \in DOMAIN x}
  BY <1>1, <1>2
<1> QED
  BY <1>3 DEF ItemsAt

LEMMA NamesArePaths == Seq(Name) \subseteq Path
BY SeqMonotonic DEF Path

LEMMA PathOfFacts ==
  ASSUME NEW s, Struct(s), NEW f \in DOMAIN s.folders,
         NEW p \in Seq(Name), Len(f.at) < Len(p)
  PROVE  PathOf(s, f, p) \in Path \ {<<>>}
<1>1. PathIn(s, f) \in Path
  <2>1. s.folders[f].path \in Path \cup {None}
    BY DEF Struct, Typed, FolderOK
  <2>2. <<>> \in Path /\ <<"undefined">> \in Path
    BY DEF Path
  <2> QED
    BY <2>1, <2>2 DEF PathIn
<1>2. f.at \in Seq(Name) /\ Len(f.at) \in Nat
  BY NoneIsNoFolder, SMTT(40)
<1> DEFINE q == SubSeq(p, Len(f.at) + 1, Len(p))
<1>3. q \in Seq(Name) /\ Len(q) = Len(p) - Len(f.at)
  <2>1. Len(p) \in Nat
    OBVIOUS
  <2> DEFINE m == Len(f.at) + 1
  <2>2. /\ m \in 1 .. Len(p) + 1 /\ Len(p) \in m - 1 .. Len(p)
        /\ m <= Len(p) /\ Len(p) - m + 1 = Len(p) - Len(f.at)
    BY <1>2, <2>1
  <2> HIDE DEF m
  <2>3. /\ SubSeq(p, m, Len(p)) \in Seq(Name)
        /\ Len(SubSeq(p, m, Len(p))) = Len(p) - m + 1
    BY <2>2, SubSeqProperties
  <2> QED
    BY <2>2, <2>3, Zenon DEF m
<1>4. q \in Path
  BY <1>3, NamesArePaths
<1> HIDE DEF q
<1>5. PathIn(s, f) \o q \in Path /\ Len(PathIn(s, f) \o q) = Len(PathIn(s, f)) + Len(q)
  BY <1>1, <1>4 DEF Path
<1>6. Len(PathIn(s, f)) \in Nat /\ Len(q) > 0
  BY <1>1, <1>2, <1>3 DEF Path
<1>7. PathIn(s, f) \o q # <<>>
  BY <1>5, <1>6
<1> QED
  BY <1>5, <1>7 DEF PathOf, q

\* Paths where items can be added to f: below f, new to it, and each in f or in a
\* new folder.
Addable(s, f, A, B) ==
  /\ A \subseteq Seq(Name) /\ B \subseteq Seq(Name) /\ IsFiniteSet(A \cup B)
  /\ \A p \in A \cup B :
       /\ Len(f.at) < Len(p)
       /\ Front(p) = f.at => Last(p) \notin Listed(s, f)
       /\ Front(p) # f.at => Front(p) \in A

\* An object for each of those paths, which x has.
NewObjects(s, f, A, B, x) ==
  /\ DOMAIN x = A \cup B /\ DOMAIN x \subseteq Seq(Name) \ {<<>>}
  /\ A \subseteq Seq(Name)
  /\ IsFiniteSet(Made(x)) /\ Made(x) \cap DOMAIN s.folders = {}
  /\ \A p \in DOMAIN x : x[p] # None => x[p] \in Made(x) /\ x[p].at = p
  /\ \A p \in A : x[p] \in Made(x) /\ x[p].at = p
  /\ \A p \in DOMAIN x :
       /\ Front(p) = f.at => Last(p) \notin Listed(s, f)
       /\ Front(p) # f.at => Front(p) \in A
  /\ \A g \in Made(x) :
       /\ g \in Id /\ g.at \in A /\ x[g.at] = g /\ g # Root
       /\ Len(f.at) < Len(g.at)
       /\ PathOf(s, f, g.at) \in Path \ {<<>>}

LEMMA AddableFacts ==
  ASSUME NEW s, Struct(s), NEW f \in DOMAIN s.folders, NEW A, NEW B, Addable(s, f, A, B)
  PROVE  NewObjects(s, f, A, B, Objects(s, A, B))
<1> DEFINE x == Objects(s, A, B)
<1>1. A \in SUBSET Seq(Name) /\ Typed(s)
  BY DEF Addable, Struct
<1>2. /\ DOMAIN x = A \cup B
      /\ \A p \in A : x[p] \in Id /\ x[p].at = p /\ x[p] \notin DOMAIN s.folders
      /\ \A p \in B \ A : x[p] = None
      /\ \A g \in Made(x) : g.at \in A /\ x[g.at] = g
      /\ \A p \in A : x[p] \in Made(x)
  BY <1>1, ObjectsFacts
<1> HIDE DEF x
<1>3. \A p \in A \cup B : p \in Seq(Name) /\ p # <<>> /\ Len(f.at) < Len(p)
  BY NoneIsNoFolder DEF Addable
<1>4. IsFiniteSet(Made(x))
  <2>1. Made(x) \subseteq {x[p] : p \in DOMAIN x}
    BY DEF Made, Range
  <2>2. IsFiniteSet({x[p] : p \in DOMAIN x})
    BY <1>2, FiniteImage DEF Addable
  <2> QED
    BY <2>1, <2>2, FS_Subset
<1>5. \A g \in Made(x) : g # Root
  BY <1>2, <1>3 DEF Root
<1>6. \A g \in Made(x) : PathOf(s, f, g.at) \in Path \ {<<>>}
  BY <1>2, <1>3, PathOfFacts
<1>7. /\ DOMAIN x \subseteq Seq(Name) \ {<<>>}
      /\ \A g \in Made(x) : Len(f.at) < Len(g.at)
      /\ Made(x) \cap DOMAIN s.folders = {} /\ \A g \in Made(x) : g \in Id
      /\ \A p \in DOMAIN x : x[p] # None => x[p] \in Made(x) /\ x[p].at = p
  BY <1>2, <1>3
<1>8. \A p \in DOMAIN x :
        /\ Front(p) = f.at => Last(p) \notin Listed(s, f)
        /\ Front(p) # f.at => Front(p) \in A
  BY <1>2 DEF Addable
<1> QED
  BY <1>1, <1>2, <1>4, <1>5, <1>6, <1>7, <1>8 DEF NewObjects, x

\* The state t is s with those objects.
Grown(s, f, x, t) ==
  /\ DOMAIN t = Fields /\ SameFocus(s, t)
  /\ DOMAIN t.folders = DOMAIN s.folders \cup Made(x)
  /\ \A g \in Made(x) : t.folders[g] = NewFolder(s, f, x, g.at)
  /\ t.folders[f] = Extended(s, f, ItemsAt(x, f.at))
  /\ \A g \in DOMAIN s.folders \ {f} : t.folders[g] = s.folders[g]
  /\ DOMAIN t.tree = DOMAIN s.tree \cup {PathOf(s, f, g.at) : g \in Made(x)}
  /\ \A b \in DOMAIN t.tree :
       \/ t.tree[b] \in Made(x) /\ PathOf(s, f, t.tree[b].at) = b
       \/ b \in DOMAIN s.tree /\ t.tree[b] = s.tree[b]
  /\ \A b \in DOMAIN s.tree :
       b \notin {PathOf(s, f, g.at) : g \in Made(x)} => t.tree[b] = s.tree[b]

LEMMA GraftShape ==
  ASSUME NEW s, Struct(s), NEW f \in DOMAIN s.folders,
         NEW A, NEW B, NEW x, NewObjects(s, f, A, B, x)
  PROVE  Grown(s, f, x, Graft(s, f, x))
<1> DEFINE M == Made(x)
           new == [g \in M \cup {f} |->
                     IF g = f THEN Extended(s, f, ItemsAt(x, f.at))
                     ELSE NewFolder(s, f, x, g.at)]
           made == [p \in {PathOf(s, f, g.at) : g \in M} |->
                      CHOOSE g \in M : PathOf(s, f, g.at) = p]
           r == Register(s, f, x)
           t == Graft(s, f, x)
<1>1. M \cap DOMAIN s.folders = {}
  BY DEF NewObjects
<1>2. t = With(r, new)
  BY DEF Graft
<1>0. r = [s EXCEPT !.tree = Override(made, @)]
  BY DEF Register
<1>3. DOMAIN new = M \cup {f} /\ f \notin M
  BY <1>1
<1>4. /\ \A g \in M : new[g] = NewFolder(s, f, x, g.at)
      /\ new[f] = Extended(s, f, ItemsAt(x, f.at))
  BY <1>3
<1>5. /\ DOMAIN made = {PathOf(s, f, g.at) : g \in M}
      /\ \A b \in DOMAIN made : made[b] \in M /\ PathOf(s, f, made[b].at) = b
  OBVIOUS
<1>6. DOMAIN s = Fields
  BY DEF Struct, Typed, Fields
<1> HIDE DEF M, new, made, r, t
<1>7. /\ DOMAIN r = Fields /\ r.folders = s.folders
      /\ r.active = s.active /\ r.selected = s.selected
      /\ r.tree = Override(made, s.tree)
  BY <1>0, <1>6 DEF Fields
<1>8. /\ DOMAIN r.tree = DOMAIN made \cup DOMAIN s.tree
      /\ \A b \in DOMAIN made : r.tree[b] = made[b]
      /\ \A b \in DOMAIN s.tree \ DOMAIN made : r.tree[b] = s.tree[b]
  BY <1>7 DEF Override
<1>9. /\ DOMAIN t = Fields /\ t.tree = r.tree
      /\ t.active = r.active /\ t.selected = r.selected
      /\ DOMAIN t.folders = DOMAIN new \cup DOMAIN r.folders
      /\ \A g \in DOMAIN new : t.folders[g] = new[g]
      /\ \A g \in DOMAIN r.folders \ DOMAIN new : t.folders[g] = r.folders[g]
  BY <1>2, <1>7, WithFacts
<1>10. DOMAIN t.folders = DOMAIN s.folders \cup M
  BY <1>3, <1>7, <1>9
<1>11. \A g \in DOMAIN s.folders \ {f} : t.folders[g] = s.folders[g]
  BY <1>1, <1>3, <1>7, <1>9
<1>12. /\ \A g \in M : t.folders[g] = NewFolder(s, f, x, g.at)
       /\ t.folders[f] = Extended(s, f, ItemsAt(x, f.at))
  BY <1>3, <1>4, <1>9
<1>13. SameFocus(s, t)
  BY <1>7, <1>9 DEF SameFocus
<1>14. /\ DOMAIN t.tree = DOMAIN s.tree \cup {PathOf(s, f, g.at) : g \in M}
       /\ \A b \in DOMAIN t.tree :
            \/ t.tree[b] \in M /\ PathOf(s, f, t.tree[b].at) = b
            \/ b \in DOMAIN s.tree /\ t.tree[b] = s.tree[b]
       /\ \A b \in DOMAIN s.tree :
            b \notin {PathOf(s, f, g.at) : g \in M} => t.tree[b] = s.tree[b]
  BY <1>5, <1>8, <1>9
<1> QED
  BY <1>9, <1>10, <1>11, <1>12, <1>13, <1>14 DEF M, t, Grown

\* A folder of the tree with more items.
IsExtension(s, f, y, D, z) ==
  /\ FolderOK(z, D)
  /\ z.parent = s.folders[f].parent /\ z.path = s.folders[f].path
  /\ z.busy = s.folders[f].busy /\ z.loading = s.folders[f].loading
  /\ DOMAIN z.items = Listed(s, f) \cup DOMAIN y
  /\ \A n \in DOMAIN y : z.items[n] = y[n]
  /\ \A n \in Listed(s, f) : z.items[n] = Item(s, f, n)
  /\ z.expanded => s.folders[f].expanded \/ Range(z.items) \ {None} # {}

LEMMA ExtendedFacts ==
  ASSUME NEW s, Struct(s), NEW f \in DOMAIN s.folders, NEW D, DOMAIN s.folders \subseteq D,
         NEW y, DOMAIN y \subseteq Name \ Listed(s, f), Range(y) \subseteq D \cup {None}
  PROVE  IsExtension(s, f, y, D, Extended(s, f, y))
<1> DEFINE x == s.folders[f]
           I == Override(y, x.items)
           e == IF Sub(s, f) # {} \/ Range(y) \ {None} = {} THEN x.expanded
                ELSE s.active \in {f, None}
           z == Extended(s, f, y)
<1>1. z = [x EXCEPT !.items = I, !.expanded = e]
  BY DEF Extended
<1>2. FolderOK(x, DOMAIN s.folders)
  BY DEF Struct, Typed
<1>3. e \in BOOLEAN /\ (e => x.expanded \/ Range(y) \ {None} # {})
  <2>1. x.expanded \in BOOLEAN /\ (s.active \in {f, None}) \in BOOLEAN
    BY <1>2 DEF FolderOK
  <2>2. CASE Sub(s, f) # {} \/ Range(y) \ {None} = {}
    BY <2>1, <2>2
  <2>3. CASE ~(Sub(s, f) # {} \/ Range(y) \ {None} = {})
    BY <2>1, <2>3
  <2> QED
    BY <2>2, <2>3
<1>4. /\ DOMAIN I = DOMAIN y \cup DOMAIN x.items
      /\ \A n \in DOMAIN y : I[n] = y[n]
      /\ \A n \in DOMAIN x.items : I[n] = x.items[n]
  BY DEF Override, Listed
<1>5. DOMAIN I \subseteq Name /\ Range(I) \subseteq D \cup {None} /\ Range(y) \subseteq Range(I)
  BY <1>2, <1>4 DEF FolderOK, Range
<1> HIDE DEF x, I, e
<1>6. /\ DOMAIN z = DOMAIN x /\ z.items = I /\ z.expanded = e
      /\ z.parent = x.parent /\ z.path = x.path /\ z.busy = x.busy
      /\ z.loading = x.loading /\ z.loaded = x.loaded /\ z.disabled = x.disabled
  BY <1>1, <1>2 DEF FolderOK
<1> HIDE DEF z
<1>7. FolderOK(z, D)
  BY <1>2, <1>3, <1>5, <1>6 DEF FolderOK
<1>8. z.expanded => x.expanded \/ Range(z.items) \ {None} # {}
  BY <1>3, <1>5, <1>6
<1> QED
  BY <1>4, <1>6, <1>7, <1>8 DEF x, z, Listed, Item, IsExtension

IsNewFolder(s, f, x, g, z) ==
  /\ FolderOK(z, DOMAIN s.folders \cup Made(x))
  /\ z.path = PathOf(s, f, g.at)
  /\ z.busy = FALSE /\ z.loading = FALSE
  /\ z.expanded => Range(z.items) \ {None} # {}
  /\ z.items = ItemsAt(x, g.at)
  /\ Front(g.at) = f.at => z.parent = f
  /\ Front(g.at) # f.at => z.parent \in Made(x) /\ z.parent.at = Front(g.at)

LEMMA NewFolderFacts ==
  ASSUME NEW s, Struct(s), NEW f \in DOMAIN s.folders,
         NEW A, NEW B, NEW x, NewObjects(s, f, A, B, x), NEW g \in Made(x)
  PROVE  IsNewFolder(s, f, x, g, NewFolder(s, f, x, g.at))
<1> DEFINE M == Made(x)
           z == NewFolder(s, f, x, g.at)
           y == ItemsAt(x, g.at)
           d == ~HasConf(s, f) /\ ~\E q \in DOMAIN x : IsPrefix(q, g.at) /\ IsPredefined(x[q])
           e == s.active = None /\ Range(y) \ {None} # {}
<1>1. /\ DOMAIN x = A \cup B /\ DOMAIN x \subseteq Seq(Name) \ {<<>>}
      /\ \A p \in DOMAIN x : x[p] # None => x[p] \in M /\ x[p].at = p
      /\ \A p \in A : x[p] \in M /\ x[p].at = p
      /\ g.at \in A /\ g.at \in DOMAIN x
      /\ PathOf(s, f, g.at) \in Path
      /\ Front(g.at) # f.at => Front(g.at) \in A
  BY DEF NewObjects
<1>2. g.at \in Seq(Name)
  BY <1>1
<1>3. /\ DOMAIN y = {n \in Name : Append(g.at, n) \in DOMAIN x}
      /\ \A n \in DOMAIN y : y[n] = x[Append(g.at, n)]
  BY <1>1, <1>2, ItemsAtFacts, ZenonT(40)
<1>4. Range(y) \subseteq M \cup {None}
  <2> HIDE DEF M, y
  <2> QED
    BY <1>1, <1>3 DEF Range
<1>5. Front(g.at) # f.at => x[Front(g.at)] \in M /\ x[Front(g.at)].at = Front(g.at)
  BY <1>1
<1>6. d \in BOOLEAN /\ e \in BOOLEAN
  OBVIOUS
<1>7. z = [parent |-> IF Front(g.at) = f.at THEN f ELSE x[Front(g.at)],
           path |-> PathOf(s, f, g.at), items |-> y,
           busy |-> FALSE, loading |-> FALSE, loaded |-> FALSE,
           disabled |-> d, expanded |-> e]
  BY DEF NewFolder
<1>8. e => Range(y) \ {None} # {}
  OBVIOUS
<1> HIDE DEF M, z, y, d, e
<1>9. /\ DOMAIN z = {"parent", "path", "items", "busy", "loading", "loaded", "disabled",
                     "expanded"}
      /\ z.parent = IF Front(g.at) = f.at THEN f ELSE x[Front(g.at)]
      /\ z.path = PathOf(s, f, g.at) /\ z.items = y
      /\ z.busy = FALSE /\ z.loading = FALSE /\ z.loaded = FALSE
      /\ z.disabled = d /\ z.expanded = e
  BY <1>7
<1>10. DOMAIN y \subseteq Name
  BY <1>3
<1>11. z.parent \in DOMAIN s.folders \cup M \cup {None}
  BY <1>5, <1>9
<1>12. FolderOK(z, DOMAIN s.folders \cup M)
  BY <1>1, <1>4, <1>6, <1>9, <1>10, <1>11 DEF FolderOK
<1> QED
  BY <1>5, <1>8, <1>9, <1>12 DEF M, z, y, IsNewFolder

\* New items of a folder, and those in them.
LEMMA Grafted ==
  ASSUME NEW s, Good(s), NEW f \in DOMAIN s.folders,
         NEW A, NEW B, NEW x, NewObjects(s, f, A, B, x),
         NEW t, Grown(s, f, x, t)
  PROVE  /\ Good(t) /\ NotBusier(s, t) /\ SameFocus(s, t)
         /\ DOMAIN s.folders \subseteq DOMAIN t.folders
         /\ DOMAIN t.tree = DOMAIN s.tree \cup {PathOf(s, f, p) : p \in A}
         /\ Listed(t, f) = Listed(s, f) \cup {n \in Name : Append(f.at, n) \in A \cup B}
<1> DEFINE M == Made(x)
           D == DOMAIN s.folders \cup M
           y == ItemsAt(x, f.at)
<1>1. Struct(s) /\ Typed(s) /\ f.at \in Seq(Name)
  BY NoneIsNoFolder DEF Good, Struct
<1>2. /\ DOMAIN x = A \cup B /\ DOMAIN x \subseteq Seq(Name) \ {<<>>}
      /\ A \subseteq Seq(Name)
      /\ IsFiniteSet(M) /\ M \cap DOMAIN s.folders = {}
      /\ \A p \in DOMAIN x : x[p] # None => x[p] \in M /\ x[p].at = p
      /\ \A p \in DOMAIN x :
           /\ Front(p) = f.at => Last(p) \notin Listed(s, f)
           /\ Front(p) # f.at => Front(p) \in A
      /\ \A g \in M :
           /\ g \in Id /\ g.at \in A /\ x[g.at] = g /\ g # Root
           /\ Len(f.at) < Len(g.at)
           /\ PathOf(s, f, g.at) \in Path \ {<<>>}
  BY DEF NewObjects
<1>3. \A p \in A : x[p] \in M /\ x[p].at = p
  BY DEF NewObjects
<1>4. /\ DOMAIN t = Fields /\ SameFocus(s, t)
      /\ DOMAIN t.folders = D
      /\ \A g \in M : t.folders[g] = NewFolder(s, f, x, g.at)
      /\ t.folders[f] = Extended(s, f, y)
      /\ \A g \in DOMAIN s.folders \ {f} : t.folders[g] = s.folders[g]
  BY DEF Grown
<1>5. /\ DOMAIN t.tree = DOMAIN s.tree \cup {PathOf(s, f, g.at) : g \in M}
      /\ \A b \in DOMAIN t.tree :
           \/ t.tree[b] \in M /\ PathOf(s, f, t.tree[b].at) = b
           \/ b \in DOMAIN s.tree /\ t.tree[b] = s.tree[b]
      /\ \A b \in DOMAIN s.tree :
           b \notin {PathOf(s, f, g.at) : g \in M} => t.tree[b] = s.tree[b]
  BY DEF Grown
<1> HIDE DEF M, D
<1>6. ASSUME NEW g \in M
      PROVE  /\ FolderOK(t.folders[g], D)
             /\ t.folders[g].path = PathOf(s, f, g.at)
             /\ t.folders[g].busy = FALSE /\ t.folders[g].loading = FALSE
             /\ t.folders[g].expanded => Range(t.folders[g].items) \ {None} # {}
             /\ t.folders[g].items = ItemsAt(x, g.at)
             /\ Front(g.at) = f.at => t.folders[g].parent = f
             /\ Front(g.at) # f.at =>
                  /\ t.folders[g].parent \in M /\ t.folders[g].parent.at = Front(g.at)
  <2>1. IsNewFolder(s, f, x, g, NewFolder(s, f, x, g.at))
    BY <1>1, NewFolderFacts DEF M
  <2>2. IsNewFolder(s, f, x, g, t.folders[g])
    BY <1>4, <2>1
  <2> QED
    BY <2>2 DEF IsNewFolder, M, D
<1>7. \A p \in Seq(Name) :
        /\ DOMAIN ItemsAt(x, p) = {n \in Name : Append(p, n) \in DOMAIN x}
        /\ \A n \in DOMAIN ItemsAt(x, p) : ItemsAt(x, p)[n] = x[Append(p, n)]
  BY <1>2, ItemsAtFacts
<1>8. DOMAIN y \subseteq Name \ Listed(s, f)
  <2> SUFFICES ASSUME NEW n \in DOMAIN y
               PROVE  n \in Name /\ n \notin Listed(s, f)
    OBVIOUS
  <2>1. n \in Name /\ Append(f.at, n) \in A \cup B
    BY <1>1, <1>2, <1>7, ZenonT(40)
  <2>2. Front(Append(f.at, n)) = f.at /\ Last(Append(f.at, n)) = n
    BY <1>1, <2>1, AppendFacts
  <2> QED
    BY <1>2, <2>1, <2>2
<1> HIDE DEF y
<1>9. Range(y) \subseteq D \cup {None}
  <2> SUFFICES ASSUME NEW n \in DOMAIN y
               PROVE  y[n] \in D \cup {None}
    BY DEF Range
  <2>1. n \in Name /\ Append(f.at, n) \in DOMAIN x /\ y[n] = x[Append(f.at, n)]
    BY <1>1, <1>7 DEF y
  <2> QED
    BY <1>2, <2>1 DEF D
<1>10. /\ FolderOK(t.folders[f], D)
       /\ t.folders[f].parent = s.folders[f].parent
       /\ t.folders[f].path = s.folders[f].path
       /\ t.folders[f].busy = s.folders[f].busy
       /\ t.folders[f].loading = s.folders[f].loading
       /\ DOMAIN t.folders[f].items = Listed(s, f) \cup DOMAIN y
       /\ \A n \in DOMAIN y : t.folders[f].items[n] = y[n]
       /\ \A n \in Listed(s, f) : t.folders[f].items[n] = Item(s, f, n)
       /\ t.folders[f].expanded =>
            s.folders[f].expanded \/ Range(t.folders[f].items) \ {None} # {}
  <2>1. DOMAIN s.folders \subseteq D
    BY DEF D
  <2>2. IsExtension(s, f, y, D, Extended(s, f, y))
    BY <1>1, <1>8, <1>9, <2>1, ExtendedFacts
  <2>3. IsExtension(s, f, y, D, t.folders[f])
    BY <1>4, <2>2
  <2> QED
    BY <2>3 DEF IsExtension
<1>11. /\ D = DOMAIN s.folders \cup M /\ f \notin M
       /\ \A g \in DOMAIN s.folders : g \notin M
  BY <1>2 DEF D
\* What old folders keep, and what new items are.
<1>12. \A g \in DOMAIN s.folders :
         /\ Parent(t, g) = Parent(s, g) /\ t.folders[g].path = s.folders[g].path
         /\ t.folders[g].busy = s.folders[g].busy
         /\ t.folders[g].loading = s.folders[g].loading
         /\ Listed(s, g) \subseteq Listed(t, g)
         /\ \A n \in Listed(s, g) : Item(t, g, n) = Item(s, g, n)
  BY <1>4, <1>10 DEF Parent, Listed, Item
<1>13. \A p \in D : \A n \in Listed(t, p) :
         \/ p \in DOMAIN s.folders /\ n \in Listed(s, p)
         \/ /\ p = f \/ p \in M
            /\ n \in Name /\ Append(p.at, n) \in DOMAIN x /\ Item(t, p, n) = x[Append(p.at, n)]
  <2> SUFFICES ASSUME NEW p \in D, NEW n \in Listed(t, p),
                      ~(p \in DOMAIN s.folders /\ n \in Listed(s, p))
               PROVE  /\ p = f \/ p \in M
                      /\ n \in Name /\ Append(p.at, n) \in DOMAIN x
                      /\ Item(t, p, n) = x[Append(p.at, n)]
    OBVIOUS
  <2>1. CASE p = f
    BY <1>1, <1>7, <1>10, <2>1 DEF Listed, Item, y
  <2>2. CASE p \in M
    <3>1. p.at \in Seq(Name)
      BY <1>1, <1>2, <2>2
    <3> QED
      BY <1>6, <1>7, <2>2, <3>1 DEF Listed, Item
  <2>3. CASE p \in DOMAIN s.folders \ {f}
    BY <1>4, <2>3 DEF Listed
  <2> QED
    BY <1>11, <2>1, <2>2, <2>3
<1>14. /\ \A n \in Name : Append(f.at, n) \in DOMAIN x =>
            n \in Listed(t, f) /\ Item(t, f, n) = x[Append(f.at, n)]
       /\ \A p \in M : \A n \in Name : Append(p.at, n) \in DOMAIN x =>
            n \in Listed(t, p) /\ Item(t, p, n) = x[Append(p.at, n)]
  <2>1. \A p \in M : p.at \in Seq(Name)
    BY <1>1, <1>2
  <2>2. \A n \in Name : Append(f.at, n) \in DOMAIN x =>
            n \in Listed(t, f) /\ Item(t, f, n) = x[Append(f.at, n)]
    BY <1>1, <1>7, <1>10 DEF Listed, Item, y
  <2>3. \A p \in M : \A n \in Name : Append(p.at, n) \in DOMAIN x =>
            n \in Listed(t, p) /\ Item(t, p, n) = x[Append(p.at, n)]
    BY <1>6, <1>7, <2>1, ZenonT(40) DEF Listed, Item
  <2> QED
    BY <2>2, <2>3
<1>15. Typed(t)
  <2>1. ASSUME NEW g \in D
        PROVE  FolderOK(t.folders[g], D)
    <3>1. CASE g \in DOMAIN s.folders \ {f}
      <4>1. FolderOK(s.folders[g], DOMAIN s.folders) /\ t.folders[g] = s.folders[g]
        BY <1>1, <1>4, <3>1 DEF Typed
      <4> QED
        BY <1>11, <4>1 DEF FolderOK
    <3> QED
      BY <1>6, <1>10, <1>11, <3>1
  <2>2. IsFiniteSet(D) /\ D \subseteq Id
    BY <1>1, <1>2, <1>11, FS_Union DEF Typed
  <2>3. DOMAIN t.tree \subseteq Path
    BY <1>1, <1>2, <1>5 DEF Typed
  <2>4. \A b \in DOMAIN t.tree : t.tree[b] \in D
    BY <1>1, <1>5, <1>11 DEF Typed
  <2> QED
    BY <1>4, <2>1, <2>2, <2>3, <2>4 DEF Typed, Fields
<1>16. Families(t)
  <2>1. ASSUME NEW p \in D, NEW n \in Listed(t, p), Item(t, p, n) # None
        PROVE  Parent(t, Item(t, p, n)) = p /\ Item(t, p, n).at = Append(p.at, n)
    <3>1. CASE p \in DOMAIN s.folders /\ n \in Listed(s, p)
      <4>1. Item(t, p, n) = Item(s, p, n)
        BY <1>12, <3>1
      <4>2. /\ Item(s, p, n) \in DOMAIN s.folders /\ Parent(s, Item(s, p, n)) = p
            /\ Item(s, p, n).at = Append(p.at, n)
        BY <1>1, <2>1, <3>1, <4>1, ChildFacts
      <4> QED
        BY <1>12, <4>1, <4>2
    <3>2. CASE /\ p = f \/ p \in M
               /\ n \in Name /\ Append(p.at, n) \in DOMAIN x
               /\ Item(t, p, n) = x[Append(p.at, n)]
      <4>1. p.at \in Seq(Name)
        BY <1>1, <1>2, <3>2
      <4>2. PICK g \in M : g = Item(t, p, n) /\ g.at = Append(p.at, n)
        BY <1>2, <2>1, <3>2
      <4>3. Front(g.at) = p.at
        BY <3>2, <4>1, <4>2, AppendFacts
      <4>4. p = f => t.folders[g].parent = f
        BY <1>6, <4>3
      <4>5. CASE p \in M
        <5>1. Front(g.at) # f.at
          <6>1. Len(p.at) > Len(f.at)
            BY <1>2, <4>5
          <6> QED
            BY <1>1, <4>1, <4>3, <6>1
        <5>2. t.folders[g].parent \in M /\ t.folders[g].parent.at = p.at
          BY <1>6, <4>3, <5>1
        <5>3. t.folders[g].parent = p
          BY <1>2, <4>5, <5>2
        <5> QED
          BY <4>2, <5>3 DEF Parent
      <4> QED
        BY <3>2, <4>2, <4>4, <4>5 DEF Parent
    <3> QED
      BY <1>13, <3>1, <3>2
  <2>2. ASSUME NEW g \in D, Parent(t, g) # None
        PROVE  \E n \in Listed(t, Parent(t, g)) : Item(t, Parent(t, g), n) = g
    <3>1. CASE g \in DOMAIN s.folders
      <4>1. Parent(t, g) = Parent(s, g)
        BY <1>12, <3>1
      <4>2. Parent(s, g) \in DOMAIN s.folders
        BY <1>1, <2>2, <3>1, <4>1, ParentFacts
      <4>3. PICK n \in Listed(s, Parent(s, g)) : Item(s, Parent(s, g), n) = g
        BY <1>1, <2>2, <3>1, <4>1 DEF Struct, Families
      <4> QED
        BY <1>12, <4>1, <4>2, <4>3
    <3>2. CASE g \in M
      <4> DEFINE q == Front(g.at)
                 n == Last(g.at)
      <4>1. g.at \in Seq(Name) /\ g.at # <<>> /\ g.at \in DOMAIN x /\ x[g.at] = g
        BY <1>2, <3>2
      <4>2. n \in Name /\ g.at = Append(q, n)
        BY <4>1, FrontFacts
      <4> HIDE DEF n, q
      <4>3. q = f.at => Parent(t, g) = f
        BY <1>6, <3>2 DEF q, Parent
      <4>4. q # f.at => Parent(t, g) \in M /\ Parent(t, g).at = q
        BY <1>6, <3>2 DEF q, Parent
      <4>5. Append(Parent(t, g).at, n) \in DOMAIN x /\ x[Append(Parent(t, g).at, n)] = g
        BY <4>1, <4>2, <4>3, <4>4
      <4>6. Parent(t, g) = f \/ Parent(t, g) \in M
        BY <4>3, <4>4
      <4> QED
        BY <1>14, <4>2, <4>5, <4>6
    <3> QED
      BY <1>11, <3>1, <3>2
  <2> QED
    BY <1>4, <2>1, <2>2 DEF Families
<1>17. Paths(t)
  <2>1. ASSUME NEW b \in DOMAIN t.tree
        PROVE  t.folders[t.tree[b]].path = b
    <3>1. CASE t.tree[b] \in M /\ PathOf(s, f, t.tree[b].at) = b
      BY <1>6, <3>1
    <3>2. CASE b \in DOMAIN s.tree /\ t.tree[b] = s.tree[b]
      <4>1. s.tree[b] \in DOMAIN s.folders /\ s.folders[s.tree[b]].path = b
        BY <1>1, <3>2 DEF Struct, Typed, Paths
      <4> QED
        BY <1>12, <3>2, <4>1
    <3> QED
      BY <1>5, <3>1, <3>2
  <2>2. <<>> \in DOMAIN t.tree /\ t.tree[<<>>] = Root
    BY <1>1, <1>2, <1>5 DEF Struct, Paths
  <2>3. ASSUME NEW g \in D \ {Root}
        PROVE  /\ t.folders[g].path # <<>>
               /\ t.folders[g].parent = None => t.folders[g].path = None
    <3>1. CASE g \in DOMAIN s.folders
      BY <1>1, <1>12, <3>1 DEF Struct, Paths, Parent
    <3>2. CASE g \in M
      <4>1. t.folders[g].path # <<>>
        <5>1. t.folders[g].path = PathOf(s, f, g.at)
          BY <1>6, <3>2
        <5>2. PathOf(s, f, g.at) # <<>>
          BY <1>2, <3>2
        <5> QED
          BY <5>1, <5>2
      <4>2. f # None /\ None \notin M
        <5>1. None \notin M
          BY DEF M, Made
        <5>2. f # None
          BY <1>1, NoneIsNoFolder
        <5> QED
          BY <5>1, <5>2
      <4> QED
        BY <1>6, <3>2, <4>1, <4>2
    <3> QED
      BY <1>11, <3>1, <3>2
  <2> QED
    BY <1>4, <2>1, <2>2, <2>3 DEF Paths
<1>18. ExpandedBut(t, {})
  <2> SUFFICES ASSUME NEW g \in D, t.folders[g].expanded
               PROVE  Sub(t, g) # {}
    BY <1>4 DEF ExpandedBut
  <2>1. CASE g \in M
    BY <1>6, <2>1 DEF Sub
  <2>2. CASE g = f
    <3>1. CASE s.folders[f].expanded
      <4>1. Sub(s, f) # {}
        BY <3>1 DEF Good, ExpandedBut
      <4>2. PICK n \in Listed(s, f) : Item(s, f, n) # None
        BY <4>1 DEF Sub, Range, Listed, Item
      <4>3. n \in Listed(t, f) /\ Item(t, f, n) # None
        BY <1>12, <4>2
      <4> QED
        BY <2>2, <4>3 DEF Sub, Range, Listed, Item
    <3> QED
      BY <1>10, <2>2, <3>1 DEF Sub
  <2>3. CASE g \in DOMAIN s.folders \ {f}
    BY <1>4, <2>3 DEF Good, ExpandedBut, Sub
  <2> QED
    BY <1>11, <2>1, <2>2, <2>3
<1>19. DOMAIN s.folders \subseteq DOMAIN t.folders /\ Focus(t)
  BY <1>4, <1>11, <1>12, FocusKept DEF Good
<1>20. NotBusier(s, t)
  BY <1>4, <1>6, <1>11, <1>12 DEF NotBusier
<1>21. {PathOf(s, f, g.at) : g \in M} = {PathOf(s, f, p) : p \in A}
  BY <1>2, <1>3
<1>22. Listed(t, f) = Listed(s, f) \cup {n \in Name : Append(f.at, n) \in A \cup B}
  BY <1>1, <1>2, <1>7, <1>10 DEF Listed, y
<1> QED
  BY <1>4, <1>5, <1>15, <1>16, <1>17, <1>18, <1>19, <1>20, <1>21, <1>22 DEF Good, Struct

-----------------------------------------------------------------------------
(* The calls that add items. *)

\* After a call nothing is busy that was not, and no folder is gone.
Keeps(s, t) ==
  /\ Good(t) /\ NotBusier(s, t)
  /\ DOMAIN s.folders \subseteq DOMAIN t.folders
  /\ s.active # None => t.active # None

LEMMA KeepsTransitive ==
  ASSUME NEW s, NEW t, NEW u, Keeps(s, t), Keeps(t, u)
  PROVE  Keeps(s, u)
BY DEF Keeps, NotBusier

LEMMA ContentGrown ==
  ASSUME NEW s, Good(s), NEW f \in DOMAIN s.folders, NEW names \in SUBSET Name
  PROVE  \E A, B, x :
           /\ A \cup B = {Append(f.at, n) : n \in names \ Listed(s, f)}
           /\ NewObjects(s, f, A, B, x)
           /\ Grown(s, f, x, AddContent(s, f, names))
<1> DEFINE new == names \ Listed(s, f)
           P == {Append(f.at, n) : n \in new}
           A == P \ FilePath
           B == P \cap FilePath
           x == Objects(s, A, B)
           t == Graft(s, f, x)
<1>1. t = AddContent(s, f, names)
  BY DEF AddContent
<1>2. Struct(s) /\ f.at \in Seq(Name)
  BY NoneIsNoFolder DEF Good
<1>3. new \subseteq Name /\ \A n \in new : n \notin Listed(s, f)
  OBVIOUS
<1>4. \A n \in Name :
        /\ Append(f.at, n) \in Seq(Name)
        /\ Front(Append(f.at, n)) = f.at /\ Last(Append(f.at, n)) = n
        /\ Len(f.at) < Len(Append(f.at, n))
  BY <1>2, AppendFacts
<1>5. IsFiniteSet(P)
  <2> DEFINE F == [n \in new |-> Append(f.at, n)]
  <2>1. IsFiniteSet(new)
    BY <1>3, NameIsFinite, FS_Subset
  <2>2. DOMAIN F = new /\ P = {F[n] : n \in new}
    OBVIOUS
  <2> HIDE DEF F, P, new
  <2> QED
    BY <2>1, <2>2, FiniteImage
<1>6. A \cup B = P
  OBVIOUS
<1> HIDE DEF A, B
<1>7. \A p \in P : p \in Seq(Name) /\ Len(f.at) < Len(p) /\ Front(p) = f.at
                   /\ Last(p) \notin Listed(s, f)
  BY <1>3, <1>4
<1> HIDE DEF P, x, t
<1>8. Addable(s, f, A, B)
  <2>1. A \subseteq P /\ B \subseteq P
    BY <1>6
  <2> QED
    BY <1>5, <1>6, <1>7, <2>1 DEF Addable
<1>9. NewObjects(s, f, A, B, x)
  BY <1>2, <1>8, AddableFacts DEF x
<1>10. Grown(s, f, x, t)
  BY <1>2, <1>9, GraftShape DEF t
<1> QED
  BY <1>1, <1>6, <1>9, <1>10 DEF P

LEMMA ContentAdded ==
  ASSUME NEW s, Good(s), NEW f \in DOMAIN s.folders, NEW names \in SUBSET Name
  PROVE  /\ Keeps(s, AddContent(s, f, names)) /\ SameFocus(s, AddContent(s, f, names))
         /\ Listed(AddContent(s, f, names), f) = Listed(s, f) \cup names
<1> DEFINE new == names \ Listed(s, f)
           P == {Append(f.at, n) : n \in new}
           t == AddContent(s, f, names)
<1>1. f.at \in Seq(Name)
  BY NoneIsNoFolder DEF Good
<1> HIDE DEF t
<1>2. PICK A, B, x : A \cup B = P /\ NewObjects(s, f, A, B, x) /\ Grown(s, f, x, t)
  BY ContentGrown DEF t
<1>3. /\ Good(t) /\ NotBusier(s, t) /\ SameFocus(s, t)
      /\ DOMAIN s.folders \subseteq DOMAIN t.folders
      /\ Listed(t, f) = Listed(s, f) \cup {n \in Name : Append(f.at, n) \in A \cup B}
  BY <1>2, Grafted
<1>4. {n \in Name : Append(f.at, n) \in P} = new
  <2>1. \A n \in Name : Append(f.at, n) \in P => n \in new
    <3> SUFFICES ASSUME NEW n \in Name, NEW m \in new, Append(f.at, n) = Append(f.at, m)
                 PROVE  n = m
      OBVIOUS
    <3>1. m \in Name
      OBVIOUS
    <3> QED
      BY <1>1, <3>1, AppendFacts
  <2> QED
    BY <2>1
<1>5. Listed(t, f) = Listed(s, f) \cup names
  BY <1>2, <1>3, <1>4
<1> QED
  BY <1>3, <1>5 DEF Keeps, SameFocus, t

LEMMA AllSelected ==
  ASSUME NEW s, Good(s), NEW f \in DOMAIN s.folders, NEW names \in SUBSET Listed(s, f)
  PROVE  Keeps(s, SelectAll(s, f, names))
<1> DEFINE t == SelectAll(s, f, names)
<1>1. CASE s.active = f
  <2>1. /\ DOMAIN t = Fields /\ t.folders = s.folders /\ t.tree = s.tree
        /\ t.active = f /\ t.selected = {[of |-> f, name |-> n] : n \in names}
    BY <1>1 DEF SelectAll, Good, Struct, Typed, Fields
  <2> HIDE DEF t
  <2>2. Remarked(s, t)
    BY <2>1, Refocused DEF Good
  <2>3. Struct(t) /\ ExpandedBut(t, {}) /\ NotBusier(s, t)
    BY <2>2, RemarkedFacts DEF Good
  <2>4. f \in Id /\ Listed(s, f) \subseteq Name /\ Listed(t, f) = Listed(s, f)
    BY <2>1 DEF Good, Struct, Typed, FolderOK, Listed
  <2>5. Focus(t)
    BY <2>1, <2>4 DEF Focus
  <2> QED
    BY <1>1, <2>1, <2>3, <2>5 DEF Keeps, Good, t
<1>2. CASE s.active # f
  BY <1>2 DEF SelectAll, Keeps, NotBusier
<1> QED
  BY <1>1, <1>2

LEMMA AddedTo ==
  ASSUME NEW s, Good(s), NEW f \in DOMAIN s.folders, NEW names \in SUBSET Name
  PROVE  Keeps(s, AddTo(s, f, names))
<1> DEFINE t == AddContent(s, f, names)
<1>1. Keeps(s, t) /\ Listed(t, f) = Listed(s, f) \cup names
  BY ContentAdded
<1>2. AddTo(s, f, names) = SelectAll(t, f, names)
  BY DEF AddTo
<1> HIDE DEF t
<1>3. Good(t) /\ f \in DOMAIN t.folders /\ names \in SUBSET Listed(t, f)
  BY <1>1 DEF Keeps
<1>4. Keeps(t, SelectAll(t, f, names))
  BY <1>3, AllSelected
<1> QED
  BY <1>1, <1>2, <1>4, KeepsTransitive

LEMMA SubSeqFacts ==
  ASSUME NEW S, NEW p \in Seq(S), NEW k \in Nat, NEW j \in Nat, k <= j, j <= Len(p)
  PROVE  LET r == SubSeq(p, k + 1, j) IN
         r \in Seq(S) /\ Len(r) = j - k /\ \A i \in 1 .. j - k : r[i] = p[k + i]
<1> DEFINE m == k + 1
<1>1. m \in Int /\ j \in Int /\ (\A i \in m .. j : p[i] \in S) /\ j - m + 1 = j - k
  OBVIOUS
<1>2. (m <= j => j - m + 1 = j - k) /\ (~(m <= j) => j - k = 0)
  OBVIOUS
<1> HIDE DEF m
<1>3. /\ SubSeq(p, m, j) \in Seq(S)
      /\ Len(SubSeq(p, m, j)) = IF m <= j THEN j - m + 1 ELSE 0
      /\ \A i \in 1 .. j - m + 1 : SubSeq(p, m, j)[i] = p[m + i - 1]
  BY <1>1, SubSeqProperties
<1>4. \A i \in 1 .. j - k : m + i - 1 = k + i
  BY DEF m
<1>5. Len(SubSeq(p, m, j)) = j - k
  BY <1>1, <1>2, <1>3
<1> QED
  BY <1>1, <1>3, <1>4, <1>5 DEF m

\* A path and the part of another one after its first k names.
IsTail(S, a, p, k, j, q) ==
  /\ q \in Seq(S) /\ Len(q) = Len(a) + (j - k)
  /\ Last(q) = p[j]
  /\ j = k + 1 => Front(q) = a
  /\ j # k + 1 => Front(q) = a \o SubSeq(p, k + 1, j - 1)
  /\ SubSeq(q, Len(a) + 1, Len(q)) = SubSeq(p, k + 1, j)

LEMMA TailFacts ==
  ASSUME NEW S, NEW a \in Seq(S), NEW p \in Seq(S), NEW k \in 0 .. Len(p) - 1,
         NEW j \in k + 1 .. Len(p)
  PROVE  IsTail(S, a, p, k, j, a \o SubSeq(p, k + 1, j))
<1> DEFINE r == SubSeq(p, k + 1, j)
           q == a \o r
<1>1. Len(p) \in Nat /\ Len(a) \in Nat /\ k \in Nat /\ j \in Nat /\ k < j /\ j <= Len(p)
  OBVIOUS
<1>2. r \in Seq(S) /\ Len(r) = j - k /\ \A i \in 1 .. j - k : r[i] = p[k + i]
  BY <1>1, SubSeqFacts
<1> HIDE DEF r
<1>3. /\ q \in Seq(S) /\ Len(q) = Len(a) + (j - k)
      /\ \A i \in 1 .. Len(a) + (j - k) : q[i] = IF i <= Len(a) THEN a[i] ELSE r[i - Len(a)]
  <2>1. /\ q \in Seq(S) /\ Len(q) = Len(a) + Len(r)
        /\ \A i \in 1 .. Len(a) + Len(r) : q[i] = IF i <= Len(a) THEN a[i] ELSE r[i - Len(a)]
    BY <1>2, ConcatProperties
  <2> HIDE DEF q
  <2> QED
    BY <1>2, <2>1
<1>4. SubSeq(q, Len(a) + 1, Len(q)) = r
  <2>1. SubSeq(q, Len(a) + 1, Len(q)) = SubSeq(r, 1, Len(r))
    <3> DEFINE m == Len(a) + 1
               n == Len(q)
    <3>1. /\ m \in Len(a) + 1 .. Len(a) + Len(r) /\ n \in Len(a) + 1 .. Len(a) + Len(r)
          /\ m - Len(a) = 1 /\ n - Len(a) = Len(r)
      BY <1>1, <1>2, <1>3
    <3> HIDE DEF m, n
    <3>2. SubSeq(q, m, n) = SubSeq(r, m - Len(a), n - Len(a))
      BY <1>2, <3>1, SubSeqOfConcat2
    <3> QED
      BY <3>1, <3>2 DEF m, n
  <2> QED
    BY <1>2, <2>1, SubSeqFull
<1> HIDE DEF q
<1>5. Last(q) = p[j]
  <2>1. Last(q) = q[Len(a) + (j - k)]
    BY <1>3 DEF Last
  <2>2. q[Len(a) + (j - k)] = r[j - k]
    BY <1>1, <1>3
  <2> QED
    BY <1>1, <1>2, <2>1, <2>2
<1>6. /\ Front(q) \in Seq(S) /\ Len(Front(q)) = Len(a) + (j - k) - 1
      /\ \A i \in 1 .. Len(a) + (j - k) - 1 : Front(q)[i] = q[i]
  <2>1. q # <<>>
    BY <1>1, <1>3
  <2>2. Front(q) \in Seq(S) /\ Len(Front(q)) = Len(q) - 1
    BY <1>3, <2>1, FrontFacts
  <2>3. \A i \in 1 .. Len(q) - 1 : Front(q)[i] = q[i]
    BY <1>1, <1>3 DEF Front
  <2> QED
    BY <1>3, <2>2, <2>3
<1>7. ASSUME j = k + 1
      PROVE  Front(q) = a
  BY <1>1, <1>3, <1>6, <1>7
<1>8. ASSUME j # k + 1
      PROVE  Front(q) = a \o SubSeq(p, k + 1, j - 1)
  <2> DEFINE u == SubSeq(p, k + 1, j - 1)
  <2>1. u \in Seq(S) /\ Len(u) = j - 1 - k /\ \A i \in 1 .. j - 1 - k : u[i] = p[k + i]
    <3> DEFINE n == j - 1
    <3>1. n \in Nat /\ k <= n /\ n <= Len(p)
      BY <1>1
    <3> HIDE DEF n
    <3>2. /\ SubSeq(p, k + 1, n) \in Seq(S) /\ Len(SubSeq(p, k + 1, n)) = n - k
          /\ \A i \in 1 .. n - k : SubSeq(p, k + 1, n)[i] = p[k + i]
      BY <1>1, <3>1, SubSeqFacts
    <3> QED
      BY <3>2 DEF n
  <2> HIDE DEF u
  <2> DEFINE v == a \o u
  <2>2. /\ v \in Seq(S) /\ Len(v) = Len(a) + (j - 1 - k)
        /\ \A i \in 1 .. Len(a) + (j - 1 - k) : v[i] = IF i <= Len(a) THEN a[i] ELSE u[i - Len(a)]
    <3>1. /\ v \in Seq(S) /\ Len(v) = Len(a) + Len(u)
          /\ \A i \in 1 .. Len(a) + Len(u) : v[i] = IF i <= Len(a) THEN a[i] ELSE u[i - Len(a)]
      BY <2>1, ConcatProperties
    <3> HIDE DEF v
    <3> QED
      BY <2>1, <3>1
  <2> HIDE DEF v
  <2>3. Len(v) = Len(Front(q))
    BY <1>1, <1>6, <2>2
  <2>4. ASSUME NEW i \in 1 .. Len(v)
        PROVE  v[i] = Front(q)[i]
    <3>1. i \in 1 .. Len(a) + (j - k) - 1
      BY <1>1, <2>2
    <3>2. Front(q)[i] = IF i <= Len(a) THEN a[i] ELSE r[i - Len(a)]
      BY <1>1, <1>3, <1>6, <3>1
    <3>3. CASE i <= Len(a)
      BY <2>2, <3>2, <3>3
    <3>4. CASE ~(i <= Len(a))
      <4>1. i - Len(a) \in 1 .. j - 1 - k /\ i - Len(a) \in 1 .. j - k
        BY <1>1, <2>2, <3>4
      <4> QED
        BY <1>2, <2>1, <2>2, <3>2, <3>4, <4>1
    <3> QED
      BY <3>3, <3>4
  <2>5. v = Front(q)
    <3> DEFINE w == Front(q)
    <3>1. w \in Seq(S) /\ v \in Seq(S) /\ Len(v) = Len(w)
          /\ \A i \in 1 .. Len(v) : v[i] = w[i]
      BY <1>6, <2>2, <2>3, <2>4
    <3> HIDE DEF w
    <3>2. v = w
      BY <3>1
    <3> QED
      BY <3>2 DEF w
  <2> QED
    BY <2>5 DEF u, v
<1> QED
  BY <1>3, <1>4, <1>5, <1>7, <1>8 DEF q, r, IsTail

LEMMA ItemsDropped ==
  ASSUME NEW s, Good(s), NEW f \in DOMAIN s.folders, NEW N
  PROVE  LET t == DropItems(s, f, N) IN
         /\ Keeps(s, t)
         /\ f \in DOMAIN t.folders
         /\ Parent(t, f) = Parent(s, f) /\ t.folders[f].path = s.folders[f].path
         /\ Listed(t, f) = Listed(s, f) \ N
<1> DEFINE M == N \cap Listed(s, f)
           t == RemoveItems(s, f, M)
<1>1. t = DropItems(s, f, N)
  BY DEF DropItems
<1>2. M \in SUBSET Listed(s, f)
  OBVIOUS
<1>3. Listed(s, f) \ M = Listed(s, f) \ N
  OBVIOUS
<1> HIDE DEF M
<1>4. /\ Good(t) /\ NotBusier(s, t)
      /\ DOMAIN t.folders = DOMAIN s.folders
      /\ Parent(t, f) = Parent(s, f) /\ t.folders[f].path = s.folders[f].path
      /\ Listed(t, f) = Listed(s, f) \ M
      /\ s.active # None => t.active # None
  BY <1>2, ItemsRemoved
<1> HIDE DEF t
<1> QED
  BY <1>1, <1>3, <1>4 DEF Keeps

\* The path that a folder of the tree takes itself to have.
LEMMA PathInTree ==
  ASSUME NEW s, Struct(s), NEW f \in DOMAIN s.folders, s.folders[f].path # None,
         f = Root => s.folders[f].path = <<>>
  PROVE  PathIn(s, f) = s.folders[f].path
BY DEF PathIn, Struct, Paths

LEMMA AddedBelow ==
  ASSUME NEW s, Good(s), NEW p \in Seq(Name), NEW k \in 0 .. Len(p) - 1,
         SubSeq(p, 1, k) \in DOMAIN s.tree
  PROVE  LET t == AddBelow(s, s.tree[SubSeq(p, 1, k)], p, k) IN
         Keeps(s, t) /\ p \in DOMAIN t.tree
<1> DEFINE b == SubSeq(p, 1, k)
           f == s.tree[b]
           r == DropItems(s, f, {p[k + 1]})
           q(j) == f.at \o SubSeq(p, k + 1, j)
           A == {q(j) : j \in k + 1 .. Len(p)}
           x == Objects(r, A, {})
           t == Graft(r, f, x)
<1>1. t = AddBelow(s, f, p, k)
  BY DEF AddBelow, Missing
<1>2. Struct(s) /\ f \in DOMAIN s.folders /\ s.folders[f].path = b
  BY DEF Good, Struct, Typed, Paths
<1>3. b # None
  BY <1>2, ConstantsAssumption DEF Good, Struct, Typed
<1>4. f = Root => b = <<>>
  <2>1. s.tree[<<>>] = Root /\ s.folders[s.tree[<<>>]].path = <<>>
    BY <1>2 DEF Struct, Paths
  <2> QED
    BY <1>2, <2>1
<1> HIDE DEF b, f
<1>5. /\ Keeps(s, r) /\ f \in DOMAIN r.folders
      /\ Parent(r, f) = Parent(s, f) /\ r.folders[f].path = b
      /\ Listed(r, f) = Listed(s, f) \ {p[k + 1]}
  BY <1>2, ItemsDropped
<1> HIDE DEF r
<1>6. Good(r) /\ Struct(r) /\ f.at \in Seq(Name)
  BY <1>5, NoneIsNoFolder DEF Keeps, Good
<1>7. Len(p) \in Nat /\ k \in Nat /\ k + 1 \in k + 1 .. Len(p) /\ Len(p) \in k + 1 .. Len(p)
      /\ Len(f.at) \in Nat
  BY <1>6
<1>8. ASSUME NEW j \in k + 1 .. Len(p)
      PROVE  /\ q(j) \in Seq(Name) /\ Len(q(j)) = Len(f.at) + (j - k)
             /\ Last(q(j)) = p[j]
             /\ j = k + 1 => Front(q(j)) = f.at
             /\ j # k + 1 => Front(q(j)) = q(j - 1)
             /\ SubSeq(q(j), Len(f.at) + 1, Len(q(j))) = SubSeq(p, k + 1, j)
  <2>1. IsTail(Name, f.at, p, k, j, f.at \o SubSeq(p, k + 1, j))
    BY <1>6, TailFacts
  <2> QED
    BY <2>1 DEF IsTail
<1> HIDE DEF q
<1>9. IsFiniteSet(A)
  <2> DEFINE F == [j \in k + 1 .. Len(p) |-> q(j)]
  <2>1. DOMAIN F = k + 1 .. Len(p) /\ A = {F[j] : j \in k + 1 .. Len(p)}
    OBVIOUS
  <2>2. IsFiniteSet(k + 1 .. Len(p))
    BY <1>7, FS_Interval
  <2> HIDE DEF F, A
  <2> QED
    BY <2>1, <2>2, FiniteImage
<1>10. ASSUME NEW a \in A
       PROVE  /\ a \in Seq(Name) /\ Len(f.at) < Len(a)
              /\ Front(a) = f.at => Last(a) \notin Listed(r, f)
              /\ Front(a) # f.at => Front(a) \in A
  <2>1. PICK j \in k + 1 .. Len(p) : a = q(j)
    OBVIOUS
  <2>2. a \in Seq(Name) /\ Len(f.at) < Len(a)
    <3>1. a \in Seq(Name) /\ Len(a) = Len(f.at) + (j - k)
      BY <1>8, <2>1
    <3> QED
      BY <1>7, <3>1
  <2>3. CASE j = k + 1
    BY <1>5, <1>8, <2>1, <2>2, <2>3
  <2>4. CASE j # k + 1
    <3>1. j - 1 \in k + 1 .. Len(p)
      BY <1>7, <2>4
    <3>2. Front(a) = q(j - 1) /\ Front(a) \in A
      BY <1>8, <2>1, <2>4, <3>1
    <3>3. Len(Front(a)) = Len(f.at) + (j - 1 - k)
      BY <1>8, <3>1, <3>2
    <3>4. Len(Front(a)) # Len(f.at)
      BY <1>7, <3>1, <3>3
    <3> QED
      BY <2>2, <3>2, <3>4
  <2> QED
    BY <2>3, <2>4
<1>11. q(Len(p)) \in A
  BY <1>7
<1> HIDE DEF A
<1>12. Addable(r, f, A, {})
  <2>1. A \cup {} = A /\ A \subseteq Seq(Name) /\ {} \subseteq Seq(Name)
    BY <1>10
  <2> QED
    BY <1>9, <1>10, <2>1 DEF Addable
<1> HIDE DEF x, t
<1>13. NewObjects(r, f, A, {}, x)
  BY <1>5, <1>6, <1>12, AddableFacts DEF x
<1>14. Grown(r, f, x, t)
  BY <1>5, <1>6, <1>13, GraftShape DEF t
<1>15. /\ Good(t) /\ NotBusier(r, t) /\ SameFocus(r, t) /\ DOMAIN r.folders \subseteq DOMAIN t.folders
       /\ DOMAIN t.tree = DOMAIN r.tree \cup {PathOf(r, f, a) : a \in A}
  BY <1>5, <1>6, <1>13, <1>14, Grafted
<1>16. Keeps(s, t)
  <2>1. Keeps(r, t)
    BY <1>15 DEF Keeps, SameFocus
  <2> QED
    BY <1>5, <2>1, KeepsTransitive
<1>17. PathOf(r, f, q(Len(p))) = p
  <2>1. PathIn(r, f) = b
    <3>1. r.folders[f].path # None /\ (f = Root => r.folders[f].path = <<>>)
      BY <1>3, <1>4, <1>5
    <3> QED
      BY <1>5, <1>6, <3>1, PathInTree
  <2>2. PathOf(r, f, q(Len(p))) = b \o SubSeq(p, k + 1, Len(p))
    BY <1>7, <1>8, <2>1 DEF PathOf
  <2>3. b \o SubSeq(p, k + 1, Len(p)) = SubSeq(p, 1, Len(p))
    <3>1. 1 \in 1 .. Len(p) + 1 /\ k \in 1 - 1 .. Len(p) /\ Len(p) \in k .. Len(p)
      BY <1>7
    <3> QED
      BY <3>1, ConcatAdjacentSubSeq DEF b
  <2> QED
    BY <2>2, <2>3, SubSeqFull
<1>18. p \in DOMAIN t.tree
  BY <1>11, <1>15, <1>17
<1> QED
  BY <1>1, <1>16, <1>18 DEF f, b

LEMMA FolderAdded ==
  ASSUME NEW s, Good(s), NEW p \in Seq(Name)
  PROVE  Keeps(s, AddFolder(s, p)) /\ p \in DOMAIN AddFolder(s, p).tree
<1>1. CASE p \in DOMAIN s.tree
  BY <1>1 DEF AddFolder, Keeps, NotBusier
<1>2. CASE p \notin DOMAIN s.tree
  <2> DEFINE k == LastKnown(s, p)
             T == {j \in 0 .. Len(p) : SubSeq(p, 1, j) \in DOMAIN s.tree}
             known(j) == /\ SubSeq(p, 1, j) \in DOMAIN s.tree
                         /\ \A i \in j + 1 .. Len(p) : SubSeq(p, 1, i) \notin DOMAIN s.tree
  <2>1. Len(p) \in Nat
    OBVIOUS
  <2>2. T # {}
    <3>1. SubSeq(p, 1, 0) = <<>>
      BY SubSeqEmpty
    <3>2. <<>> \in DOMAIN s.tree
      BY DEF Good, Struct, Paths
    <3>3. 0 \in 0 .. Len(p)
      BY <2>1
    <3>4. SubSeq(p, 1, 0) \in DOMAIN s.tree
      BY <3>1, <3>2, Zenon
    <3>5. 0 \in T
      BY <3>3, <3>4, Zenon
    <3> QED
      BY <3>5
  <2>3. PICK j \in T : \A i \in T : i <= j
    <3> HIDE DEF T
    <3>1. T \in SUBSET (0 .. Len(p))
      BY DEF T
    <3> QED
      BY <2>1, <2>2, <3>1, Greatest
  <2>4. j \in 0 .. Len(p) /\ known(j)
    <3>1. ASSUME NEW i \in j + 1 .. Len(p), SubSeq(p, 1, i) \in DOMAIN s.tree
          PROVE  FALSE
      <4>1. i \in T /\ i > j
        BY <2>1, <3>1
      <4> QED
        BY <2>1, <2>3, <4>1
    <3> QED
      BY <3>1
  <2>5. k = CHOOSE i \in 0 .. Len(p) : known(i)
    BY DEF LastKnown
  <2> HIDE DEF k
  <2>6. k \in 0 .. Len(p) /\ known(k)
    <3> HIDE DEF known
    <3> QED
      BY <2>4, <2>5, SMTT(40)
  <2>7. k # Len(p)
    <3>1. SubSeq(p, 1, Len(p)) = p
      BY SubSeqFull
    <3> QED
      BY <1>2, <2>6, <3>1
  <2>8. k \in 0 .. Len(p) - 1 /\ SubSeq(p, 1, k) \in DOMAIN s.tree
    BY <2>1, <2>6, <2>7
  <2>9. AddFolder(s, p) = AddBelow(s, s.tree[SubSeq(p, 1, k)], p, k)
    BY <1>2 DEF AddFolder, k
  <2> QED
    BY <2>8, <2>9, AddedBelow
<1> QED
  BY <1>1, <1>2

-----------------------------------------------------------------------------
(* The end of a request. *)

LEMMA RemarkedKeeps ==
  ASSUME NEW s, NEW t, Good(s), Remarked(s, t), SameFocus(s, t)
  PROVE  Keeps(s, t) /\ \A f \in DOMAIN s.folders : Sub(t, f) = Sub(s, f)
<1>1. Good(t)
  BY GoodRemarked
<1>2. NotBusier(s, t) /\ DOMAIN t.folders = DOMAIN s.folders
      /\ \A f \in DOMAIN s.folders : Sub(t, f) = Sub(s, f)
  BY RemarkedFacts DEF Good
<1> QED
  BY <1>1, <1>2 DEF Keeps, SameFocus

LEMMA RemovedProcessed ==
  ASSUME NEW s, Good(s), NEW path, NEW removed
  PROVE  Keeps(s, ProcessRemoved(s, path, removed))
<1>1. CASE path \in DOMAIN s.tree
  <2>1. s.tree[path] \in DOMAIN s.folders
    BY <1>1 DEF Good, Struct, Typed
  <2> QED
    BY <1>1, <2>1, ItemsDropped DEF ProcessRemoved
<1>2. CASE path \notin DOMAIN s.tree
  BY <1>2 DEF ProcessRemoved, Keeps, NotBusier
<1> QED
  BY <1>1, <1>2

LEMMA AddedProcessed ==
  ASSUME NEW s, Good(s), NEW path, NEW added \in SUBSET Name,
         added = {} \/ path \in Seq(Name)
  PROVE  Keeps(s, ProcessAdded(s, path, added))
<1>1. CASE added = {}
  BY <1>1 DEF ProcessAdded, Keeps, NotBusier
<1>2. CASE added # {}
  <2> DEFINE t == AddFolder(s, path)
  <2>1. Keeps(s, t) /\ path \in DOMAIN t.tree
    BY <1>2, FolderAdded
  <2>2. ProcessAdded(s, path, added) = AddTo(t, t.tree[path], added)
    BY <1>2 DEF ProcessAdded, AddAt
  <2> HIDE DEF t
  <2>3. Good(t) /\ t.tree[path] \in DOMAIN t.folders
    BY <2>1 DEF Keeps, Good, Struct, Typed
  <2>4. Keeps(t, AddTo(t, t.tree[path], added))
    BY <2>3, AddedTo
  <2> QED
    BY <2>1, <2>2, <2>4, KeepsTransitive
<1> QED
  BY <1>1, <1>2

LEMMA ContentSet ==
  ASSUME NEW s, Good(s), NEW f \in DOMAIN s.folders, NEW content \in SUBSET Name
  PROVE  Keeps(s, SetContent(s, f, content))
<1> DEFINE a == RemoveItems(s, f, Outdated(s, f, content))
           b == AddContent(a, f, content)
           c == SetLoaded(b, f)
           t == UpdateSubtrees(c, {f})
<1>1. t = SetContent(s, f, content)
  BY DEF SetContent
<1>2. Keeps(s, a) /\ f \in DOMAIN a.folders
  <2>1. Outdated(s, f, content) \in SUBSET Listed(s, f)
    BY DEF Outdated
  <2> QED
    BY <2>1, ItemsRemoved DEF Keeps
<1> HIDE DEF a, b, c, t
<1>3. Keeps(a, b) /\ f \in DOMAIN b.folders
  BY <1>2, ContentAdded DEF Keeps, b
<1>4. Keeps(b, c) /\ f \in DOMAIN c.folders
  <2>1. Good(b)
    BY <1>3 DEF Keeps
  <2>2. Remarked(b, c) /\ SameFocus(b, c)
    BY <1>3, <2>1, LoadedSet DEF c
  <2>3. Keeps(b, c)
    BY <2>1, <2>2, RemarkedKeeps
  <2> QED
    BY <1>3, <2>3 DEF Keeps
<1>5. Keeps(c, t)
  <2>1. Good(c) /\ Struct(c) /\ {f} \in SUBSET DOMAIN c.folders
    BY <1>4 DEF Keeps, Good
  <2>2. Remarked(c, t) /\ SameFocus(c, t)
    BY <2>1, SubtreesUpdated DEF t
  <2> QED
    BY <2>1, <2>2, RemarkedKeeps
<1> QED
  BY <1>1, <1>2, <1>3, <1>4, <1>5, KeepsTransitive

LEMMA LoadingEnded ==
  ASSUME NEW s, Good(s), NEW f \in DOMAIN s.folders
  PROVE  Keeps(s, EndLoading(s, f)) /\ ~EndLoading(s, f).folders[f].loading
<1>1. FolderOK(s.folders[f], DOMAIN s.folders)
  BY DEF Good, Struct, Typed
<1>2. CASE ~s.folders[f].loading
  BY <1>2 DEF EndLoading, Keeps, NotBusier
<1>3. CASE s.folders[f].loading
  <2> DEFINE x == [s.folders[f] EXCEPT !.loading = FALSE, !.busy = FALSE]
             t == [s EXCEPT !.folders[f] = x]
  <2>1. t = EndLoading(s, f)
    BY <1>3 DEF EndLoading, Good, Struct, Typed
  <2>2. /\ FolderOK(x, DOMAIN s.folders) /\ x.expanded = s.folders[f].expanded
        /\ x.parent = s.folders[f].parent /\ x.path = s.folders[f].path
        /\ x.items = s.folders[f].items
        /\ x.busy = FALSE /\ x.loading = FALSE
    BY <1>1 DEF FolderOK
  <2> HIDE DEF x
  <2>3. /\ Alike(s, t) /\ SameFocus(s, t) /\ t.folders[f] = x
        /\ \A g \in DOMAIN s.folders \ {f} : t.folders[g] = s.folders[g]
    BY <2>2, MarkedFacts DEF Good
  <2> HIDE DEF t
  <2>4. Struct(t) /\ \A g \in DOMAIN s.folders : Sub(t, g) = Sub(s, g) /\ Listed(t, g) = Listed(s, g)
    BY <2>3, AlikeFacts DEF Good
  <2>5. DOMAIN t.folders = DOMAIN s.folders
    BY <2>3 DEF Alike
  <2>6. ExpandedBut(t, {})
    BY <2>2, <2>3, <2>4, <2>5 DEF Good, ExpandedBut
  <2>7. Focus(t)
    BY <2>3, <2>4, <2>5, FocusKept DEF Good
  <2>8. NotBusier(s, t)
    BY <2>2, <2>3, <2>5 DEF NotBusier
  <2> QED
    BY <2>1, <2>2, <2>3, <2>4, <2>5, <2>6, <2>7, <2>8 DEF Good, Keeps, SameFocus
<1> QED
  BY <1>2, <1>3

LEMMA LoadCompleted ==
  ASSUME NEW s, Good(s), NEW f \in DOMAIN s.folders, NEW content \in (SUBSET Name) \cup {None}
  PROVE  LET t == LoadComplete(s, f, content) IN
         Keeps(s, t) /\ ~t.folders[f].loading
<1> DEFINE a == IF content = None THEN s ELSE SetContent(s, f, content)
           b == EndLoading(a, f)
           t == ExpandLoaded(b, f)
<1>1. t = LoadComplete(s, f, content)
  BY DEF LoadComplete
<1>2. Keeps(s, a)
  <2>1. CASE content = None
    BY <2>1 DEF Keeps, NotBusier
  <2>2. CASE content # None
    <3>1. Keeps(s, SetContent(s, f, content))
      BY <2>2, ContentSet
    <3> QED
      BY <2>2, <3>1
  <2> QED
    BY <2>1, <2>2
<1> HIDE DEF a, b, t
<1>3. f \in DOMAIN a.folders /\ Good(a)
  BY <1>2 DEF Keeps
<1>4. Keeps(a, b) /\ ~b.folders[f].loading
  BY <1>3, LoadingEnded DEF b
<1>5. f \in DOMAIN b.folders /\ Good(b)
  BY <1>3, <1>4 DEF Keeps
<1>6. Keeps(b, t)
  <2>1. CASE Sub(b, f) = {}
    BY <1>5, <2>1 DEF ExpandLoaded, Keeps, NotBusier, t
  <2>2. CASE Sub(b, f) # {}
    <3>1. t = SetExpanded(b, f, TRUE)
      BY <2>2 DEF ExpandLoaded, t
    <3>2. Remarked(b, t) /\ SameFocus(b, t)
      BY <1>5, <2>2, <3>1, ExpandedSet
    <3> QED
      BY <1>5, <3>2, RemarkedKeeps
  <2> QED
    BY <2>1, <2>2
<1>7. ~t.folders[f].loading
  <2>1. f \in DOMAIN t.folders
    BY <1>5, <1>6 DEF Keeps
  <2> QED
    BY <1>4, <1>6, <2>1 DEF Keeps, NotBusier
<1> QED
  BY <1>1, <1>2, <1>4, <1>6, <1>7, KeepsTransitive

LEMMA Completed ==
  ASSUME NEW s, Good(s), NEW r, r.folder \in DOMAIN s.folders,
         NEW content \in (SUBSET Name) \cup {None}
  PROVE  LET t == Complete(s, r, content) IN
         /\ Keeps(s, t)
         /\ ~t.folders[r.folder].busy
         /\ r.op = "browse" => ~t.folders[r.folder].loading
<1> DEFINE f == r.folder
           a == SetBusy(s, f, FALSE)
           t == Complete(s, r, content)
<1>1. /\ Alike(s, a) /\ SameFocus(s, a) /\ Good(a) /\ a.folders[f].busy = FALSE
      /\ a.folders[f].loading = s.folders[f].loading
      /\ \A g \in DOMAIN s.folders \ {f} : a.folders[g] = s.folders[g]
  <2> HIDE DEF f
  <2>1. f \in DOMAIN s.folders /\ Struct(s)
    BY DEF f, Good
  <2>2. IsBusySet(s, f, FALSE, a)
    BY <2>1, BusySet
  <2> HIDE DEF a
  <2> QED
    BY <2>2 DEF IsBusySet
<1> HIDE DEF f, a
<1>2. DOMAIN a.folders = DOMAIN s.folders /\ f \in DOMAIN a.folders
  BY <1>1 DEF Alike, f
<1>3. Keeps(s, a)
  BY <1>1, <1>2 DEF Keeps, NotBusier, SameFocus
<1>4. CASE r.op # "browse"
  BY <1>1, <1>3, <1>4 DEF Complete, f, a
<1>5. CASE r.op = "browse"
  <2>1. t = LoadComplete(a, f, content)
    BY <1>5 DEF Complete, f, a
  <2> HIDE DEF t
  <2>2. Keeps(a, t) /\ ~t.folders[f].loading
    BY <1>1, <1>2, <2>1, LoadCompleted
  <2>3. ~t.folders[f].busy
    <3>1. f \in DOMAIN t.folders
      BY <1>2, <2>2 DEF Keeps
    <3> QED
      BY <1>1, <2>2, <3>1 DEF Keeps, NotBusier
  <2> QED
    BY <1>3, <2>2, <2>3, KeepsTransitive DEF t, f
<1> QED
  BY <1>4, <1>5

-----------------------------------------------------------------------------
(* What is left of an event. *)

LEMMA LinkedFacts ==
  ASSUME NEW s, Struct(s), s.active \in DOMAIN s.folders, NEW rs,
         \A k \in Slot : rs[k] # None => rs[k].folder \in DOMAIN s.folders
  PROVE  LET L == Linked(s, rs)
             t == Collect(s, rs)
         IN
         /\ L \subseteq DOMAIN s.folders /\ s.active \in L
         /\ \A b \in DOMAIN s.tree : s.tree[b] \in L
         /\ \A k \in Slot : rs[k] # None => rs[k].folder \in L
         /\ \A g \in L : Sub(s, g) \subseteq L /\ s.folders[g].parent \in L \cup {None}
         /\ DOMAIN t = Fields /\ t.tree = s.tree
         /\ t.active = s.active /\ t.selected = s.selected
         /\ DOMAIN t.folders = L /\ \A g \in L : t.folders[g] = s.folders[g]
<1> DEFINE H == Held(s, rs)
           L == Linked(s, rs)
           next == [g \in DOMAIN s.folders |->
                      Sub(s, g) \cup ({s.folders[g].parent} \ {None})]
           t == Collect(s, rs)
<1>1. Typed(s)
  BY DEF Struct
<1>2. /\ \A b \in DOMAIN s.tree : s.tree[b] \in H
      /\ s.active \in H
      /\ \A k \in Slot : rs[k] # None => rs[k].folder \in H
  BY NoneIsNoFolder DEF Held, Range
<1>3. H \subseteq DOMAIN s.folders
  BY <1>1 DEF Held, Range, Typed
<1>4. DOMAIN next = DOMAIN s.folders
      /\ \A g \in DOMAIN next : next[g] = Sub(s, g) \cup ({s.folders[g].parent} \ {None})
  OBVIOUS
<1>5. \A g \in DOMAIN s.folders : Sub(s, g) \cup ({s.folders[g].parent} \ {None})
        \subseteq DOMAIN s.folders
  BY <1>1, SubFacts DEF Typed, FolderOK
<1>6. L = Reach(next, H)
  BY DEF Linked
<1> HIDE DEF H, L, next
<1>7. /\ H \subseteq L /\ L \subseteq DOMAIN s.folders
      /\ \A g \in L : next[g] \subseteq L
  BY <1>3, <1>4, <1>5, <1>6, ReachFacts
<1>8. \A g \in L : /\ Sub(s, g) \subseteq L
                   /\ s.folders[g].parent \in L \cup {None}
  BY <1>4, <1>7
<1>9. /\ DOMAIN t = Fields /\ t.tree = s.tree
      /\ t.active = s.active /\ t.selected = s.selected
      /\ t.folders = [g \in L |-> s.folders[g]]
  BY <1>1, <1>7 DEF Collect, L, Restrict, Typed, Fields
<1> HIDE DEF t
<1>10. DOMAIN t.folders = L /\ \A g \in L : t.folders[g] = s.folders[g]
  BY <1>9
<1> QED
  BY <1>2, <1>7, <1>8, <1>9, <1>10 DEF L, t

LEMMA Collected ==
  ASSUME NEW s, NEW rs, Valid(s, rs)
  PROVE  Valid(Collect(s, rs), rs)
<1> DEFINE L == Linked(s, rs)
           t == Collect(s, rs)
<1>1. Good(s) /\ Struct(s) /\ Typed(s) /\ s.active \in DOMAIN s.folders
  BY DEF Valid, Good, Struct, Focus
<1>2. /\ L \subseteq DOMAIN s.folders /\ s.active \in L
      /\ \A b \in DOMAIN s.tree : s.tree[b] \in L
      /\ \A k \in Slot : rs[k] # None => rs[k].folder \in L
      /\ \A g \in L : Sub(s, g) \subseteq L /\ s.folders[g].parent \in L \cup {None}
      /\ DOMAIN t = Fields /\ t.tree = s.tree
      /\ t.active = s.active /\ t.selected = s.selected
      /\ DOMAIN t.folders = L /\ \A g \in L : t.folders[g] = s.folders[g]
  BY <1>1, LinkedFacts DEF Valid
<1> HIDE DEF L, t
<1>3. Typed(t)
  <2>1. ASSUME NEW g \in L
        PROVE  FolderOK(s.folders[g], L)
    <3>1. FolderOK(s.folders[g], DOMAIN s.folders)
      BY <1>1, <1>2 DEF Typed
    <3>2. Range(s.folders[g].items) \subseteq L \cup {None}
      BY <1>2 DEF Sub
    <3> QED
      BY <1>2, <3>1, <3>2 DEF FolderOK
  <2>2. IsFiniteSet(L) /\ L \subseteq Id
    BY <1>1, <1>2, FS_Subset DEF Typed
  <2>3. DOMAIN s.tree \subseteq Path /\ \A b \in DOMAIN s.tree : s.tree[b] \in L
    BY <1>1, <1>2 DEF Typed
  <2> QED
    BY <1>2, <2>1, <2>2, <2>3 DEF Typed, Fields
<1>4. \A g \in L :
         /\ Parent(t, g) = Parent(s, g) /\ Listed(t, g) = Listed(s, g)
         /\ Sub(t, g) = Sub(s, g) /\ \A n : Item(t, g, n) = Item(s, g, n)
  BY <1>2 DEF Parent, Listed, Sub, Item
<1>5. Families(t)
  <2>1. ASSUME NEW p \in L, NEW n \in Listed(t, p), Item(t, p, n) # None
        PROVE  Parent(t, Item(t, p, n)) = p /\ Item(t, p, n).at = Append(p.at, n)
    <3>1. /\ Item(s, p, n) \in Sub(s, p) /\ Parent(s, Item(s, p, n)) = p
          /\ Item(s, p, n).at = Append(p.at, n)
      BY <1>1, <1>2, <1>4, <2>1, ChildFacts
    <3> QED
      BY <1>2, <1>4, <3>1
  <2>2. ASSUME NEW g \in L, Parent(t, g) # None
        PROVE  \E n \in Listed(t, Parent(t, g)) : Item(t, Parent(t, g), n) = g
    <3>1. Parent(s, g) \in L /\ Parent(s, g) # None
      BY <1>2, <1>4, <2>2 DEF Parent
    <3>2. \E n \in Listed(s, Parent(s, g)) : Item(s, Parent(s, g), n) = g
      BY <1>1, <1>2, <3>1 DEF Struct, Families
    <3> QED
      BY <1>4, <3>1, <3>2
  <2> QED
    BY <1>2, <2>1, <2>2 DEF Families
<1>6. Paths(t)
  BY <1>1, <1>2 DEF Struct, Paths
<1>7. ExpandedBut(t, {})
  BY <1>1, <1>2, <1>4 DEF Good, ExpandedBut
<1>8. Focus(t)
  BY <1>1, <1>2, <1>4 DEF Good, Focus
<1>9. Good(t)
  BY <1>3, <1>5, <1>6, <1>7, <1>8 DEF Good, Struct
<1>10. Pending(t, rs)
  BY <1>2 DEF Valid, Pending
<1>11. \A k \in Slot : rs[k] # None => rs[k].folder \in DOMAIN t.folders
  BY <1>2
<1> QED
  BY <1>2, <1>9, <1>10, <1>11 DEF Valid, t

LEMMA GetPathType ==
  ASSUME NEW s, Struct(s), NEW f \in DOMAIN s.folders
  PROVE  GetPath(s, f) \in Path \cup {None}
<1> DEFINE P == {g \in Above(s, f) : s.folders[g].path # None}
           high(h) == \A i \in P : Len(i.at) <= Len(h.at)
           g == CHOOSE h \in P : high(h)
<1>1. CASE P = {}
  BY <1>1 DEF GetPath
<1>2. CASE P # {}
  <2>1. f.at \in Seq(Name) /\ Len(f.at) \in Nat
    BY NoneIsNoFolder
  <2>2. \A h \in P : h \in DOMAIN s.folders /\ h.at \in Seq(Name) /\ Len(h.at) \in 0 .. Len(f.at)
    <3>1. \A h \in P : h \in DOMAIN s.folders /\ IsPrefix(h.at, f.at)
      BY AboveFacts
    <3>2. \A h \in P : h.at \in Seq(Name)
      BY <3>1, NoneIsNoFolder
    <3> QED
      BY <2>1, <3>1, <3>2 DEF IsPrefix
  <2> DEFINE T == {Len(h.at) : h \in P}
  <2>3. T \in SUBSET (0 .. Len(f.at)) /\ T # {}
    BY <1>2, <2>2
  <2>4. PICK top \in T : \A l \in T : l <= top
    <3> HIDE DEF T
    <3> QED
      BY <2>1, <2>3, Greatest
  <2>5. \E h \in P : high(h)
    BY <2>4, SMTT(40)
  <2>6. g \in P
    <3> HIDE DEF P, high
    <3> QED
      BY <2>5
  <2>7. GetPath(s, f) = s.folders[g].path \o SubSeq(f.at, Len(g.at) + 1, Len(f.at))
    BY <1>2, Zenon DEF GetPath
  <2>8. s.folders[g].path \in Path
    BY <2>2, <2>6 DEF Struct, Typed, FolderOK
  <2> HIDE DEF g
  <2> DEFINE k == Len(g.at)
             j == Len(f.at)
  <2>9. k \in Nat /\ j \in Nat /\ k <= j
    BY <2>1, <2>2, <2>6
  <2>10. SubSeq(f.at, k + 1, j) \in Seq(Name)
    <3>1. j <= Len(f.at)
      BY <2>9
    <3> HIDE DEF k, j
    <3> QED
      BY <2>1, <2>9, <3>1, SubSeqFacts
  <2>11. SubSeq(f.at, k + 1, j) \in Path
    BY <2>10, NamesArePaths
  <2> QED
    <3>1. \A a \in Path, b \in Path : a \o b \in Path
      BY DEF Path
    <3> QED
      BY <2>7, <2>8, <2>11, <3>1
<1> QED
  BY <1>1, <1>2

LEMMA Settled ==
  ASSUME NEW s, Valid(s, requests), Settle(s)
  PROVE  /\ Valid(ui, requests)'
         /\ Answered(requests) => Answered(requests)'
<1>1. ui' = Collect(s, requests) /\ requests' = requests
  BY DEF Settle, End
<1>2. Valid(Collect(s, requests), requests)
  BY Collected
<1> QED
  BY <1>1, <1>2

\* A request is made by a folder that may be busy on that account.
LEMMA Sent ==
  ASSUME NEW s, Good(s), s.active # None,
         DOMAIN s.folders = DOMAIN ui.folders, Valid(ui, requests),
         NEW f \in DOMAIN s.folders, NEW op \in {"browse", "delete", "newfolder", "upload"},
         \A g \in DOMAIN s.folders \ {f} :
           s.folders[g].busy = ui.folders[g].busy /\ s.folders[g].loading = ui.folders[g].loading,
         s.folders[f].loading => op = "browse" \/ ui.folders[f].loading,
         NEW on \in SUBSET Name, Answered(requests), sent \in 0 .. MaxSent,
         Send(s, op, f, on)
  PROVE  /\ Valid(ui, requests)' /\ Answered(requests)'
         /\ sent' \in 0 .. MaxSent
         /\ server' = server /\ foreign' = foreign
<1> DEFINE k == CHOOSE l \in Free(requests) : \A m \in Free(requests) : l <= m
           r == [op |-> op, folder |-> f, path |-> GetPath(s, f), on |-> on, answer |-> None]
           t == SetBusy(s, f, TRUE)
           rs == [requests EXCEPT ![k] = r]
<1>1. /\ ui' = Collect(t, rs) /\ requests' = rs
      /\ Free(requests) # {} /\ sent < MaxSent /\ sent' = sent + 1
      /\ server' = server /\ foreign' = foreign
  BY DEF Send, End
<1>2. k \in Slot /\ requests[k] = None
  <2>1. Free(requests) \in SUBSET Nat /\ Free(requests) \subseteq Slot
    BY DEF Free, Slot
  <2>2. PICK l \in Free(requests) : \A m \in Free(requests) : l <= m
    BY <1>1, <2>1, Least
  <2>3. k \in Free(requests)
    BY <2>2
  <2> HIDE DEF k
  <2> QED
    BY <2>3 DEF Free
<1>3. r \in Request
  <2>1. GetPath(s, f) \in Path \cup {None}
    BY GetPathType DEF Good
  <2>2. f \in Id
    BY DEF Good, Struct, Typed
  <2> QED
    BY <2>1, <2>2 DEF Request
<1>4. r # None /\ r.folder = f /\ r.op = op /\ r.answer = None
  BY <1>3, ConstantsAssumption
<1> HIDE DEF k, r
<1>5. /\ rs \in [Slot -> Request \cup {None}] /\ rs[k] = r
      /\ \A l \in Slot \ {k} : rs[l] = requests[l]
  BY <1>2, <1>3 DEF Valid
<1> HIDE DEF rs, t
<1>6. /\ Alike(s, t) /\ SameFocus(s, t) /\ Good(t)
      /\ t.folders[f].loading = s.folders[f].loading
      /\ \A g \in DOMAIN s.folders \ {f} : t.folders[g] = s.folders[g]
  <2>1. IsBusySet(s, f, TRUE, t)
    BY BusySet DEF t, Good
  <2> QED
    BY <2>1 DEF IsBusySet
<1>7. DOMAIN t.folders = DOMAIN s.folders
  BY <1>6 DEF Alike
<1>8. \A l \in Slot : rs[l] # None => rs[l].folder \in DOMAIN t.folders
  BY <1>4, <1>5, <1>7 DEF Valid
<1>9. \A l \in Slot : requests[l] # None => rs[l] = requests[l]
  BY <1>2, <1>5
<1>10. Pending(t, rs)
  <2> SUFFICES ASSUME NEW g \in DOMAIN t.folders
               PROVE  /\ t.folders[g].busy => \E l \in Slot : rs[l] # None /\ rs[l].folder = g
                      /\ t.folders[g].loading =>
                           \E l \in Slot : rs[l] # None /\ rs[l].folder = g /\ rs[l].op = "browse"
    BY DEF Pending
  <2>1. /\ ui.folders[g].busy => \E l \in Slot : rs[l] # None /\ rs[l].folder = g
        /\ ui.folders[g].loading =>
             \E l \in Slot : rs[l] # None /\ rs[l].folder = g /\ rs[l].op = "browse"
    BY <1>7, <1>9 DEF Valid, Pending
  <2>2. CASE g = f
    BY <1>2, <1>4, <1>5, <1>6, <2>1, <2>2
  <2>3. CASE g # f
    BY <1>6, <1>7, <2>1, <2>3
  <2> QED
    BY <2>2, <2>3
<1>11. Valid(t, rs)
  BY <1>5, <1>6, <1>8, <1>10 DEF Valid, SameFocus
<1>12. Valid(ui, requests)'
  <2>1. Valid(Collect(t, rs), rs)
    BY <1>11, Collected
  <2> QED
    BY <1>1, <2>1 DEF t, rs
<1>13. Answered(requests)'
  <2>1. Answered(rs)
    BY <1>4, <1>5 DEF Answered
  <2> QED
    BY <1>1, <2>1 DEF rs
<1>14. sent' \in 0 .. MaxSent
  BY <1>1, ConstantsAssumption
<1> QED
  BY <1>1, <1>12, <1>13, <1>14

LEMMA LoadingStarted ==
  ASSUME NEW s, Good(s), NEW f \in DOMAIN s.folders
  PROVE  LET t == StartLoading(s, f) IN
         /\ Good(t) /\ t.active = s.active
         /\ DOMAIN t.folders = DOMAIN s.folders
         /\ t.folders[f].loading
         /\ \A g \in DOMAIN s.folders \ {f} : t.folders[g] = s.folders[g]
<1> DEFINE x == [s.folders[f] EXCEPT !.loading = TRUE, !.busy = TRUE]
           S == IF s.active = f THEN {} ELSE s.selected
           r == [s EXCEPT !.selected = S]
           t == [r EXCEPT !.folders[f] = x]
<1>1. t = StartLoading(s, f)
  BY DEF StartLoading, Good, Struct, Typed
<1>2. FolderOK(s.folders[f], DOMAIN s.folders)
  BY DEF Good, Struct, Typed
<1>3. /\ FolderOK(x, DOMAIN s.folders) /\ x.expanded = s.folders[f].expanded
      /\ x.parent = s.folders[f].parent /\ x.path = s.folders[f].path
      /\ x.items = s.folders[f].items
      /\ x.busy = TRUE /\ x.loading = TRUE
  BY <1>2 DEF FolderOK
<1>4. /\ DOMAIN r = Fields /\ r.folders = s.folders /\ r.tree = s.tree
      /\ r.active = s.active /\ r.selected = S /\ S \subseteq s.selected
  BY DEF Good, Struct, Typed, Fields
<1> HIDE DEF x, r, S
<1>5. Struct(r) /\ ExpandedBut(r, {}) /\ Focus(r)
  <2>1. Remarked(s, r)
    BY <1>4, Refocused DEF Good
  <2>2. Struct(r) /\ ExpandedBut(r, {})
    BY <2>1, RemarkedFacts DEF Good
  <2>3. Focus(r)
    BY <1>4 DEF Good, Focus, Listed
  <2> QED
    BY <2>2, <2>3
<1>6. /\ Alike(r, t) /\ SameFocus(r, t) /\ t.folders[f] = x
      /\ \A g \in DOMAIN s.folders \ {f} : t.folders[g] = s.folders[g]
  BY <1>3, <1>4, <1>5, MarkedFacts
<1> HIDE DEF t
<1>7. Struct(t) /\ \A g \in DOMAIN s.folders : Sub(t, g) = Sub(r, g) /\ Listed(t, g) = Listed(r, g)
  BY <1>4, <1>5, <1>6, AlikeFacts
<1>8. DOMAIN t.folders = DOMAIN s.folders
  BY <1>4, <1>6 DEF Alike
<1>9. ExpandedBut(t, {})
  BY <1>3, <1>4, <1>5, <1>6, <1>7, <1>8 DEF ExpandedBut
<1>10. Focus(t)
  BY <1>4, <1>5, <1>6, <1>7, <1>8, FocusKept
<1> QED
  BY <1>1, <1>3, <1>4, <1>6, <1>7, <1>8, <1>9, <1>10 DEF Good, SameFocus

-----------------------------------------------------------------------------
(* The steps. *)

LEMMA LoadSent ==
  ASSUME NEW s, Good(s), s.active # None,
         DOMAIN s.folders = DOMAIN ui.folders, Valid(ui, requests),
         \A g \in DOMAIN s.folders :
           s.folders[g].busy = ui.folders[g].busy /\ s.folders[g].loading = ui.folders[g].loading,
         NEW f \in DOMAIN s.folders,
         Answered(requests), sent \in 0 .. MaxSent, Load(s, f)
  PROVE  /\ Valid(ui, requests)' /\ Answered(requests)'
         /\ sent' \in 0 .. MaxSent
         /\ server' = server /\ foreign' = foreign
<1> DEFINE t == StartLoading(s, f)
           r == IF s.folders[f].loading THEN s ELSE t
<1>1. Send(r, "browse", f, {})
  BY DEF Load
<1>2. /\ Good(t) /\ t.active = s.active
      /\ DOMAIN t.folders = DOMAIN s.folders
      /\ \A g \in DOMAIN s.folders \ {f} : t.folders[g] = s.folders[g]
  BY LoadingStarted
<1> HIDE DEF t
<1>3. /\ Good(r) /\ r.active = s.active /\ DOMAIN r.folders = DOMAIN s.folders
      /\ \A g \in DOMAIN s.folders \ {f} : r.folders[g] = s.folders[g]
  BY <1>2
<1> HIDE DEF r
<1>4. /\ f \in DOMAIN r.folders /\ {} \in SUBSET Name
      /\ "browse" \in {"browse", "delete", "newfolder", "upload"}
      /\ \A g \in DOMAIN r.folders \ {f} :
           r.folders[g].busy = ui.folders[g].busy /\ r.folders[g].loading = ui.folders[g].loading
  BY <1>3
<1> QED
  BY <1>1, <1>3, <1>4, Sent

\* What does not change the folders, or makes no more of them busy.
LEMMA RemarkedValid ==
  ASSUME Valid(ui, requests), NEW s, Good(s), Remarked(ui, s), s.active # None
  PROVE  Valid(s, requests)
<1>1. DOMAIN s.folders = DOMAIN ui.folders
      /\ \A g \in DOMAIN ui.folders :
           s.folders[g].busy = ui.folders[g].busy /\ s.folders[g].loading = ui.folders[g].loading
  BY DEF Remarked, Alike
<1> QED
  BY <1>1 DEF Valid, Pending

Step ==
  /\ Valid(ui, requests)' /\ Answered(requests)'
  /\ sent' \in 0 .. MaxSent
  /\ server' = server /\ foreign' = foreign

LEMMA Opened ==
  ASSUME IInv, NEW f \in DOMAIN ui.folders, Open(f)
  PROVE  Step
<1> DEFINE a == Activate(ui, f)
<1>1. /\ Good(ui) /\ Struct(ui) /\ Valid(ui, requests) /\ Answered(requests)
      /\ sent \in 0 .. MaxSent
  BY DEF IInv, Valid, Good
<1>2. Remarked(ui, a) /\ a.active = f /\ Good(a)
  BY <1>1, Activated
<1>3. f # None
  BY <1>1, NoneIsNoFolder
<1> HIDE DEF a
<1>4. CASE Settle(a)
  <2>1. Valid(a, requests)
    BY <1>1, <1>2, <1>3, RemarkedValid
  <2>2. Valid(ui, requests)' /\ Answered(requests)'
    BY <1>1, <1>4, <2>1, Settled
  <2> QED
    BY <1>1, <1>4, <2>2 DEF Settle, Step
<1>5. CASE Load(a, f)
  <2>1. DOMAIN a.folders = DOMAIN ui.folders
        /\ \A g \in DOMAIN a.folders :
             a.folders[g].busy = ui.folders[g].busy /\ a.folders[g].loading = ui.folders[g].loading
    BY <1>2 DEF Remarked, Alike
  <2> QED
    BY <1>1, <1>2, <1>3, <1>5, <2>1, LoadSent DEF Step
<1> QED
  BY <1>4, <1>5 DEF Open, a

LEMMA ShownFacts ==
  ASSUME Struct(ui), NEW f \in DOMAIN ui.folders
  PROVE  Shown(f) \subseteq DOMAIN ui.folders
<1> DEFINE next == [g \in Beneath(ui, {f}) |->
                      IF ui.folders[g].expanded THEN Sub(ui, g) ELSE {}]
<1>1. DOMAIN next = Beneath(ui, {f}) /\ \A g \in DOMAIN next : next[g] \subseteq Sub(ui, g)
  OBVIOUS
<1>2. {f} \subseteq Beneath(ui, {f})
      /\ \A g \in Beneath(ui, {f}) : Sub(ui, g) \subseteq Beneath(ui, {f})
  BY BeneathFacts
<1>3. Shown(f) = Reach(next, {f})
  BY DEF Shown
<1> HIDE DEF next
<1>4. {f} \subseteq DOMAIN next /\ \A g \in DOMAIN next : next[g] \subseteq DOMAIN next
  BY <1>1, <1>2
<1>5. Shown(f) \subseteq DOMAIN next
  BY <1>3, <1>4, ReachFacts
<1> QED
  BY <1>1, <1>5 DEF Beneath

LEMMA SettledStep ==
  ASSUME IInv, NEW s, Valid(s, requests), Settle(s)
  PROVE  Step
BY Settled DEF IInv, Step, Settle

LEMMA ClickFolderStep ==
  ASSUME IInv, ClickFolder
  PROVE  Step
<1>1. Struct(ui) /\ Root \in DOMAIN ui.folders /\ ui.active \in DOMAIN ui.folders
  BY DEF IInv, Valid, Good, Struct, Typed, Paths, Focus
<1>2. PICK f \in Shown(Root) \cup Sub(ui, ui.active) \cup {ui.active} : Open(f)
  BY DEF ClickFolder
<1>3. f \in DOMAIN ui.folders
  BY <1>1, <1>2, ShownFacts, SubFacts
<1> QED
  BY <1>2, <1>3, Opened

LEMMA ToggleStep ==
  ASSUME IInv, Toggle
  PROVE  Step
<1>1. /\ Good(ui) /\ Struct(ui) /\ Root \in DOMAIN ui.folders
      /\ ui.active \in DOMAIN ui.folders /\ ui.active # None
  BY DEF IInv, Valid, Good, Struct, Typed, Paths, Focus
<1>2. PICK f \in Shown(Root) \cup {ui.active} :
        IF Sub(ui, f) = {} THEN Open(f)
        ELSE Settle(SetExpanded(ui, f, ~ui.folders[f].expanded))
  BY DEF Toggle
<1>3. f \in DOMAIN ui.folders
  BY <1>1, <1>2, ShownFacts
<1>4. CASE Sub(ui, f) = {}
  BY <1>2, <1>3, <1>4, Opened
<1>5. CASE Sub(ui, f) # {}
  <2> DEFINE b == ~ui.folders[f].expanded
             s == SetExpanded(ui, f, b)
  <2>1. b \in BOOLEAN
    OBVIOUS
  <2>2. Settle(s)
    BY <1>2, <1>5
  <2> HIDE DEF b
  <2>3. Remarked(ui, s) /\ SameFocus(ui, s) /\ Good(s)
    BY <1>1, <1>3, <1>5, <2>1, ExpandedSet
  <2> HIDE DEF s
  <2>4. Valid(s, requests)
    BY <1>1, <2>3, RemarkedValid DEF IInv, SameFocus
  <2> QED
    BY <2>2, <2>4, SettledStep
<1> QED
  BY <1>4, <1>5

LEMMA WalkFacts ==
  ASSUME Struct(ui), ui.active \in DOMAIN ui.folders
  PROVE  WalkUp \cup WalkDown \subseteq DOMAIN ui.folders
<1>1. ASSUME NEW g \in DOMAIN ui.folders
      PROVE  ui.folders[g].parent \in DOMAIN ui.folders \cup {None}
  BY <1>1 DEF Struct, Typed, FolderOK
<1>2. ASSUME NEW g \in DOMAIN ui.folders
      PROVE  Siblings(g) \subseteq DOMAIN ui.folders
  BY <1>1, <1>2, SubFacts DEF Siblings
<1>3. WalkUp \subseteq DOMAIN ui.folders
  <2>1. \A h \in Siblings(ui.active) : Shown(h) \subseteq DOMAIN ui.folders
    BY <1>2, ShownFacts
  <2>2. ui.folders[ui.active].parent \in DOMAIN ui.folders \cup {None}
    BY <1>1
  <2> QED
    BY <2>1, <2>2 DEF WalkUp
<1>4. WalkDown \subseteq DOMAIN ui.folders
  <2>1. Above(ui, ui.active) \subseteq DOMAIN ui.folders
    BY AboveFacts
  <2> QED
    BY <1>2, <2>1, SubFacts DEF WalkDown
<1> QED
  BY <1>3, <1>4

LEMMA WalkStep ==
  ASSUME IInv, Walk
  PROVE  Step
<1>1. Good(ui) /\ Struct(ui) /\ ui.active \in DOMAIN ui.folders
  BY DEF IInv, Valid, Good, Focus
<1>2. PICK f \in WalkUp \cup WalkDown : Settle(Activate(ui, f))
  BY DEF Walk
<1>4. f \in DOMAIN ui.folders
  BY <1>1, <1>2, WalkFacts
<1> DEFINE s == Activate(ui, f)
<1>5. Remarked(ui, s) /\ s.active = f /\ Good(s)
  BY <1>1, <1>4, Activated
<1>6. f # None
  BY <1>1, <1>4, NoneIsNoFolder
<1> HIDE DEF s
<1>7. Valid(s, requests)
  BY <1>5, <1>6, RemarkedValid DEF IInv
<1> QED
  BY <1>2, <1>7, SettledStep DEF s

LEMMA RefreshStep ==
  ASSUME IInv, Refresh
  PROVE  Step
<1>1. Good(ui) /\ ui.active \in DOMAIN ui.folders /\ ui.active # None
  BY DEF IInv, Valid, Good, Focus
<1> QED
  BY <1>1, LoadSent DEF IInv, Refresh, Step

LEMMA SelectStep ==
  ASSUME IInv, Select
  PROVE  Step
<1>1. Good(ui) /\ Struct(ui) /\ ui.active \in DOMAIN ui.folders /\ ui.active # None
  BY DEF IInv, Valid, Good, Focus
<1> DEFINE all == [of : {ui.active}, name : Listed(ui, ui.active)]
<1>2. PICK S : S \subseteq ui.selected \cup all /\ Settle([ui EXCEPT !.selected = S])
  <2>1. PICK n \in Listed(ui, ui.active) :
          LET item == [of |-> ui.active, name |-> n]
              toggled == IF item \in ui.selected THEN ui.selected \ {item}
                         ELSE ui.selected \cup {item}
          IN \E S \in {{item}, toggled, all} : Settle([ui EXCEPT !.selected = S])
    BY DEF Select
  <2> DEFINE item == [of |-> ui.active, name |-> n]
             toggled == IF item \in ui.selected THEN ui.selected \ {item}
                        ELSE ui.selected \cup {item}
  <2>2. PICK S \in {{item}, toggled, all} : Settle([ui EXCEPT !.selected = S])
    BY <2>1
  <2>3. item \in all
    OBVIOUS
  <2>4. toggled \subseteq ui.selected \cup {item}
    OBVIOUS
  <2> HIDE DEF item, toggled, all
  <2>5. S \subseteq ui.selected \cup all
    BY <2>2, <2>3, <2>4
  <2> QED
    BY <2>2, <2>5
<1> DEFINE s == [ui EXCEPT !.selected = S]
<1>3. /\ DOMAIN s = Fields /\ s.folders = ui.folders /\ s.tree = ui.tree
      /\ s.active = ui.active /\ s.selected = S
  BY <1>1 DEF Struct, Typed, Fields
<1> HIDE DEF s
<1>4. Remarked(ui, s)
  BY <1>1, <1>3, Refocused
<1>5. Focus(s)
  <2>1. ui.active \in Id /\ Listed(ui, ui.active) \subseteq Name
    BY <1>1 DEF Struct, Typed, FolderOK, Listed
  <2>2. \A i \in all : /\ i \in [of : Id, name : Name]
                       /\ i.of = ui.active /\ i.name \in Listed(ui, ui.active)
    BY <2>1
  <2>3. Listed(s, ui.active) = Listed(ui, ui.active)
    BY <1>3 DEF Listed
  <2> HIDE DEF all
  <2> QED
    BY <1>1, <1>2, <1>3, <2>2, <2>3 DEF Good, Focus
<1>6. Good(s)
  BY <1>1, <1>4, <1>5, RemarkedFacts DEF Good
<1>7. Valid(s, requests)
  BY <1>1, <1>3, <1>4, <1>6, RemarkedValid DEF IInv
<1> QED
  BY <1>2, <1>7, SettledStep DEF s

LEMMA RequestStep ==
  ASSUME IInv, NEW f \in DOMAIN ui.folders, NEW op \in {"delete", "newfolder", "upload"},
         NEW on \in SUBSET Name, Send(ui, op, f, on)
  PROVE  Step
<1>1. op \in {"browse", "delete", "newfolder", "upload"}
  OBVIOUS
<1>2. Good(ui) /\ ui.active # None /\ Valid(ui, requests) /\ Answered(requests)
      /\ sent \in 0 .. MaxSent
  BY DEF IInv, Valid
<1> QED
  BY <1>1, <1>2, Sent DEF Step

LEMMA DeleteSelectionStep ==
  ASSUME IInv, DeleteSelection
  PROVE  Step
<1>1. ui.active \in DOMAIN ui.folders /\ ui.selected \subseteq [of : Id, name : Name]
  BY DEF IInv, Valid, Good, Focus
<1>2. {i.name : i \in ui.selected} \in SUBSET Name
  BY <1>1
<1>3. Send(ui, "delete", ui.active, {i.name : i \in ui.selected})
  BY DEF DeleteSelection
<1> QED
  BY <1>1, <1>2, <1>3, RequestStep

LEMMA CreateFolderStep ==
  ASSUME IInv, CreateFolder
  PROVE  Step
<1>1. ui.active \in DOMAIN ui.folders
  BY DEF IInv, Valid, Good, Focus
<1>2. PICK n \in Name : Send(ui, "newfolder", ui.active, {n})
  BY DEF CreateFolder
<1>3. {n} \in SUBSET Name
  OBVIOUS
<1> QED
  BY <1>1, <1>2, <1>3, RequestStep

LEMMA StartUploadStep ==
  ASSUME IInv, StartUpload
  PROVE  Step
<1>1. PICK q \in FilePath : /\ Front(q) \in DOMAIN ui.tree
                            /\ Send(ui, "upload", ui.tree[Front(q)], {Last(q)})
  BY DEF StartUpload
<1>2. ui.tree[Front(q)] \in DOMAIN ui.folders
  BY <1>1 DEF IInv, Valid, Good, Struct, Typed
<1>3. q \in Seq(Name) /\ q # <<>>
  BY ConstantsAssumption
<1>4. {Last(q)} \in SUBSET Name
  BY <1>3, FrontFacts
<1> QED
  BY <1>1, <1>2, <1>4, RequestStep

LEMMA LeadingFacts ==
  ASSUME NEW P, P \subseteq Seq(Name), IsFiniteSet(P)
  PROVE  /\ Leading(P) \subseteq Seq(Name) \ {<<>>} /\ IsFiniteSet(Leading(P))
         /\ \A q \in Leading(P) : Front(q) = <<>> \/ Front(q) \in Leading(P)
         /\ \A p \in P : p # <<>> => p \in Leading(P)
<1> DEFINE L(p) == {SubSeq(p, 1, k) : k \in 1 .. Len(p)}
           F == [p \in P |-> L(p)]
<1>1. \A p \in P : p \in Seq(Name) /\ Len(p) \in Nat
  OBVIOUS
<1>2. ASSUME NEW p \in P, NEW k \in 1 .. Len(p)
      PROVE  /\ SubSeq(p, 1, k) \in Seq(Name) /\ Len(SubSeq(p, 1, k)) = k
             /\ \A i \in 1 .. k : SubSeq(p, 1, k)[i] = p[i]
  <2>1. k \in Nat /\ 0 \in Nat /\ 0 <= k /\ k <= Len(p) /\ 0 + 1 = 1 /\ k - 0 = k
    BY <1>1
  <2>2. /\ SubSeq(p, 0 + 1, k) \in Seq(Name) /\ Len(SubSeq(p, 0 + 1, k)) = k - 0
        /\ \A i \in 1 .. k - 0 : SubSeq(p, 0 + 1, k)[i] = p[0 + i]
    BY <1>1, <2>1, SubSeqFacts
  <2>3. \A i \in 1 .. k : 0 + i = i
    BY <2>1
  <2> QED
    BY <2>1, <2>2, <2>3
<1>3. IsFiniteSet(Leading(P))
  <2>1. ASSUME NEW p \in P
        PROVE  IsFiniteSet(L(p))
    <3> DEFINE f == [k \in 1 .. Len(p) |-> SubSeq(p, 1, k)]
    <3>1. IsFiniteSet(1 .. Len(p)) /\ DOMAIN f = 1 .. Len(p)
      BY <1>1, FS_Interval
    <3>2. L(p) = {f[k] : k \in 1 .. Len(p)}
      OBVIOUS
    <3> HIDE DEF f, L
    <3> QED
      BY <3>1, <3>2, FiniteImage
  <2>2. Leading(P) = UNION {F[p] : p \in P} /\ \A p \in P : F[p] = L(p)
    BY DEF Leading
  <2>3. DOMAIN F = P
    OBVIOUS
  <2> HIDE DEF F, L
  <2>4. IsFiniteSet({F[p] : p \in P})
    BY <2>3, FiniteImage
  <2>5. \A T \in {F[p] : p \in P} : IsFiniteSet(T)
    BY <2>1, <2>2
  <2> QED
    BY <2>2, <2>4, <2>5, FS_UNION
<1>4. ASSUME NEW q \in Leading(P)
      PROVE  /\ q \in Seq(Name) \ {<<>>}
             /\ Front(q) = <<>> \/ Front(q) \in Leading(P)
  <2>1. PICK p \in P : \E k \in 1 .. Len(p) : q = SubSeq(p, 1, k)
    BY DEF Leading
  <2>2. PICK k \in 1 .. Len(p) : q = SubSeq(p, 1, k)
    BY <2>1
  <2>3. q \in Seq(Name) /\ Len(q) = k /\ k \in Nat \ {0} /\ \A i \in 1 .. k : q[i] = p[i]
    BY <1>1, <1>2, <2>2
  <2>4. q # <<>>
    BY <2>3
  <2>5. /\ Front(q) \in Seq(Name) /\ Len(Front(q)) = k - 1
        /\ \A i \in 1 .. k - 1 : Front(q)[i] = p[i]
    <3>1. Front(q) \in Seq(Name) /\ Len(Front(q)) = k - 1
      BY <2>3, <2>4, FrontFacts
    <3>2. \A i \in 1 .. k - 1 : Front(q)[i] = q[i]
      BY <2>3, <3>1 DEF Front
    <3> QED
      BY <2>3, <3>1, <3>2
  <2>6. CASE k = 1
    <3>1. Len(Front(q)) = 0
      BY <2>5, <2>6
    <3>2. Front(q) = <<>>
      BY <2>5, <3>1
    <3> QED
      BY <2>3, <2>4, <3>2
  <2>7. CASE k # 1
    <3>1. k - 1 \in 1 .. Len(p)
      BY <1>1, <2>3, <2>7
    <3>2. Front(q) = SubSeq(p, 1, k - 1)
      <4> DEFINE s == SubSeq(p, 1, k - 1)
      <4>1. s \in Seq(Name) /\ Len(s) = k - 1 /\ \A i \in 1 .. k - 1 : s[i] = p[i]
        BY <1>2, <3>1
      <4> HIDE DEF s
      <4>2. s = Front(q)
        BY <2>5, <4>1
      <4> QED
        BY <4>2 DEF s
    <3> QED
      BY <2>3, <2>4, <3>1, <3>2 DEF Leading
  <2> QED
    BY <2>3, <2>4, <2>6, <2>7
<1>5. ASSUME NEW p \in P, p # <<>>
      PROVE  p \in Leading(P)
  <2>1. Len(p) \in 1 .. Len(p)
    BY <1>1, <1>5
  <2> DEFINE s == SubSeq(p, 1, Len(p))
  <2>2. s \in Seq(Name) /\ Len(s) = Len(p) /\ \A i \in 1 .. Len(p) : s[i] = p[i]
    BY <1>2, <2>1
  <2>3. s \in L(p)
    BY <2>1
  <2> HIDE DEF s
  <2>4. s = p
    BY <1>1, <2>2
  <2> QED
    BY <2>3, <2>4 DEF Leading
<1> QED
  BY <1>3, <1>4, <1>5

LEMMA EnsuredFacts ==
  ASSUME server \subseteq Seq(Name) \ {<<>>}
  PROVE  /\ Ensured \subseteq Seq(Name) \ {<<>>}
         /\ \A p : Content(Ensured, p) \subseteq Name
<1>1. Predefined \subseteq Seq(Name) /\ IsFiniteSet(Predefined)
  BY ConstantsAssumption
<1>2. Ensured \subseteq Seq(Name) \ {<<>>}
  BY <1>1, LeadingFacts DEF Ensured
<1>3. \A q \in Ensured : Last(q) \in Name
  BY <1>2, FrontFacts
<1> QED
  BY <1>2, <1>3 DEF Content

LEMMA ServeStep ==
  ASSUME IInv, NEW k \in Slot, Serve(k)
  PROVE  IInv'
<1> DEFINE r == requests[k]
           on == {Append(r.path, n) : n \in r.on}
<1>1. /\ r # None /\ r \in Request
      /\ UNCHANGED <<ui, sent, foreign>>
  BY DEF Serve, IInv, Valid
<1>2. /\ r.op \in {"browse", "delete", "newfolder", "upload"}
      /\ r.path \in Path \cup {None} /\ r.on \in SUBSET Name
  BY <1>1 DEF Request
<1>3. ~Unknown(r) => r.path \in Seq(Name)
  <2>1. server \subseteq Seq(Name) \ {<<>>}
    BY DEF IInv
  <2>2. Ensured \subseteq Seq(Name) /\ <<>> \in Seq(Name)
    BY <2>1, EnsuredFacts
  <2> QED
    BY <2>2 DEF Unknown
<1>5. /\ Ensured \subseteq Seq(Name) \ {<<>>}
      /\ \A p : Content(Ensured, p) \subseteq Name
  BY EnsuredFacts DEF IInv
<1>6. NoContent \in Reply /\ NoContent.added = {}
  BY DEF NoContent, Reply
<1>7. ASSUME NEW a \in Reply, NEW s,
             a.added = {} \/ r.path \in Seq(Name),
             s \subseteq Seq(Name) \ {<<>>}, Answer(k, a, s), disturbed' \in BOOLEAN
      PROVE  IInv'
  <2> DEFINE rs == [requests EXCEPT ![k].answer = a]
             x == [r EXCEPT !.answer = a]
  <2>1. requests' = rs /\ server' = s
    BY <1>7 DEF Answer
  <2>2. /\ x \in Request /\ x.folder = r.folder /\ x.op = r.op /\ x.path = r.path
        /\ x.answer = a
    BY <1>1, <1>7 DEF Request
  <2>3. requests \in [Slot -> Request \cup {None}]
    BY DEF IInv, Valid
  <2>4. rs = [requests EXCEPT ![k] = x]
    BY <2>3
  <2> HIDE DEF x
  <2>5. /\ rs \in [Slot -> Request \cup {None}] /\ rs[k] = x
        /\ \A l \in Slot \ {k} : rs[l] = requests[l]
    BY <2>2, <2>3, <2>4
  <2> HIDE DEF rs
  <2>6. x # None
    BY <2>2, ConstantsAssumption
  <2>7. Valid(ui, rs)
    <3>1. \A l \in Slot : /\ rs[l] # None <=> requests[l] # None
                          /\ requests[l] # None =>
                               rs[l].folder = requests[l].folder /\ rs[l].op = requests[l].op
      BY <1>1, <2>2, <2>5, <2>6
    <3> HIDE DEF r
    <3> QED
      BY <2>5, <3>1 DEF IInv, Valid, Pending
  <2>8. Answered(rs)
    BY <1>7, <2>2, <2>5 DEF IInv, Answered
  <2>9. Valid(ui, requests)' /\ Answered(requests)'
    BY <1>1, <2>1, <2>7, <2>8
  <2> QED
    BY <1>1, <1>7, <2>1, <2>9 DEF IInv
<1>8. disturbed \in BOOLEAN
  BY DEF IInv
<1>9. CASE Answer(k, NoContent, Ensured) /\ UNCHANGED disturbed
  BY <1>5, <1>6, <1>7, <1>8, <1>9
<1>10. CASE /\ Answer(k, [NoContent EXCEPT !.content = Content(Ensured, r.path)], Ensured)
            /\ UNCHANGED disturbed
  <2> DEFINE a == [NoContent EXCEPT !.content = Content(Ensured, r.path)]
  <2>1. a \in Reply /\ a.added = {}
    BY <1>5 DEF NoContent, Reply
  <2> HIDE DEF a
  <2>2. Answer(k, a, Ensured)
    BY <1>10 DEF a
  <2> QED
    BY <1>5, <1>7, <1>8, <1>10, <2>1, <2>2
<1>11. CASE \E gone \in SUBSET Under(Ensured, on) :
              /\ Answer(k, [NoContent EXCEPT !.removed =
                              {n \in r.on : Append(r.path, n) \notin Ensured \ gone}],
                        Ensured \ gone)
              /\ disturbed' = (disturbed \/ gone \notin {{}, Under(Ensured, on)})
  <2>1. PICK gone :
          /\ Answer(k, [NoContent EXCEPT !.removed =
                          {n \in r.on : Append(r.path, n) \notin Ensured \ gone}],
                    Ensured \ gone)
          /\ disturbed' = (disturbed \/ gone \notin {{}, Under(Ensured, on)})
    BY <1>11
  <2> DEFINE N == {n \in r.on : Append(r.path, n) \notin Ensured \ gone}
             a == [NoContent EXCEPT !.removed = N]
  <2>2. N \in SUBSET Name
    BY <1>2
  <2> HIDE DEF N
  <2>3. a \in Reply /\ a.added = {}
    BY <2>2 DEF NoContent, Reply
  <2> HIDE DEF a
  <2>4. Answer(k, a, Ensured \ gone)
    BY <2>1 DEF a, N
  <2>5. Ensured \ gone \subseteq Seq(Name) \ {<<>>}
    BY <1>5
  <2>6. disturbed' \in BOOLEAN
    BY <2>1
  <2> QED
    BY <1>7, <2>3, <2>4, <2>5, <2>6
<1>12. CASE /\ ~Unknown(r)
            /\ \E n \in Name : Answer(k, [NoContent EXCEPT !.added = {n}],
                                       Ensured \cup {Append(r.path, n)})
            /\ UNCHANGED disturbed
  <2>1. PICK n \in Name : Answer(k, [NoContent EXCEPT !.added = {n}],
                                 Ensured \cup {Append(r.path, n)})
    BY <1>12
  <2> DEFINE a == [NoContent EXCEPT !.added = {n}]
  <2>2. a \in Reply
    BY DEF NoContent, Reply
  <2> HIDE DEF a
  <2>3. Answer(k, a, Ensured \cup {Append(r.path, n)})
    BY <2>1 DEF a
  <2>4. r.path \in Seq(Name)
    BY <1>3, <1>12
  <2>5. Ensured \cup {Append(r.path, n)} \subseteq Seq(Name) \ {<<>>}
    <3> HIDE DEF r
    <3> QED
      BY <1>5, <2>4, AppendFacts
  <2> QED
    BY <1>7, <1>8, <1>12, <2>2, <2>3, <2>4, <2>5
<1> QED
  BY <1>9, <1>10, <1>11, <1>12 DEF Serve

LEMMA OthersChangeStep ==
  ASSUME IInv, OthersChange
  PROVE  IInv'
<1>1. /\ UNCHANGED <<ui, requests, sent>>
      /\ foreign < MaxForeign /\ foreign' = foreign + 1 /\ disturbed' = TRUE
  BY DEF OthersChange
<1>2. server' \subseteq server \cup Entry
  BY DEF OthersChange, Under
<1>3. Entry \subseteq Seq(Name) \ {<<>>}
  BY ConstantsAssumption DEF Entry
<1>4. foreign' \in 0 .. MaxForeign
  BY <1>1, ConstantsAssumption DEF IInv
<1>5. Valid(ui, requests)' /\ Answered(requests)'
  BY <1>1 DEF IInv
<1> QED
  BY <1>1, <1>2, <1>3, <1>4, <1>5 DEF IInv

\* The request in a slot is over, and its folder is not busy with it any more.
LEMMA RequestOver ==
  ASSUME IInv, NEW k \in Slot, requests[k] # None, NEW t, Keeps(ui, t),
         ~t.folders[requests[k].folder].busy,
         requests[k].op = "browse" => ~t.folders[requests[k].folder].loading,
         ui' = Collect(t, [requests EXCEPT ![k] = None]),
         requests' = [requests EXCEPT ![k] = None],
         disturbed' \in BOOLEAN, UNCHANGED <<server, sent, foreign>>
  PROVE  IInv'
<1> DEFINE rs == [requests EXCEPT ![k] = None]
<1>1. /\ rs \in [Slot -> Request \cup {None}] /\ rs[k] = None
      /\ \A l \in Slot \ {k} : rs[l] = requests[l]
  BY DEF IInv, Valid
<1>2. ui' = Collect(t, rs) /\ requests' = rs
  OBVIOUS
<1> HIDE DEF rs
<1>3. Pending(t, rs)
  <2> SUFFICES ASSUME NEW g \in DOMAIN t.folders
               PROVE  /\ t.folders[g].busy => \E l \in Slot : rs[l] # None /\ rs[l].folder = g
                      /\ t.folders[g].loading =>
                           \E l \in Slot : rs[l] # None /\ rs[l].folder = g /\ rs[l].op = "browse"
    BY DEF Pending
  <2>1. ASSUME t.folders[g].busy
        PROVE  \E l \in Slot : rs[l] # None /\ rs[l].folder = g
    <3>1. g \in DOMAIN ui.folders /\ ui.folders[g].busy
      BY <2>1 DEF Keeps, NotBusier
    <3>2. PICK l \in Slot : requests[l] # None /\ requests[l].folder = g
      BY <3>1 DEF IInv, Valid, Pending
    <3>3. l # k
      BY <2>1, <3>2
    <3> QED
      BY <1>1, <3>2, <3>3
  <2>2. ASSUME t.folders[g].loading
        PROVE  \E l \in Slot : rs[l] # None /\ rs[l].folder = g /\ rs[l].op = "browse"
    <3>1. g \in DOMAIN ui.folders /\ ui.folders[g].loading
      BY <2>2 DEF Keeps, NotBusier
    <3>2. PICK l \in Slot : requests[l] # None /\ requests[l].folder = g /\ requests[l].op = "browse"
      BY <3>1 DEF IInv, Valid, Pending
    <3>3. l # k
      BY <2>2, <3>2
    <3> QED
      BY <1>1, <3>2, <3>3
  <2> QED
    BY <2>1, <2>2
<1>4. Valid(t, rs)
  <2>1. Good(t) /\ t.active # None /\ DOMAIN ui.folders \subseteq DOMAIN t.folders
    BY DEF IInv, Valid, Keeps
  <2>2. \A l \in Slot : rs[l] # None => rs[l].folder \in DOMAIN t.folders
    BY <1>1, <2>1 DEF IInv, Valid
  <2> QED
    BY <1>1, <1>3, <2>1, <2>2 DEF Valid
<1>5. Valid(ui, requests)'
  <2>1. Valid(Collect(t, rs), rs)
    BY <1>4, Collected
  <2> QED
    BY <1>2, <2>1
<1>6. Answered(requests)'
  <2>1. Answered(rs)
    BY <1>1 DEF IInv, Answered
  <2> QED
    BY <1>2, <2>1
<1> QED
  BY <1>5, <1>6 DEF IInv

LEMMA DeliverStep ==
  ASSUME IInv, NEW k \in Slot, Deliver(k)
  PROVE  IInv'
<1> DEFINE r == requests[k]
           a == ProcessRemoved(ui, r.path, r.answer.removed)
           b == ProcessAdded(a, r.path, r.answer.added)
           t == Complete(b, r, r.answer.content)
           rs == [requests EXCEPT ![k] = None]
<1>1. /\ r # None /\ r.answer # None
      /\ ui' = Collect(t, rs) /\ requests' = rs
      /\ disturbed' = (disturbed \/ Tangled(rs))
      /\ UNCHANGED <<server, sent, foreign>>
  BY DEF Deliver, End
<1>2. r \in Request /\ r.folder \in DOMAIN ui.folders /\ Good(ui)
  BY <1>1 DEF IInv, Valid
<1>3. r.answer \in Reply
  BY <1>1, <1>2 DEF Request
<1>4. /\ r.answer.content \in (SUBSET Name) \cup {None} /\ r.answer.added \in SUBSET Name
  BY <1>3 DEF Reply
<1>5. r.answer.added = {} \/ r.path \in Seq(Name)
  BY <1>1 DEF IInv, Answered
<1>6. disturbed' \in BOOLEAN
  BY <1>1
<1> HIDE DEF r, a, b, t, rs
<1>7. Keeps(ui, a)
  BY <1>2, RemovedProcessed DEF a
<1>8. Keeps(a, b)
  BY <1>4, <1>5, <1>7, AddedProcessed DEF b, Keeps
<1>9. Good(b) /\ r.folder \in DOMAIN b.folders
  BY <1>2, <1>7, <1>8 DEF Keeps
<1>10. /\ Keeps(b, t)
       /\ ~t.folders[r.folder].busy
       /\ r.op = "browse" => ~t.folders[r.folder].loading
  BY <1>4, <1>9, Completed DEF t
<1>11. Keeps(ui, t)
  BY <1>7, <1>8, <1>10, KeepsTransitive
<1> QED
  BY <1>1, <1>6, <1>10, <1>11, RequestOver DEF r, rs

LEMMA LoseStep ==
  ASSUME IInv, NEW k \in Slot, Lose(k)
  PROVE  IInv'
<1> DEFINE r == requests[k]
           t == Complete(ui, r, None)
           rs == [requests EXCEPT ![k] = None]
<1>1. /\ r # None
      /\ ui' = Collect(t, rs) /\ requests' = rs /\ disturbed' = TRUE
      /\ UNCHANGED <<server, sent, foreign>>
  BY DEF Lose
<1>2. r.folder \in DOMAIN ui.folders /\ Good(ui)
  BY <1>1 DEF IInv, Valid
<1> HIDE DEF r, t, rs
<1>3. /\ Keeps(ui, t)
      /\ ~t.folders[r.folder].busy
      /\ r.op = "browse" => ~t.folders[r.folder].loading
  <2>1. None \in (SUBSET Name) \cup {None}
    OBVIOUS
  <2> QED
    BY <1>2, <2>1, Completed DEF t
<1> QED
  BY <1>1, <1>3, RequestOver DEF r, rs

-----------------------------------------------------------------------------
(* The beginning. *)

LEMMA BareFacts ==
  /\ DOMAIN Bare.folders = {Root} /\ DOMAIN Bare.tree = {<<>>}
  /\ Bare.active = None
  /\ ~Bare.folders[Root].busy /\ ~Bare.folders[Root].loading
  /\ Bare.folders[Root].parent = None
  /\ Listed(Bare, Root) = {}
  /\ Good(Bare)
<1> DEFINE x == Bare.folders[Root]
<1>1. /\ DOMAIN Bare = Fields
      /\ DOMAIN Bare.folders = {Root}
      /\ DOMAIN Bare.tree = {<<>>} /\ Bare.tree[<<>>] = Root
      /\ Bare.active = None /\ Bare.selected = {}
  BY DEF Bare, Fields
<1>2. /\ DOMAIN x = {"parent", "path", "items", "busy", "loading", "loaded", "disabled",
                     "expanded"}
      /\ x.parent = None /\ x.path = <<>> /\ x.items = <<>>
      /\ ~x.busy /\ ~x.loading /\ ~x.loaded /\ ~x.expanded
      /\ {x.busy, x.loading, x.loaded, x.disabled, x.expanded} \subseteq BOOLEAN
  BY DEF Bare
<1>3. Root \in Id /\ <<>> \in Path
  BY DEF Root, Id, Path
<1>4. DOMAIN x.items = {} /\ Range(x.items) = {}
  BY <1>2 DEF Range
<1>5. FolderOK(x, {Root})
  BY <1>2, <1>3, <1>4 DEF FolderOK
<1>6. IsFiniteSet({Root})
  BY FS_Singleton
<1> HIDE DEF x
<1>7. Typed(Bare)
  BY <1>1, <1>3, <1>5, <1>6 DEF Typed, Fields, x
<1>8. Listed(Bare, Root) = {}
  BY <1>4 DEF Listed, x
<1>9. Families(Bare)
  BY <1>1, <1>2, <1>8 DEF Families, Parent, x
<1>10. Paths(Bare)
  BY <1>1, <1>2 DEF Paths, x
<1>11. ExpandedBut(Bare, {}) /\ Focus(Bare)
  BY <1>1, <1>2 DEF ExpandedBut, Focus, x
<1> QED
  BY <1>1, <1>2, <1>7, <1>8, <1>9, <1>10, <1>11 DEF Good, Struct, x

LEMMA BarePaths ==
  ASSUME NEW p \in Seq(Name)
  PROVE  PathOf(Bare, Root, p) = p
<1>1. PathIn(Bare, Root) = <<>> /\ Len(Root.at) = 0
  BY BareFacts DEF PathIn, Root
<1>2. Len(p) \in Nat
  OBVIOUS
<1> DEFINE q == SubSeq(p, Len(Root.at) + 1, Len(p))
<1>3. q \in Seq(Name) /\ Len(q) = Len(p) /\ \A i \in 1 .. Len(p) : q[i] = p[i]
  <2>1. 0 \in Nat /\ 0 <= Len(p) /\ Len(p) - 0 = Len(p)
    BY <1>2
  <2>2. /\ SubSeq(p, 0 + 1, Len(p)) \in Seq(Name) /\ Len(SubSeq(p, 0 + 1, Len(p))) = Len(p) - 0
        /\ \A i \in 1 .. Len(p) - 0 : SubSeq(p, 0 + 1, Len(p))[i] = p[0 + i]
    BY <1>2, <2>1, SubSeqFacts
  <2>3. \A i \in 1 .. Len(p) : 0 + i = i
    BY <1>2
  <2> QED
    BY <1>1, <2>1, <2>2, <2>3
<1>4. PathOf(Bare, Root, p) = <<>> \o q
  BY <1>1 DEF PathOf
<1> HIDE DEF q
<1>5. q = p
  BY <1>3
<1> QED
  BY <1>4, <1>5

LEMMA InitTreeFacts ==
  ASSUME NEW P, P \subseteq Seq(Name), IsFiniteSet(P)
  PROVE  /\ Good(InitTree(P)) /\ NotBusier(Bare, InitTree(P))
         /\ InitTree(P).active = None
         /\ \A p \in P : p \in DOMAIN InitTree(P).tree
<1> DEFINE A == Leading(P)
           x == Objects(Bare, A, {})
           t == Graft(Bare, Root, x)
<1>1. /\ A \subseteq Seq(Name) \ {<<>>} /\ IsFiniteSet(A)
      /\ \A q \in A : Front(q) = <<>> \/ Front(q) \in A
      /\ \A p \in P : p # <<>> => p \in A
  BY LeadingFacts
<1>2. InitTree(P) = t
  BY DEF InitTree
<1> HIDE DEF A
<1>3. Good(Bare) /\ Struct(Bare) /\ Root \in DOMAIN Bare.folders
  BY BareFacts DEF Good
<1>4. Root.at = <<>> /\ Len(Root.at) = 0 /\ Listed(Bare, Root) = {}
  BY BareFacts DEF Root
<1>5. \A p \in A : Len(p) \in Nat /\ Len(Root.at) < Len(p)
  BY <1>1, <1>4
<1>6. Addable(Bare, Root, A, {})
  <2>1. A \cup {} = A
    OBVIOUS
  <2> QED
    BY <1>1, <1>4, <1>5, <2>1 DEF Addable
<1>7. NewObjects(Bare, Root, A, {}, x)
  BY <1>3, <1>6, AddableFacts
<1> HIDE DEF x
<1>8. Grown(Bare, Root, x, t)
  BY <1>3, <1>7, GraftShape
<1> HIDE DEF t
<1>9. /\ Good(t) /\ NotBusier(Bare, t) /\ SameFocus(Bare, t)
      /\ DOMAIN t.tree = DOMAIN Bare.tree \cup {PathOf(Bare, Root, p) : p \in A}
  BY <1>3, <1>7, <1>8, Grafted
<1>10. ASSUME NEW p \in P
       PROVE  p \in DOMAIN t.tree
  <2>1. CASE p = <<>>
    BY <1>9, <2>1, BareFacts
  <2>2. CASE p # <<>>
    <3>1. p \in A /\ PathOf(Bare, Root, p) = p
      BY <1>1, <2>2, BarePaths
    <3> QED
      BY <1>9, <3>1
  <2> QED
    BY <2>1, <2>2
<1> QED
  BY <1>2, <1>9, <1>10, BareFacts DEF SameFocus

\* The browser waits for the content of the active folder, and of no other.
LEMMA StartFacts ==
  ASSUME NEW p \in FolderPath
  PROVE  /\ Good(Start(p)) /\ Start(p).active \in DOMAIN Start(p).folders
         /\ \A g \in DOMAIN Start(p).folders \ {Start(p).active} :
              ~Start(p).folders[g].busy /\ ~Start(p).folders[g].loading
<1> DEFINE P == Predefined \cup {p}
           a == InitTree(P)
           f == a.tree[p]
           b == Activate(a, f)
           c == StartLoading(b, f)
<1>1. P \subseteq Seq(Name) /\ IsFiniteSet(P) /\ p \in P
  <2>1. IsFiniteSet(Predefined) /\ IsFiniteSet(Predefined \cup {p})
    BY ConstantsAssumption, FS_AddElement
  <2>2. Predefined \subseteq Seq(Name) /\ p \in Seq(Name)
    BY ConstantsAssumption
  <2> QED
    BY <2>1, <2>2
<1> HIDE DEF P
<1>2. Good(a) /\ NotBusier(Bare, a) /\ p \in DOMAIN a.tree
  BY <1>1, InitTreeFacts
<1> HIDE DEF a
<1>3. Struct(a) /\ f \in DOMAIN a.folders
  BY <1>2 DEF Good, Struct, Typed
<1> HIDE DEF f
<1>4. Remarked(a, b) /\ b.active = f /\ Good(b)
  BY <1>2, <1>3, Activated
<1> HIDE DEF b
<1>5. DOMAIN b.folders = DOMAIN a.folders
      /\ \A g \in DOMAIN a.folders :
           b.folders[g].busy = a.folders[g].busy /\ b.folders[g].loading = a.folders[g].loading
  BY <1>4 DEF Remarked, Alike
<1>6. /\ Good(c) /\ c.active = b.active /\ DOMAIN c.folders = DOMAIN b.folders
      /\ \A g \in DOMAIN b.folders \ {f} : c.folders[g] = b.folders[g]
  BY <1>3, <1>4, <1>5, LoadingStarted
<1>7. c = Start(p)
  BY <1>4 DEF Start, LoadActive, ActivatePath, a, b, c, f, P
<1> HIDE DEF c
<1>8. \A g \in DOMAIN a.folders : ~a.folders[g].busy /\ ~a.folders[g].loading
  BY <1>2, BareFacts DEF NotBusier
<1> QED
  BY <1>3, <1>4, <1>5, <1>6, <1>7, <1>8

LEMMA InitFacts ==
  ASSUME Init
  PROVE  IInv
<1>1. PICK p \in FolderPath \cap (server \cup {<<>>}) :
        /\ ui = Start(p)
        /\ requests = [k \in Slot |->
             IF k = 1 THEN [op |-> "browse", folder |-> ui.active, path |-> p,
                            on |-> {}, answer |-> None]
             ELSE None]
  BY DEF Init
<1> DEFINE r == [op |-> "browse", folder |-> ui.active, path |-> p,
                 on |-> {}, answer |-> None]
<1>2. /\ Good(ui) /\ ui.active \in DOMAIN ui.folders
      /\ \A g \in DOMAIN ui.folders \ {ui.active} :
           ~ui.folders[g].busy /\ ~ui.folders[g].loading
  BY <1>1, StartFacts
<1>3. ui.active \in Id /\ ui.active # None
  BY <1>2, NoneIsNoFolder DEF Good, Struct, Typed
<1>4. p \in Path
  BY <1>1, NamesArePaths, ConstantsAssumption
<1>5. r \in Request /\ r # None
  <2>1. r \in Request
    BY <1>3, <1>4 DEF Request
  <2> QED
    BY <2>1, ConstantsAssumption
<1>6. r.folder = ui.active /\ r.op = "browse" /\ r.answer = None
  OBVIOUS
<1>7. requests = [k \in Slot |-> IF k = 1 THEN r ELSE None]
  BY <1>1
<1> HIDE DEF r
<1>8. 1 \in Slot
  BY ConstantsAssumption DEF Slot
<1>9. /\ requests \in [Slot -> Request \cup {None}]
      /\ requests[1] = r /\ \A k \in Slot \ {1} : requests[k] = None
  BY <1>5, <1>7, <1>8
<1>10. Pending(ui, requests)
  BY <1>2, <1>5, <1>6, <1>8, <1>9 DEF Pending
<1>11. Valid(ui, requests) /\ Answered(requests)
  BY <1>2, <1>3, <1>6, <1>9, <1>10 DEF Valid, Answered
<1>12. server \subseteq Seq(Name) \ {<<>>}
  BY ConstantsAssumption DEF Init, Entry
<1>13. sent \in 0 .. MaxSent /\ foreign \in 0 .. MaxForeign /\ disturbed \in BOOLEAN
  <2>1. sent = 0 /\ foreign = 0 /\ MaxSent \in Nat /\ MaxForeign \in Nat
    BY ConstantsAssumption DEF Init
  <2>2. disturbed \in BOOLEAN
    BY DEF Init
  <2> QED
    BY <2>1, <2>2
<1> QED
  BY <1>11, <1>12, <1>13 DEF IInv

-----------------------------------------------------------------------------
(* The theorems. *)

LEMMA DisturbedType ==
  ASSUME IInv,
         ClickFolder \/ Toggle \/ Walk \/ Refresh \/ Select \/ DeleteSelection
           \/ CreateFolder \/ StartUpload
  PROVE  disturbed' \in BOOLEAN
<1>1. disturbed \in BOOLEAN
  BY DEF IInv
<1>2. ASSUME NEW s, NEW rs, End(s, rs)
      PROVE  disturbed' \in BOOLEAN
  BY <1>1, <1>2 DEF End
<1>3. ASSUME NEW s, Settle(s)
      PROVE  disturbed' \in BOOLEAN
  BY <1>2, <1>3 DEF Settle
<1>4. ASSUME NEW s, NEW op, NEW f, NEW on, Send(s, op, f, on)
      PROVE  disturbed' \in BOOLEAN
  BY <1>2, <1>4 DEF Send
<1>5. ASSUME NEW s, NEW f, Load(s, f)
      PROVE  disturbed' \in BOOLEAN
  BY <1>4, <1>5 DEF Load
<1>6. ASSUME NEW f, Open(f)
      PROVE  disturbed' \in BOOLEAN
  BY <1>3, <1>5, <1>6 DEF Open
<1> QED
  BY <1>3, <1>4, <1>5, <1>6
     DEF ClickFolder, Toggle, Walk, Refresh, Select, DeleteSelection, CreateFolder, StartUpload

LEMMA NextStep ==
  ASSUME IInv, [Next]_vars
  PROVE  IInv'
<1>1. ASSUME Step, disturbed' \in BOOLEAN
      PROVE  IInv'
  BY <1>1 DEF IInv, Step
<1>2. CASE ClickFolder
  BY <1>1, <1>2, ClickFolderStep, DisturbedType
<1>3. CASE Toggle
  BY <1>1, <1>3, ToggleStep, DisturbedType
<1>4. CASE Walk
  BY <1>1, <1>4, WalkStep, DisturbedType
<1>5. CASE Refresh
  BY <1>1, <1>5, RefreshStep, DisturbedType
<1>6. CASE Select
  BY <1>1, <1>6, SelectStep, DisturbedType
<1>7. CASE DeleteSelection
  BY <1>1, <1>7, DeleteSelectionStep, DisturbedType
<1>8. CASE CreateFolder
  BY <1>1, <1>8, CreateFolderStep, DisturbedType
<1>9. CASE StartUpload
  BY <1>1, <1>9, StartUploadStep, DisturbedType
<1>10. ASSUME NEW k \in Slot, Serve(k) \/ Deliver(k) \/ Lose(k)
       PROVE  IInv'
  BY <1>10, ServeStep, DeliverStep, LoseStep
<1>11. CASE OthersChange
  BY <1>11, OthersChangeStep
<1>12. CASE UNCHANGED vars
  BY <1>12 DEF vars, IInv
<1> QED
  BY <1>2, <1>3, <1>4, <1>5, <1>6, <1>7, <1>8, <1>9, <1>10, <1>11, <1>12 DEF Next

LEMMA Invariance == Spec => []IInv
<1>1. Init => IInv
  BY InitFacts
<1>2. IInv /\ [Next]_vars => IInv'
  BY NextStep
<1> QED
  BY <1>1, <1>2, PTL DEF Spec

\* The browser keeps to its types whatever the user, the server and the others do.
THEOREM TypeCorrect == Spec => []TypeOK
<1>1. IInv => TypeOK
  <2> SUFFICES ASSUME IInv
               PROVE  TypeOK
    OBVIOUS
  <2>1. /\ Typed(ui) /\ ui.active # None
        /\ ui.active \in DOMAIN ui.folders \cup {None}
        /\ ui.selected \subseteq [of : Id, name : Name]
    BY DEF IInv, Valid, Good, Struct, Focus
  <2>2. Range(ui.tree) \subseteq DOMAIN ui.folders
    BY <2>1 DEF Typed, Range
  <2>3. /\ requests \in [Slot -> Request \cup {None}]
        /\ \A k \in Slot : requests[k] # None => requests[k].folder \in DOMAIN ui.folders
    BY DEF IInv, Valid
  <2>4. /\ server \subseteq Seq(Name) \ {<<>>}
        /\ sent \in 0 .. MaxSent /\ foreign \in 0 .. MaxForeign /\ disturbed \in BOOLEAN
    BY DEF IInv
  <2> QED
    BY <2>1, <2>2, <2>3, <2>4 DEF TypeOK, Typed
<1> QED
  BY <1>1, Invariance, PTL

\* Whatever is removed, activated or answered, the selection is in the folder that
\* the user sees: an operation on it touches nothing else.
THEOREM SelectionAlwaysActive == Spec => []SelectionIsActive
<1>1. IInv => SelectionIsActive
  BY DEF IInv, Valid, Good, Focus, SelectionIsActive
<1> QED
  BY <1>1, Invariance, PTL

\* No folder stays busy or loading without a request whose end will change that,
\* also when it was removed, or replaced, while the request was in flight.
THEOREM BusyAlwaysPending == Spec => []BusyIsPending
<1>1. IInv => BusyIsPending
  BY DEF IInv, Valid, Pending, BusyIsPending, InFlight
<1> QED
  BY <1>1, Invariance, PTL

\* The walk down the expanded branches always comes to an end, in every state of
\* the folders, those included that are out of the tree.
THEOREM ExpandedAlwaysHasSubfolders == Spec => []ExpandedHasSubfolders
<1>1. IInv => ExpandedHasSubfolders
  BY DEF IInv, Valid, Good, ExpandedBut, ExpandedHasSubfolders
<1> QED
  BY <1>1, Invariance, PTL

=============================================================================
