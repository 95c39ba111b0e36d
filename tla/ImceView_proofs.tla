--------------------------- MODULE ImceView_proofs ---------------------------
(***************************************************************************)
(* Proof that the browser shows what the server has, when nothing has      *)
(* interfered (ViewIsCurrent of Imce.tla).  The invariant says, for any    *)
(* requests in flight, how far the browser is behind the server.           *)
(***************************************************************************)
EXTENDS Imce_proofs

\* The names of what the server has in a folder.
NamesAt(srv, p) == {Last(q) : q \in {e \in srv : Front(e) = p}}

\* A predefined folder is there, or below.
Kept(p) == \E q \in Predefined : IsPrefix(p, q)

InPlace(s, f) == s.folders[f].path # None

\* The folders that have a path are those of the tree, each under the place it was
\* made for; they are the ones that hang together with the root.  The predefined
\* folders are among them.
Placed(s) ==
  /\ \A f \in DOMAIN s.folders : InPlace(s, f) =>
       f.at \in DOMAIN s.tree /\ s.tree[f.at] = f
  /\ \A f \in DOMAIN s.folders : Parent(s, f) # None =>
       (InPlace(s, f) <=> InPlace(s, Parent(s, f)))
  /\ \A q \in Predefined : q \in DOMAIN s.tree /\ s.tree[q] = [at |-> q, gen |-> 0]

-----------------------------------------------------------------------------
(* Folders that are in place. *)

LEMMA PrefixCases ==
  ASSUME NEW p \in Seq(Name), NEW q \in Seq(Name), NEW n \in Name,
         IsPrefix(p, Append(q, n)), p # Append(q, n)
  PROVE  IsPrefix(p, q)
<1> DEFINE r == Append(q, n)
<1>1. /\ Len(p) \in Nat /\ Len(q) \in Nat /\ Len(r) = Len(q) + 1
      /\ r \in Seq(Name) /\ \A i \in 1 .. Len(q) : r[i] = q[i]
  OBVIOUS
<1>2. Len(p) <= Len(r) /\ \A i \in 1 .. Len(p) : p[i] = r[i]
  <2> HIDE DEF r
  <2> QED
    BY <1>1 DEF IsPrefix, r
<1> HIDE DEF r
<1>3. Len(p) # Len(r)
  <2> SUFFICES ASSUME Len(p) = Len(r)
               PROVE  p = r
    BY DEF r
  <2> QED
    BY <1>1, <1>2
<1>4. Len(p) <= Len(q)
  BY <1>1, <1>2, <1>3
<1>5. \A i \in 1 .. Len(p) : p[i] = q[i]
  BY <1>1, <1>2, <1>4
<1> QED
  BY <1>1, <1>4, <1>5 DEF IsPrefix

LEMMA PlaceFacts ==
  ASSUME NEW s, Struct(s), Placed(s), NEW f \in DOMAIN s.folders, InPlace(s, f)
  PROVE  /\ f.at \in DOMAIN s.tree /\ s.tree[f.at] = f
         /\ s.folders[f].path = f.at /\ f.at \in Seq(Name)
         /\ f # Root => /\ Parent(s, f) \in DOMAIN s.folders /\ InPlace(s, Parent(s, f))
                        /\ f \in Sub(s, Parent(s, f))
                        /\ Parent(s, f) # None
<1>1. f.at \in DOMAIN s.tree /\ s.tree[f.at] = f /\ f.at \in Seq(Name)
  BY NoneIsNoFolder DEF Placed
<1>2. s.folders[f].path = f.at
  BY <1>1 DEF Struct, Paths
<1>3. f # Root => Parent(s, f) # None
  BY DEF Struct, Paths, Parent, InPlace
<1> QED
  BY <1>1, <1>2, <1>3, ParentFacts DEF Placed

\* What the tree has is in place.
LEMMA TreeFacts ==
  ASSUME NEW s, Struct(s), NEW b \in DOMAIN s.tree
  PROVE  s.tree[b] \in DOMAIN s.folders /\ InPlace(s, s.tree[b]) /\ s.folders[s.tree[b]].path = b
BY ConstantsAssumption DEF Struct, Typed, Paths, InPlace

\* On the way to a folder in place there is a folder in place at every path.
LEMMA OnTheWay ==
  ASSUME NEW s, Struct(s), Placed(s), NEW g \in DOMAIN s.folders, InPlace(s, g),
         NEW p \in Seq(Name), IsPrefix(p, g.at)
  PROVE  \E h \in DOMAIN s.folders :
           /\ InPlace(s, h) /\ h.at = p
           /\ \A C : h \in C /\ (\A i \in C \cap DOMAIN s.folders : Sub(s, i) \subseteq C)
                => g \in C
<1> DEFINE Leads(h, i) ==
             \A C : h \in C /\ (\A j \in C \cap DOMAIN s.folders : Sub(s, j) \subseteq C)
               => i \in C
           OK(i) == \E h \in DOMAIN s.folders : InPlace(s, h) /\ h.at = p /\ Leads(h, i)
           Bad == {i \in DOMAIN s.folders : InPlace(s, i) /\ IsPrefix(p, i.at) /\ ~OK(i)}
           T == {Len(i.at) : i \in Bad}
<1>1. \A i \in DOMAIN s.folders : i.at \in Seq(Name) /\ Len(i.at) \in Nat
  BY NoneIsNoFolder
<1>2. T \in SUBSET Nat
  BY <1>1
<1>3. Bad = {}
  <2> SUFFICES ASSUME Bad # {} PROVE FALSE
    OBVIOUS
  <2> HIDE DEF Bad
  <2>1. T # {}
    OBVIOUS
  <2>2. PICK k \in T : \A j \in T : k <= j
    <3> HIDE DEF T
    <3> QED
      BY <1>2, <2>1, Least
  <2>3. PICK i \in Bad : \A j \in Bad : Len(i.at) <= Len(j.at)
    BY <2>2
  <2>4. i \in DOMAIN s.folders /\ InPlace(s, i) /\ IsPrefix(p, i.at) /\ ~OK(i)
    BY DEF Bad
  <2>5. i.at # p
    BY <2>4
  <2>6. i # Root
    <3> SUFFICES ASSUME i = Root PROVE FALSE
      OBVIOUS
    <3>1. i.at = <<>>
      BY DEF Root
    <3>2. Len(p) <= Len(<<>>) /\ Len(p) \in Nat
      BY <2>4, <3>1 DEF IsPrefix
    <3> QED
      BY <2>5, <3>1, <3>2
  <2> DEFINE u == Parent(s, i)
  <2>7. u \in DOMAIN s.folders /\ InPlace(s, u) /\ i \in Sub(s, u) /\ Parent(s, i) # None
    BY <2>4, <2>6, PlaceFacts
  <2>8. PICK n \in Name : i.at = Append(u.at, n)
    BY <2>4, <2>7, ParentFacts
  <2> HIDE DEF u
  <2>9. IsPrefix(p, u.at)
    BY <1>1, <2>4, <2>5, <2>7, <2>8, PrefixCases
  <2>10. Len(u.at) < Len(i.at)
    BY <1>1, <2>7, <2>8, AppendFacts
  <2>11. u \notin Bad
    BY <1>1, <2>3, <2>4, <2>7, <2>10
  <2>12. OK(u)
    BY <2>7, <2>9, <2>11 DEF Bad
  <2>13. PICK h \in DOMAIN s.folders : InPlace(s, h) /\ h.at = p /\ Leads(h, u)
    BY <2>12
  <2>14. Leads(h, i)
    BY <2>7, <2>13
  <2> QED
    BY <2>4, <2>13, <2>14
<1>4. OK(g)
  BY <1>3
<1> QED
  BY <1>4

\* An item's place among those of its folder.
LEMMA ItemInPlace ==
  ASSUME NEW s, Struct(s), Placed(s), NEW f \in DOMAIN s.folders, InPlace(s, f),
         NEW n \in Name, NEW h \in DOMAIN s.folders, InPlace(s, h), h.at = Append(f.at, n)
  PROVE  n \in Listed(s, f) /\ Item(s, f, n) = h
<1>1. f.at \in Seq(Name) /\ s.tree[f.at] = f
  BY PlaceFacts
<1>2. h # Root
  BY <1>1, AppendFacts DEF Root
<1> DEFINE u == Parent(s, h)
<1>3. u \in DOMAIN s.folders /\ InPlace(s, u) /\ u # None
  BY <1>2, PlaceFacts
<1>4. PICK m \in Listed(s, u) : Item(s, u, m) = h
  BY <1>3 DEF Struct, Families
<1>5. h # None /\ h.at = Append(u.at, m) /\ m \in Name
  BY <1>3, <1>4, ChildFacts, NoneIsNoFolder, SMTT(40)
<1> HIDE DEF u
<1>6. u.at \in Seq(Name) /\ s.tree[u.at] = u
  BY <1>3, PlaceFacts
<1>7. u.at = f.at /\ m = n
  <2>1. Front(Append(u.at, m)) = u.at /\ Last(Append(u.at, m)) = m
    BY <1>5, <1>6, AppendFacts
  <2>2. Front(Append(f.at, n)) = f.at /\ Last(Append(f.at, n)) = n
    BY <1>1, AppendFacts
  <2>3. Append(u.at, m) = Append(f.at, n)
    BY <1>5
  <2> QED
    BY <2>1, <2>2, <2>3
<1> QED
  BY <1>1, <1>4, <1>6, <1>7

\* An item leads to a predefined folder if, and only if, there is one at its place
\* or below.
LEMMA LeadsKept ==
  ASSUME NEW s, Struct(s), NEW f \in DOMAIN s.folders, NEW n \in Listed(s, f),
         LeadsToPredefined(s, f, n)
  PROVE  Kept(Append(f.at, n))
<1> DEFINE x == Item(s, f, n)
           down == [g \in Beneath(s, {x}) |-> Sub(s, g)]
<1>1. x # None /\ \E g \in Below(s, {x}) : IsPredefined(g)
  BY DEF LeadsToPredefined, Item
<1>2. x \in DOMAIN s.folders /\ x.at = Append(f.at, n)
  BY <1>1, ChildFacts
<1>3. {x} \subseteq DOMAIN down /\ \A g \in DOMAIN down : down[g] \subseteq DOMAIN down
  <2> HIDE DEF x
  <2> QED
    BY <1>2, BeneathFacts
<1>4. Below(s, {x}) = Reach(down, {x}) /\ DOMAIN down = Beneath(s, {x})
  BY DEF Below
<1> HIDE DEF down
<1>5. Below(s, {x}) \subseteq Beneath(s, {x})
  <2>1. Reach(down, {x}) \subseteq DOMAIN down
    <3> HIDE DEF x
    <3> QED
      BY <1>3, ReachFacts
  <2> QED
    BY <1>4, <2>1
<1>6. PICK g \in Below(s, {x}) : IsPredefined(g)
  BY <1>1
<1>7. IsPrefix(x.at, g.at)
  BY <1>5, <1>6 DEF Beneath
<1> QED
  BY <1>2, <1>6, <1>7 DEF Kept, IsPredefined

LEMMA KeptLeads ==
  ASSUME NEW s, Struct(s), Placed(s), NEW f \in DOMAIN s.folders, InPlace(s, f),
         NEW n \in Name, Kept(Append(f.at, n))
  PROVE  n \in Listed(s, f) /\ LeadsToPredefined(s, f, n)
<1> DEFINE p == Append(f.at, n)
<1>1. PICK q \in Predefined : IsPrefix(p, q)
  BY DEF Kept
<1> DEFINE g == s.tree[q]
<1>2. g = [at |-> q, gen |-> 0] /\ g \in DOMAIN s.folders /\ InPlace(s, g)
  BY TreeFacts DEF Placed
<1>3. g.at = q /\ IsPredefined(g)
  BY <1>2 DEF IsPredefined
<1>4. p \in Seq(Name)
  BY NoneIsNoFolder
<1> HIDE DEF p, g
<1>5. PICK h \in DOMAIN s.folders :
        /\ InPlace(s, h) /\ h.at = p
        /\ \A C : h \in C /\ (\A i \in C \cap DOMAIN s.folders : Sub(s, i) \subseteq C)
             => g \in C
  BY <1>1, <1>2, <1>3, <1>4, OnTheWay
<1>6. n \in Listed(s, f) /\ Item(s, f, n) = h
  BY <1>5, ItemInPlace DEF p
<1>7. h # None
  BY NoneIsNoFolder
<1>8. h \in Sub(s, f)
  BY <1>6, <1>7, ChildFacts
<1>9. /\ {h} \subseteq Below(s, {h})
      /\ \A i \in Below(s, {h}) : Sub(s, i) \subseteq Below(s, {h})
  <2>1. {h} \in SUBSET Sub(s, f)
    BY <1>8
  <2> QED
    BY <2>1, BelowFacts
<1>10. g \in Below(s, {h})
  BY <1>5, <1>9
<1> QED
  BY <1>3, <1>6, <1>7, <1>10 DEF LeadsToPredefined, Item

\* What is above a folder that has no path has none either.
LEMMA NothingAbove ==
  ASSUME NEW s, Struct(s), Placed(s), NEW f \in DOMAIN s.folders, ~InPlace(s, f)
  PROVE  \A g \in Above(s, f) : g \in DOMAIN s.folders /\ ~InPlace(s, g)
<1> DEFINE up == Upward(s, f)
           C == {g \in DOMAIN s.folders : ~InPlace(s, g)}
<1>1. /\ DOMAIN up = {h \in DOMAIN s.folders : IsPrefix(h.at, f.at)}
      /\ \A g \in DOMAIN up : up[g] = {Parent(s, g)} \ {None}
  BY DEF Upward, Parent
<1>2. \A g \in DOMAIN s.folders : IsPrefix(g.at, g.at)
  BY NoneIsNoFolder DEF IsPrefix
<1>3. ASSUME NEW g \in DOMAIN up, Parent(s, g) # None
      PROVE  Parent(s, g) \in DOMAIN up
  <2>1. PICK n \in Name : g.at = Append(Parent(s, g).at, n)
    BY <1>1, <1>3, ParentFacts
  <2>2. Parent(s, g) \in DOMAIN s.folders
    BY <1>1, <1>3, ParentFacts
  <2>3. f.at \in Seq(Name) /\ Parent(s, g).at \in Seq(Name)
    BY <2>2, NoneIsNoFolder
  <2>4. IsPrefix(g.at, f.at)
    BY <1>1
  <2>5. IsPrefix(Parent(s, g).at, f.at)
    BY <2>1, <2>3, <2>4, PrefixOfAppend
  <2> QED
    BY <1>1, <2>2, <2>5
<1>4. {f} \subseteq DOMAIN up /\ \A g \in DOMAIN up : up[g] \subseteq DOMAIN up
  BY <1>1, <1>2, <1>3
<1>5. Above(s, f) = Reach(up, {f})
  BY DEF Above
<1>6. {f} \subseteq C /\ \A g \in C \cap DOMAIN up : up[g] \subseteq C
  <2> SUFFICES ASSUME NEW g \in C, g \in DOMAIN up, Parent(s, g) # None
               PROVE  Parent(s, g) \in C
    BY <1>1
  <2>1. Parent(s, g) \in DOMAIN s.folders
    BY ParentFacts
  <2> QED
    BY <2>1 DEF Placed
<1> HIDE DEF up, C
<1>7. Above(s, f) \subseteq C
  BY <1>4, <1>5, <1>6, ReachFacts
<1> QED
  BY <1>7 DEF C

\* getPath() of a folder in place is its path; of another, nothing.
LEMMA PathFound ==
  ASSUME NEW s, Struct(s), Placed(s), NEW f \in DOMAIN s.folders
  PROVE  GetPath(s, f) = IF InPlace(s, f) THEN f.at ELSE None
<1> DEFINE P == {g \in Above(s, f) : s.folders[g].path # None}
           high(h) == \A i \in P : Len(i.at) <= Len(h.at)
           g == CHOOSE h \in P : high(h)
<1>1. CASE ~InPlace(s, f)
  <2>1. P = {}
    BY <1>1, NothingAbove DEF InPlace
  <2> QED
    BY <1>1, <2>1 DEF GetPath
<1>2. CASE InPlace(s, f)
  <2>1. f \in P
    BY <1>2, AboveFacts DEF InPlace
  <2>2. /\ f.at \in Seq(Name) /\ Len(f.at) \in Nat
        /\ \A h \in P : Len(h.at) \in Nat
        /\ \A h \in P \ {f} : Len(h.at) < Len(f.at)
    <3>1. \A h \in P : h \in DOMAIN s.folders
      BY AboveFacts
    <3>2. \A h \in P \ {f} : Len(h.at) < Len(f.at)
      BY AboveFacts, SMTT(40)
    <3> HIDE DEF P
    <3> QED
      BY <3>1, <3>2, NoneIsNoFolder
  <2>3. GetPath(s, f) = s.folders[g].path \o SubSeq(f.at, Len(g.at) + 1, Len(f.at))
    BY <2>1, Zenon DEF GetPath
  <2>4. g = f
    <3> HIDE DEF P
    <3>1. high(f)
      BY <2>1, <2>2
    <3>2. \A h \in P : high(h) => h = f
      BY <2>1, <2>2
    <3> HIDE DEF high
    <3> QED
      BY <2>1, <3>1, <3>2
  <2> HIDE DEF P, high, g
  <2>5. s.folders[f].path = f.at
    BY <1>2, PlaceFacts
  <2>6. SubSeq(f.at, Len(f.at) + 1, Len(f.at)) = <<>>
    BY <2>2
  <2>7. f.at \o <<>> = f.at
    BY <2>2
  <2> QED
    BY <1>2, <2>3, <2>4, <2>5, <2>6, <2>7
<1> QED
  BY <1>1, <1>2

-----------------------------------------------------------------------------
(* What leaves the folders as they are, but for marks other than "loaded". *)

Still(s, t) ==
  /\ Alike(s, t)
  /\ \A f \in DOMAIN s.folders : t.folders[f].loaded = s.folders[f].loaded

IsStill(x, y, D) ==
  /\ FolderOK(y, D)
  /\ y.parent = x.parent /\ y.path = x.path /\ y.items = x.items /\ y.loaded = x.loaded

LEMMA StillFacts ==
  ASSUME NEW s, NEW t, Struct(s), Still(s, t)
  PROVE  /\ Struct(t) /\ DOMAIN t.folders = DOMAIN s.folders /\ t.tree = s.tree
         /\ \A f \in DOMAIN s.folders :
              /\ InPlace(t, f) <=> InPlace(s, f)
              /\ Listed(t, f) = Listed(s, f)
              /\ t.folders[f].loaded = s.folders[f].loaded
              /\ Parent(t, f) = Parent(s, f)
         /\ Placed(s) => Placed(t)
<1>1. /\ Struct(t) /\ DOMAIN t.folders = DOMAIN s.folders /\ t.tree = s.tree
      /\ \A f \in DOMAIN s.folders :
              /\ InPlace(t, f) <=> InPlace(s, f)
              /\ Listed(t, f) = Listed(s, f)
              /\ t.folders[f].loaded = s.folders[f].loaded
              /\ Parent(t, f) = Parent(s, f)
  BY AlikeFacts DEF Still, Alike, InPlace, Parent
<1>2. \A f \in DOMAIN s.folders : Parent(s, f) \in DOMAIN s.folders \cup {None}
  BY DEF Struct, Typed, FolderOK, Parent
<1> QED
  BY <1>1, <1>2 DEF Placed

LEMMA StillTransitive ==
  ASSUME NEW s, NEW t, NEW u, Still(s, t), Still(t, u)
  PROVE  Still(s, u)
<1>1. Alike(s, u) /\ DOMAIN t.folders = DOMAIN s.folders
  BY AlikeTransitive DEF Still, Alike
<1> QED
  BY <1>1 DEF Still

LEMMA Unmoved ==
  ASSUME NEW s, Struct(s), NEW t, DOMAIN t = Fields,
         t.folders = s.folders, t.tree = s.tree
  PROVE  Still(s, t)
BY DEF Struct, Typed, Still, Alike

LEMMA MarkIsStill ==
  ASSUME NEW x, NEW D, FolderOK(x, D), NEW b \in BOOLEAN, NEW c \in BOOLEAN
  PROVE  /\ IsStill(x, [x EXCEPT !.expanded = b], D)
         /\ IsStill(x, [x EXCEPT !.busy = b], D)
         /\ IsStill(x, [x EXCEPT !.loading = b, !.busy = c], D)
BY DEF FolderOK, IsStill

LEMMA WithStill ==
  ASSUME NEW s, Struct(s), NEW new, DOMAIN new \subseteq DOMAIN s.folders,
         \A f \in DOMAIN new : IsStill(s.folders[f], new[f], DOMAIN s.folders)
  PROVE  Still(s, With(s, new)) /\ SameFocus(s, With(s, new))
<1>1. DOMAIN s = Fields
  BY DEF Struct, Typed, Fields
<1> DEFINE t == With(s, new)
<1>2. /\ DOMAIN t = Fields /\ t.tree = s.tree
      /\ t.active = s.active /\ t.selected = s.selected
      /\ DOMAIN t.folders = DOMAIN new \cup DOMAIN s.folders
      /\ \A f \in DOMAIN new : t.folders[f] = new[f]
      /\ \A f \in DOMAIN s.folders \ DOMAIN new : t.folders[f] = s.folders[f]
  <2> HIDE DEF t
  <2> QED
    BY <1>1, WithFacts DEF t
<1>3. \A f \in DOMAIN s.folders : FolderOK(s.folders[f], DOMAIN s.folders)
  BY DEF Struct, Typed
<1> HIDE DEF t
<1>4. \A f \in DOMAIN s.folders : IsStill(s.folders[f], t.folders[f], DOMAIN s.folders)
  BY <1>2, <1>3 DEF IsStill
<1>5. Still(s, t) /\ SameFocus(s, t)
  BY <1>2, <1>4 DEF Still, Alike, IsStill, SameFocus
<1> QED
  BY <1>5 DEF t

LEMMA MarkedStill ==
  ASSUME NEW s, Struct(s), NEW f \in DOMAIN s.folders, NEW x,
         IsStill(s.folders[f], x, DOMAIN s.folders)
  PROVE  Still(s, [s EXCEPT !.folders[f] = x])
<1> DEFINE t == [s EXCEPT !.folders[f] = x]
<1>1. /\ Alike(s, t) /\ t.folders[f] = x
      /\ \A g \in DOMAIN s.folders \ {f} : t.folders[g] = s.folders[g]
  BY MarkedFacts DEF IsStill
<1> HIDE DEF t
<1>2. \A g \in DOMAIN s.folders : t.folders[g].loaded = s.folders[g].loaded
  BY <1>1 DEF IsStill
<1>3. Still(s, t)
  BY <1>1, <1>2 DEF Still
<1> QED
  BY <1>3 DEF t

LEMMA SubtreesStill ==
  ASSUME NEW s, Struct(s), NEW F \in SUBSET DOMAIN s.folders
  PROVE  Still(s, UpdateSubtrees(s, F))
<1> DEFINE new == [g \in {h \in F : Sub(s, h) = {}} |->
                     [s.folders[g] EXCEPT !.expanded = FALSE]]
<1>1. UpdateSubtrees(s, F) = With(s, new)
  BY DEF UpdateSubtrees
<1>2. \A f \in DOMAIN new : IsStill(s.folders[f], new[f], DOMAIN s.folders)
  BY MarkIsStill DEF Struct, Typed
<1>3. DOMAIN new \subseteq DOMAIN s.folders
  OBVIOUS
<1> HIDE DEF new
<1> QED
  BY <1>1, <1>2, <1>3, WithStill

LEMMA AboveStill ==
  ASSUME NEW s, Struct(s), NEW f \in DOMAIN s.folders
  PROVE  Still(s, ExpandAbove(s, f)) /\ SameFocus(s, ExpandAbove(s, f))
<1> DEFINE new == [g \in Above(s, f) \ {f} |-> [s.folders[g] EXCEPT !.expanded = TRUE]]
<1>1. ExpandAbove(s, f) = With(s, new)
  BY DEF ExpandAbove
<1>2. DOMAIN new \subseteq DOMAIN s.folders
  BY AboveFacts
<1>3. \A g \in DOMAIN new : IsStill(s.folders[g], new[g], DOMAIN s.folders)
  BY <1>2, MarkIsStill DEF Struct, Typed
<1> HIDE DEF new
<1> QED
  BY <1>1, <1>2, <1>3, WithStill

LEMMA ActivateStill ==
  ASSUME NEW s, Struct(s), NEW f \in DOMAIN s.folders
  PROVE  Still(s, Activate(s, f))
<1>1. CASE s.active = f
  BY <1>1, Unmoved DEF Activate, Struct, Typed, Fields
<1>2. CASE s.active # f
  <2> DEFINE r == [s EXCEPT !.selected = {}, !.active = f]
  <2>1. DOMAIN r = Fields /\ r.folders = s.folders /\ r.tree = s.tree
    BY DEF Struct, Typed, Fields
  <2>2. Activate(s, f) = ExpandAbove(r, f)
    BY <1>2 DEF Activate
  <2> HIDE DEF r
  <2>3. Still(s, r) /\ Struct(r)
    BY <2>1, Unmoved, StillFacts
  <2>4. Still(r, Activate(s, f))
    BY <2>1, <2>2, <2>3, AboveStill
  <2> QED
    BY <2>3, <2>4, StillTransitive
<1> QED
  BY <1>1, <1>2

\* The folder that is active leaves: the one above it exists.
LEMMA LeaveStill ==
  ASSUME NEW s, Good(s), NEW f \in DOMAIN s.folders, NEW N \in SUBSET Listed(s, f)
  PROVE  LET cuts == Cuts(s, f, N)
         IN Still(s, Leave(Deselect(s, cuts), f, DOMAIN cuts \ {f}))
<1> DEFINE R == Removed(s, f, N)
           cuts == Cuts(s, f, N)
           r == Deselect(s, cuts)
           t == Leave(r, f, DOMAIN cuts \ {f})
<1>1. /\ R \subseteq DOMAIN s.folders /\ f \notin R
      /\ DOMAIN cuts = R \cup {f}
      /\ \A g \in R \cup {f} : cuts[g] \subseteq Listed(s, g)
      /\ \A h \in R : \E g \in R \cup {f} : \E n \in cuts[g] : Item(s, g, n) = h
  BY RemovedFacts DEF Good
<1>2. /\ DOMAIN r = Fields /\ r.folders = s.folders /\ r.tree = s.tree
      /\ r.active = s.active
  BY DEF Deselect, Good, Struct, Typed, Fields
<1> HIDE DEF R, cuts, r
<1>3. Still(s, r) /\ Struct(r)
  BY <1>2, Unmoved, StillFacts DEF Good
<1>4. CASE s.active \notin R
  BY <1>1, <1>2, <1>3, <1>4 DEF Leave, r, cuts, R
<1>5. CASE s.active \in R
  <2> DEFINE u == ExpandAbove(r, r.folders[r.active].parent)
  <2>1. t = Activate(u, f)
    BY <1>1, <1>2, <1>5 DEF Leave
  <2>2. PICK g \in R \cup {f} : \E n \in cuts[g] : Item(s, g, n) = s.active
    BY <1>1, <1>5
  <2>3. s.active # None
    BY <1>1, <1>5, NoneIsNoFolder DEF Good
  <2>4. Parent(s, s.active) = g
    BY <1>1, <2>2, <2>3, ChildFacts DEF Good
  <2>5. r.folders[r.active].parent \in DOMAIN r.folders
    BY <1>1, <1>2, <2>4 DEF Parent
  <2>6. Still(r, u)
    BY <1>3, <2>5, AboveStill
  <2> HIDE DEF u
  <2>7. Struct(u) /\ DOMAIN u.folders = DOMAIN s.folders
    BY <1>2, <1>3, <2>6, StillFacts
  <2>8. Still(u, t)
    <3> HIDE DEF t
    <3> QED
      BY <2>1, <2>7, ActivateStill
  <2>9. Still(s, t)
    BY <1>3, <2>6, <2>8, StillTransitive
  <2> QED
    BY <2>9 DEF r, cuts, R
<1> QED
  BY <1>4, <1>5

LEMMA BusyStill ==
  ASSUME NEW s, Struct(s), NEW f \in DOMAIN s.folders, NEW b \in BOOLEAN
  PROVE  Still(s, SetBusy(s, f, b)) /\ Still(s, SetExpanded(s, f, b))
<1> DEFINE x == [s.folders[f] EXCEPT !.busy = b]
           y == [s.folders[f] EXCEPT !.expanded = b]
<1>1. IsStill(s.folders[f], x, DOMAIN s.folders) /\ IsStill(s.folders[f], y, DOMAIN s.folders)
  BY MarkIsStill DEF Struct, Typed
<1>2. SetBusy(s, f, b) = [s EXCEPT !.folders[f] = x]
      /\ SetExpanded(s, f, b) = [s EXCEPT !.folders[f] = y]
  BY DEF SetBusy, SetExpanded
<1> HIDE DEF x, y
<1> QED
  BY <1>1, <1>2, MarkedStill

LEMMA LoadingStill ==
  ASSUME NEW s, Struct(s), NEW f \in DOMAIN s.folders
  PROVE  Still(s, StartLoading(s, f)) /\ Still(s, EndLoading(s, f))
<1> DEFINE x == [s.folders[f] EXCEPT !.loading = TRUE, !.busy = TRUE]
           y == [s.folders[f] EXCEPT !.loading = FALSE, !.busy = FALSE]
           S == IF s.active = f THEN {} ELSE s.selected
           r == [s EXCEPT !.selected = S]
           t == [r EXCEPT !.folders[f] = x]
           u == [s EXCEPT !.folders[f] = y]
<1>1. IsStill(s.folders[f], x, DOMAIN s.folders) /\ IsStill(s.folders[f], y, DOMAIN s.folders)
  BY MarkIsStill DEF Struct, Typed
<1>2. StartLoading(s, f) = t
  BY DEF StartLoading, Struct, Typed
<1>3. EndLoading(s, f) = IF s.folders[f].loading THEN u ELSE s
  BY DEF EndLoading, Struct, Typed
<1>4. /\ DOMAIN r = Fields /\ r.folders = s.folders /\ r.tree = s.tree
  BY DEF Struct, Typed, Fields
<1>5. Still(s, s)
  BY Unmoved DEF Struct, Typed, Fields
<1> HIDE DEF x, y, r, S
<1>6. Still(s, u)
  BY <1>1, MarkedStill
<1>7. Still(s, r) /\ Struct(r)
  BY <1>4, Unmoved, StillFacts
<1>8. Still(r, t)
  BY <1>1, <1>4, <1>7, MarkedStill
<1> QED
  BY <1>2, <1>3, <1>5, <1>6, <1>7, <1>8, StillTransitive

LEMMA ExpandLoadedStill ==
  ASSUME NEW s, Struct(s), NEW f \in DOMAIN s.folders
  PROVE  Still(s, ExpandLoaded(s, f))
<1>1. Still(s, s)
  BY Unmoved DEF Struct, Typed, Fields
<1> QED
  BY <1>1, BusyStill DEF ExpandLoaded

LEMMA SelectAllStill ==
  ASSUME NEW s, Struct(s), NEW f, NEW names
  PROVE  Still(s, SelectAll(s, f, names))
<1> DEFINE S == {[of |-> f, name |-> n] : n \in names}
           t == [s EXCEPT !.selected = S]
<1>1. DOMAIN s = Fields
  BY DEF Struct, Typed, Fields
<1>2. DOMAIN t = Fields /\ t.folders = s.folders /\ t.tree = s.tree
  BY <1>1 DEF Fields
<1>3. Still(s, s)
  BY <1>1, Unmoved
<1> HIDE DEF S, t
<1>4. Still(s, t)
  BY <1>2, Unmoved
<1> QED
  BY <1>3, <1>4 DEF SelectAll, S, t

-----------------------------------------------------------------------------
(* What the removal of items does to the rest of the tree. *)

LEMMA TreeForgotten ==
  ASSUME NEW s, Struct(s), NEW f \in DOMAIN s.folders, NEW F \in SUBSET Sub(s, f)
  PROVE  LET t == ForgetPaths(s, F)
             gone == {s.folders[g].path : g \in Below(s, F)}
         IN
         /\ \A g \in DOMAIN s.folders : t.folders[g].loaded = s.folders[g].loaded
         /\ DOMAIN t.tree = DOMAIN s.tree \ gone
         /\ \A b \in DOMAIN t.tree : t.tree[b] = s.tree[b]
<1> DEFINE B == Below(s, F)
           gone == {s.folders[g].path : g \in B}
           r == [s EXCEPT !.tree = Restrict(@, DOMAIN @ \ gone)]
           new == [g \in B |-> [s.folders[g] EXCEPT !.path = None]]
           t == With(r, new)
<1>1. t = ForgetPaths(s, F)
  BY DEF ForgetPaths, ForgetPath
<1>2. /\ DOMAIN r = Fields /\ r.folders = s.folders
      /\ DOMAIN r.tree = DOMAIN s.tree \ gone
      /\ \A b \in DOMAIN r.tree : r.tree[b] = s.tree[b]
  BY DEF Struct, Typed, Fields, Restrict
<1>3. B \subseteq DOMAIN s.folders /\ DOMAIN new = B
  BY BelowFacts
<1>4. ASSUME NEW g \in B
      PROVE  new[g].loaded = s.folders[g].loaded
  <2>1. FolderOK(s.folders[g], DOMAIN s.folders)
    BY <1>3 DEF Struct, Typed
  <2>2. new[g] = [s.folders[g] EXCEPT !.path = None]
    OBVIOUS
  <2> QED
    BY <2>1, <2>2 DEF FolderOK
<1> HIDE DEF r, new, t, B
<1>5. /\ t.tree = r.tree
      /\ \A g \in B : t.folders[g] = new[g]
      /\ \A g \in DOMAIN s.folders \ B : t.folders[g] = s.folders[g]
  BY <1>2, <1>3, WithFacts DEF t
<1>6. \A g \in DOMAIN s.folders : t.folders[g].loaded = s.folders[g].loaded
  BY <1>4, <1>5
<1> QED
  BY <1>1, <1>2, <1>5, <1>6 DEF B

LEMMA ParentsCut ==
  ASSUME NEW s, Struct(s), NEW f \in DOMAIN s.folders, NEW cuts,
         NEW R \in SUBSET DOMAIN s.folders, f \notin R, DOMAIN cuts = R \cup {f}
  PROVE  LET t == Cut(s, f, cuts) IN
         /\ t.tree = s.tree
         /\ \A g \in DOMAIN s.folders :
              /\ t.folders[g].loaded = s.folders[g].loaded
              /\ Parent(t, g) = IF g \in R THEN None ELSE Parent(s, g)
<1> DEFINE new == [g \in DOMAIN cuts |->
             [s.folders[g] EXCEPT !.items = Restrict(@, DOMAIN @ \ cuts[g]),
                                  !.parent = IF g = f THEN @ ELSE None,
                                  !.busy = IF g = f THEN @ ELSE FALSE]]
           t == With(s, new)
<1>1. t = Cut(s, f, cuts)
  BY DEF Cut
<1>2. DOMAIN new = R \cup {f}
  OBVIOUS
<1>3. ASSUME NEW g \in R \cup {f}
      PROVE  /\ new[g].loaded = s.folders[g].loaded
             /\ new[g].parent = IF g = f THEN s.folders[g].parent ELSE None
  <2> DEFINE x == s.folders[g]
             I == Restrict(x.items, DOMAIN x.items \ cuts[g])
             P == IF g = f THEN x.parent ELSE None
             B == IF g = f THEN x.busy ELSE FALSE
             y == [x EXCEPT !.items = I, !.parent = P, !.busy = B]
  <2>1. new[g] = y
    OBVIOUS
  <2>2. FolderOK(x, DOMAIN s.folders)
    BY DEF Struct, Typed
  <2> HIDE DEF x, I, P, B, new
  <2>3. y.parent = P /\ y.loaded = x.loaded
    BY <2>2, ExceptFacts
  <2> HIDE DEF y
  <2> QED
    BY <2>1, <2>3 DEF x, P
<1> HIDE DEF new
<1>4. /\ t.tree = s.tree
      /\ \A g \in DOMAIN new : t.folders[g] = new[g]
      /\ \A g \in DOMAIN s.folders \ DOMAIN new : t.folders[g] = s.folders[g]
  <2>1. DOMAIN s = Fields
    BY DEF Struct, Typed, Fields
  <2> HIDE DEF t
  <2> QED
    BY <2>1, WithFacts DEF t
<1> HIDE DEF t
<1>5. ASSUME NEW g \in DOMAIN s.folders
      PROVE  /\ t.folders[g].loaded = s.folders[g].loaded
             /\ t.folders[g].parent = IF g \in R THEN None ELSE s.folders[g].parent
  <2>1. CASE g \in R \cup {f}
    BY <1>2, <1>3, <1>4, <2>1
  <2>2. CASE g \notin R \cup {f}
    BY <1>2, <1>4, <2>2
  <2> QED
    BY <2>1, <2>2
<1> QED
  BY <1>1, <1>4, <1>5 DEF Parent

\* The folder f has lost the items N, and B is what was below them.
Uprooted(s, f, N, B, t) ==
  /\ DOMAIN t.folders = DOMAIN s.folders
  /\ DOMAIN t.tree = DOMAIN s.tree \ {s.folders[g].path : g \in B}
  /\ \A b \in DOMAIN t.tree : t.tree[b] = s.tree[b]
  /\ Listed(t, f) = Listed(s, f) \ N
  /\ \A g \in DOMAIN s.folders :
       /\ t.folders[g].loaded = s.folders[g].loaded
       /\ InPlace(t, g) <=> InPlace(s, g) /\ g \notin B
       /\ g \notin B \cup {f} => Listed(t, g) = Listed(s, g)
       /\ Parent(t, g) = Parent(s, g) \/ (g \in B /\ Parent(t, g) = None)
  /\ \A g \in Pick(s, f, N) : Parent(t, g) = None

LEMMA ItemsUprooted ==
  ASSUME NEW s, Good(s), NEW f \in DOMAIN s.folders, NEW N \in SUBSET Listed(s, f)
  PROVE  Uprooted(s, f, N, Below(s, Pick(s, f, N)), RemoveItems(s, f, N))
<1> DEFINE F == Pick(s, f, N)
           R == Removed(s, f, N)
           cuts == Cuts(s, f, N)
           a == Leave(Deselect(s, cuts), f, DOMAIN cuts \ {f})
           b == ForgetPaths(a, F)
           c == Cut(b, f, cuts)
           t == UpdateSubtrees(c, DOMAIN cuts)
           B == Below(s, F)
<1>1. t = RemoveItems(s, f, N)
  BY DEF RemoveItems, RemoveFrom, Detach
<1>2. Struct(s)
  BY DEF Good
<1>3. /\ R \subseteq B /\ R \subseteq DOMAIN s.folders
      /\ f \notin R /\ Root \notin R
      /\ DOMAIN cuts = R \cup {f} /\ cuts[f] = N
      /\ \A g \in R \cup {f} :
           /\ cuts[g] \subseteq Listed(s, g)
           /\ \A n \in cuts[g] : Item(s, g, n) # None => Item(s, g, n) \in R
      /\ \A h \in R : \E g \in R \cup {f} : \E n \in cuts[g] : Item(s, g, n) = h
  BY <1>2, RemovedFacts
<1>4. Still(s, a)
  BY LeaveStill
<1>5. F \subseteq Sub(s, f) /\ F \subseteq DOMAIN s.folders /\ f \notin B
  BY <1>2, PickFacts, SubFacts, BelowFacts
<1>6. \A g \in F : \E n \in N : Item(s, f, n) = g
  BY <1>2, PickFacts
<1> HIDE DEF F, R, cuts, a, b, c, t
<1>7. /\ Struct(a) /\ DOMAIN a.folders = DOMAIN s.folders /\ a.tree = s.tree /\ Alike(s, a)
      /\ \A g \in DOMAIN s.folders :
           /\ a.folders[g].items = s.folders[g].items
           /\ a.folders[g].parent = s.folders[g].parent
           /\ a.folders[g].path = s.folders[g].path
           /\ a.folders[g].loaded = s.folders[g].loaded
           /\ Sub(a, g) = Sub(s, g)
  <2>1. Struct(a) /\ \A g \in DOMAIN s.folders : Sub(a, g) = Sub(s, g)
    BY <1>2, <1>4, AlikeFacts DEF Still
  <2> QED
    BY <1>4, <2>1 DEF Still, Alike
<1>8. Below(a, F) = B
  BY <1>2, <1>5, <1>7, BelowAlike
<1>9. F \in SUBSET Sub(a, f) /\ f \in DOMAIN a.folders
  BY <1>5, <1>7
<1>10. /\ Struct(b) /\ DOMAIN b.folders = DOMAIN s.folders
       /\ \A g \in DOMAIN s.folders :
            /\ b.folders[g].items = s.folders[g].items
            /\ b.folders[g].parent = s.folders[g].parent
            /\ b.folders[g].path = IF g \in B THEN None ELSE s.folders[g].path
  BY <1>7, <1>8, <1>9, PathForgotten DEF b
<1>11. /\ \A g \in DOMAIN s.folders : b.folders[g].loaded = s.folders[g].loaded
       /\ DOMAIN b.tree = DOMAIN s.tree \ {s.folders[g].path : g \in B}
       /\ \A p \in DOMAIN b.tree : b.tree[p] = s.tree[p]
  <2>1. B \subseteq DOMAIN s.folders
    BY <1>2, <1>5, BelowFacts
  <2>2. {a.folders[g].path : g \in B} = {s.folders[g].path : g \in B}
    BY <1>7, <2>1
  <2> HIDE DEF B
  <2>3. /\ \A g \in DOMAIN a.folders : b.folders[g].loaded = a.folders[g].loaded
        /\ DOMAIN b.tree = DOMAIN a.tree \ {a.folders[g].path : g \in B}
        /\ \A p \in DOMAIN b.tree : b.tree[p] = a.tree[p]
    BY <1>7, <1>8, <1>9, TreeForgotten DEF b
  <2> QED
    BY <1>7, <2>2, <2>3
<1>12. \A g \in DOMAIN s.folders :
         /\ Listed(b, g) = Listed(s, g)
         /\ \A n : Item(b, g, n) = Item(s, g, n)
  BY <1>10 DEF Listed, Item
<1>13. \A g \in R \cup {f} : g \in DOMAIN s.folders
  BY <1>3
<1>14. /\ \A g \in R \cup {f} :
            /\ cuts[g] \subseteq Listed(b, g)
            /\ \A n \in cuts[g] : Item(b, g, n) # None => Item(b, g, n) \in R
       /\ \A h \in R : \E g \in R \cup {f} : \E n \in cuts[g] : Item(b, g, n) = h
       /\ \A h \in R : b.folders[h].path = None
  BY <1>3, <1>10, <1>12, <1>13
<1>15. /\ Struct(c) /\ DOMAIN c.folders = DOMAIN s.folders
       /\ \A g \in R \cup {f} : Listed(c, g) = Listed(b, g) \ cuts[g]
       /\ \A g \in DOMAIN s.folders \ (R \cup {f}) : c.folders[g] = b.folders[g]
       /\ \A g \in DOMAIN s.folders : c.folders[g].path = b.folders[g].path
  BY <1>3, <1>10, <1>14, CutFacts DEF c
<1>16. /\ c.tree = b.tree
       /\ \A g \in DOMAIN s.folders :
            /\ c.folders[g].loaded = b.folders[g].loaded
            /\ Parent(c, g) = IF g \in R THEN None ELSE Parent(b, g)
  <2>1. R \in SUBSET DOMAIN b.folders /\ f \in DOMAIN b.folders
    BY <1>3, <1>10
  <2> QED
    BY <1>3, <1>10, <2>1, ParentsCut DEF c
<1>17. Still(c, t)
  <2>1. DOMAIN cuts \in SUBSET DOMAIN c.folders
    BY <1>3, <1>13, <1>15
  <2> QED
    BY <1>15, <2>1, SubtreesStill DEF t
<1>18. /\ DOMAIN t.folders = DOMAIN s.folders /\ t.tree = c.tree
       /\ \A g \in DOMAIN s.folders :
            /\ InPlace(t, g) <=> InPlace(c, g)
            /\ Listed(t, g) = Listed(c, g)
            /\ t.folders[g].loaded = c.folders[g].loaded
            /\ Parent(t, g) = Parent(c, g)
  BY <1>15, <1>17, StillFacts
<1>19. Listed(t, f) = Listed(s, f) \ N
  BY <1>3, <1>12, <1>15, <1>18
<1>20. \A g \in DOMAIN s.folders :
         Parent(t, g) = IF g \in R THEN None ELSE Parent(s, g)
  BY <1>10, <1>16, <1>18 DEF Parent
<1>21. \A g \in F : g \in R
  <2> SUFFICES ASSUME NEW g \in F
               PROVE  g \in R
    OBVIOUS
  <2>1. PICK n \in N : Item(s, f, n) = g
    BY <1>6
  <2>2. g # None
    BY <1>2, <1>5, NoneIsNoFolder
  <2> QED
    BY <1>3, <2>1, <2>2
<1>22. ASSUME NEW g \in DOMAIN s.folders
       PROVE  /\ t.folders[g].loaded = s.folders[g].loaded
              /\ InPlace(t, g) <=> InPlace(s, g) /\ g \notin B
              /\ g \notin B \cup {f} => Listed(t, g) = Listed(s, g)
              /\ Parent(t, g) = Parent(s, g) \/ (g \in B /\ Parent(t, g) = None)
  <2>1. t.folders[g].loaded = s.folders[g].loaded
    BY <1>11, <1>16, <1>18
  <2>2. InPlace(t, g) <=> InPlace(s, g) /\ g \notin B
    BY <1>10, <1>15, <1>18 DEF InPlace
  <2>3. ASSUME g \notin B \cup {f}
        PROVE  Listed(t, g) = Listed(s, g)
    <3>1. c.folders[g] = b.folders[g]
      BY <1>3, <1>15, <2>3
    <3> QED
      BY <1>12, <1>18, <3>1 DEF Listed
  <2>4. Parent(t, g) = Parent(s, g) \/ (g \in B /\ Parent(t, g) = None)
    <3>1. R \subseteq B
      BY <1>3
    <3>2. Parent(t, g) = IF g \in R THEN None ELSE Parent(s, g)
      BY <1>20
    <3> HIDE DEF B
    <3> QED
      BY <3>1, <3>2
  <2> QED
    BY <2>1, <2>2, <2>3, <2>4
<1>23. \A g \in F : Parent(t, g) = None
  BY <1>5, <1>20, <1>21
<1> HIDE DEF B
<1>24. /\ DOMAIN t.tree = DOMAIN s.tree \ {s.folders[g].path : g \in B}
       /\ \A p \in DOMAIN t.tree : t.tree[p] = s.tree[p]
  BY <1>11, <1>16, <1>18
<1>25. Uprooted(s, f, N, B, t)
  BY <1>18, <1>19, <1>22, <1>23, <1>24 DEF Uprooted, F
<1> QED
  BY <1>1, <1>25 DEF B, F

LEMMA BelowPlaces ==
  ASSUME NEW s, Struct(s), NEW f \in DOMAIN s.folders, NEW F \in SUBSET Sub(s, f)
  PROVE  /\ \A g \in Below(s, F) : \E x \in F : IsPrefix(x.at, g.at)
         /\ \A g \in Below(s, F) \ F : Parent(s, g) \in Below(s, F)
<1> DEFINE down == [g \in Beneath(s, F) |-> Sub(s, g)]
<1>1. F \in SUBSET DOMAIN s.folders
  BY SubFacts
<1>2. F \subseteq DOMAIN down /\ \A g \in DOMAIN down : down[g] \subseteq DOMAIN down
  BY <1>1, BeneathFacts
<1>3. Below(s, F) = Reach(down, F) /\ DOMAIN down = Beneath(s, F)
      /\ \A g \in DOMAIN down : down[g] = Sub(s, g)
  BY DEF Below
<1> HIDE DEF down
<1>4. /\ Below(s, F) \subseteq Beneath(s, F)
      /\ \A g \in Below(s, F) \ F : \E h \in Below(s, F) : g \in down[h]
  BY <1>2, <1>3, ReachFacts
<1>5. ASSUME NEW g \in Below(s, F) \ F
      PROVE  Parent(s, g) \in Below(s, F)
  <2>1. PICK h \in Below(s, F) : g \in Sub(s, h)
    BY <1>3, <1>4
  <2>2. h \in DOMAIN s.folders
    BY <1>4 DEF Beneath
  <2> QED
    BY <2>1, <2>2, SubFacts
<1> QED
  BY <1>4, <1>5 DEF Beneath

\* From s to t only the content of the folder f has changed, and what was below it
\* may be gone.
Affects(s, t, f) ==
  /\ Good(t) /\ Placed(t) /\ DOMAIN s.folders \subseteq DOMAIN t.folders
  /\ \A g \in DOMAIN t.folders \ {f} :
       InPlace(t, g) /\ t.folders[g].loaded =>
         /\ g \in DOMAIN s.folders /\ InPlace(s, g) /\ s.folders[g].loaded
         /\ Listed(t, g) = Listed(s, g)
  /\ \A h \in DOMAIN s.folders :
       InPlace(s, h) /\ (h = f \/ ~IsPrefix(f.at, h.at)) => InPlace(t, h)

LEMMA AffectsTransitive ==
  ASSUME NEW s, NEW t, NEW u, NEW f, Affects(s, t, f), Affects(t, u, f)
  PROVE  Affects(s, u, f)
<1>1. \A g \in DOMAIN u.folders \ {f} :
        InPlace(u, g) /\ u.folders[g].loaded =>
          /\ g \in DOMAIN s.folders /\ InPlace(s, g) /\ s.folders[g].loaded
          /\ Listed(u, g) = Listed(s, g)
  BY DEF Affects
<1> QED
  BY <1>1 DEF Affects

LEMMA StillAffects ==
  ASSUME NEW s, NEW t, Good(s), Placed(s), Still(s, t), Good(t), NEW f
  PROVE  Affects(s, t, f)
BY StillFacts DEF Affects, Good

\* The folders that are gone are those at the places of the items, and below.
LEMMA GoneFromPlace ==
  ASSUME NEW s, Struct(s), Placed(s), NEW f \in DOMAIN s.folders, InPlace(s, f),
         NEW g \in DOMAIN s.folders, InPlace(s, g), NEW n \in Name,
         IsPrefix(Append(f.at, n), g.at)
  PROVE  /\ n \in Listed(s, f)
         /\ \A N \in SUBSET Listed(s, f) : n \in N => g \in Below(s, Pick(s, f, N))
<1>1. Append(f.at, n) \in Seq(Name)
  BY NoneIsNoFolder
<1>2. PICK h \in DOMAIN s.folders :
           /\ InPlace(s, h) /\ h.at = Append(f.at, n)
           /\ \A C : h \in C /\ (\A i \in C \cap DOMAIN s.folders : Sub(s, i) \subseteq C)
                => g \in C
  BY <1>1, OnTheWay
<1>3. n \in Listed(s, f) /\ Item(s, f, n) = h /\ h # None
  BY <1>2, ItemInPlace, NoneIsNoFolder
<1>4. ASSUME NEW N \in SUBSET Listed(s, f), n \in N
      PROVE  g \in Below(s, Pick(s, f, N))
  <2>1. h \in Pick(s, f, N) /\ Pick(s, f, N) \in SUBSET Sub(s, f)
    BY <1>3, <1>4, PickFacts
  <2>2. /\ h \in Below(s, Pick(s, f, N))
        /\ \A i \in Below(s, Pick(s, f, N)) : Sub(s, i) \subseteq Below(s, Pick(s, f, N))
    BY <2>1, BelowFacts
  <2> QED
    BY <1>2, <2>2
<1> QED
  BY <1>3, <1>4

LEMMA UprootedPlaced ==
  ASSUME NEW s, Struct(s), Placed(s), NEW f \in DOMAIN s.folders,
         NEW N \in SUBSET Listed(s, f), \A n \in N : ~Kept(Append(f.at, n)),
         NEW t, Uprooted(s, f, N, Below(s, Pick(s, f, N)), t)
  PROVE  Placed(t)
<1> DEFINE F == Pick(s, f, N)
           B == Below(s, F)
           gone == {s.folders[g].path : g \in B}
<1>1. F \in SUBSET Sub(s, f) /\ \A x \in F : \E n \in N : Item(s, f, n) = x
  BY PickFacts
<1> HIDE DEF F
<1>2. /\ F \subseteq B /\ B \subseteq DOMAIN s.folders
      /\ \A g \in B : Sub(s, g) \subseteq B
      /\ \A g \in B : \E x \in F : IsPrefix(x.at, g.at)
      /\ \A g \in B \ F : Parent(s, g) \in B
  BY <1>1, BelowFacts, BelowPlaces
<1>3. /\ DOMAIN t.folders = DOMAIN s.folders
      /\ DOMAIN t.tree = DOMAIN s.tree \ gone
      /\ \A b \in DOMAIN t.tree : t.tree[b] = s.tree[b]
      /\ \A g \in DOMAIN s.folders :
           /\ InPlace(t, g) <=> InPlace(s, g) /\ g \notin B
           /\ Parent(t, g) = Parent(s, g) \/ (g \in B /\ Parent(t, g) = None)
      /\ \A g \in F : Parent(t, g) = None
  BY DEF Uprooted, F
<1> HIDE DEF B, gone
<1>4. \A b \in DOMAIN s.tree : s.tree[b] \notin B => b \notin gone
  <2> SUFFICES ASSUME NEW b \in DOMAIN s.tree, NEW g \in B, s.folders[g].path = b
               PROVE  s.tree[b] = g
    BY DEF gone
  <2>1. b # None
    BY ConstantsAssumption DEF Struct, Typed
  <2>2. InPlace(s, g) /\ g \in DOMAIN s.folders
    BY <1>2, <2>1 DEF InPlace
  <2> QED
    BY <2>2, PlaceFacts
<1>5. ASSUME NEW g \in DOMAIN s.folders, InPlace(t, g)
      PROVE  g.at \in DOMAIN t.tree /\ t.tree[g.at] = g
  BY <1>3, <1>4, <1>5, PlaceFacts
<1>6. ASSUME NEW g \in DOMAIN s.folders, Parent(t, g) # None
      PROVE  InPlace(t, g) <=> InPlace(t, Parent(t, g))
  <2> DEFINE u == Parent(s, g)
  <2>1. Parent(t, g) = u /\ u # None
    BY <1>3, <1>6
  <2>2. u \in DOMAIN s.folders /\ g \in Sub(s, u)
    BY <2>1, ParentFacts
  <2>3. InPlace(s, g) <=> InPlace(s, u)
    BY <2>1 DEF Placed
  <2>4. g \notin F
    BY <1>3, <1>6
  <2>5. g \in B <=> u \in B
    BY <1>2, <2>2, <2>4
  <2> QED
    BY <1>3, <2>1, <2>2, <2>3, <2>5
<1>7. ASSUME NEW q \in Predefined
      PROVE  q \in DOMAIN t.tree /\ t.tree[q] = [at |-> q, gen |-> 0]
  <2>1. q \in DOMAIN s.tree /\ s.tree[q] = [at |-> q, gen |-> 0]
    BY DEF Placed
  <2>2. ASSUME s.tree[q] \in B
        PROVE  FALSE
    <3>1. PICK x \in F : IsPrefix(x.at, s.tree[q].at)
      BY <1>2, <2>2
    <3>2. PICK n \in N : Item(s, f, n) = x
      BY <1>1
    <3>3. x # None
      BY <1>1 DEF Sub
    <3>4. x.at = Append(f.at, n)
      BY <3>2, <3>3, ChildFacts
    <3>5. s.tree[q].at = q
      BY <2>1
    <3> QED
      BY <3>1, <3>4, <3>5 DEF Kept
  <2> QED
    BY <1>3, <1>4, <2>1, <2>2
<1> QED
  BY <1>3, <1>5, <1>6, <1>7 DEF Placed

\* removeItem() of items that lead to no predefined folder.
LEMMA RemovalAffects ==
  ASSUME NEW s, Good(s), Placed(s), NEW f \in DOMAIN s.folders, InPlace(s, f),
         NEW N \in SUBSET Listed(s, f), \A n \in N : ~Kept(Append(f.at, n))
  PROVE  LET t == RemoveItems(s, f, N) IN
         /\ Affects(s, t, f) /\ InPlace(t, f)
         /\ Listed(t, f) = Listed(s, f) \ N
         /\ t.folders[f].loaded = s.folders[f].loaded
         /\ \A g \in DOMAIN t.folders : InPlace(t, g) =>
              /\ g \in DOMAIN s.folders /\ InPlace(s, g)
              /\ \A n \in N : ~IsPrefix(Append(f.at, n), g.at)
<1> DEFINE F == Pick(s, f, N)
           B == Below(s, F)
           t == RemoveItems(s, f, N)
<1>1. Struct(s)
  BY DEF Good
<1>2. Good(t) /\ Uprooted(s, f, N, B, t)
  BY ItemsRemoved, ItemsUprooted
<1>3. Placed(t)
  <2> HIDE DEF t
  <2> QED
    BY <1>1, <1>2, UprootedPlaced
<1>4. F \in SUBSET Sub(s, f) /\ \A x \in F : \E n \in N : Item(s, f, n) = x
  BY <1>1, PickFacts
<1>5. \A g \in B : \E n \in N : IsPrefix(Append(f.at, n), g.at)
  <2> SUFFICES ASSUME NEW g \in B
               PROVE  \E n \in N : IsPrefix(Append(f.at, n), g.at)
    OBVIOUS
  <2>1. PICK x \in F : IsPrefix(x.at, g.at)
    BY <1>1, <1>4, BelowPlaces
  <2>2. PICK n \in N : Item(s, f, n) = x
    BY <1>4
  <2>3. x # None
    BY <1>4 DEF Sub
  <2> QED
    BY <1>1, <2>1, <2>2, <2>3, ChildFacts
<1>6. B \subseteq DOMAIN s.folders /\ f \notin B
  BY <1>1, <1>4, BelowFacts
<1>7. \A g \in B : IsPrefix(f.at, g.at)
  <2> SUFFICES ASSUME NEW g \in B
               PROVE  IsPrefix(f.at, g.at)
    OBVIOUS
  <2>1. PICK n \in N : IsPrefix(Append(f.at, n), g.at)
    BY <1>5
  <2>2. n \in Name /\ f.at \in Seq(Name) /\ g.at \in Seq(Name)
    <3>1. n \in Name
      BY <1>1 DEF Struct, Typed, FolderOK, Listed
    <3> HIDE DEF B
    <3> QED
      BY <1>1, <1>6, <3>1, NoneIsNoFolder
  <2> QED
    BY <2>1, <2>2, PrefixOfAppend
<1>8. \A g \in DOMAIN s.folders : InPlace(s, g) =>
        \A n \in N : IsPrefix(Append(f.at, n), g.at) => g \in B
  <2>1. \A n \in N : n \in Name
    BY <1>1 DEF Struct, Typed, FolderOK, Listed
  <2> QED
    BY <1>1, <2>1, GoneFromPlace
<1> HIDE DEF B, t
<1>9. /\ DOMAIN t.folders = DOMAIN s.folders
      /\ Listed(t, f) = Listed(s, f) \ N
      /\ \A g \in DOMAIN s.folders :
           /\ t.folders[g].loaded = s.folders[g].loaded
           /\ InPlace(t, g) <=> InPlace(s, g) /\ g \notin B
           /\ g \notin B \cup {f} => Listed(t, g) = Listed(s, g)
  BY <1>2 DEF Uprooted
<1>10. Affects(s, t, f)
  BY <1>2, <1>3, <1>6, <1>7, <1>9 DEF Affects
<1> QED
  BY <1>6, <1>8, <1>9, <1>10 DEF t

\* The same for whatever is in the folder of the items N.
LEMMA DropAffects ==
  ASSUME NEW s, Good(s), Placed(s), NEW f \in DOMAIN s.folders, InPlace(s, f),
         NEW N \in SUBSET Name, \A n \in N : ~Kept(Append(f.at, n))
  PROVE  LET t == DropItems(s, f, N) IN
         /\ Affects(s, t, f) /\ InPlace(t, f)
         /\ Listed(t, f) = Listed(s, f) \ N
         /\ t.folders[f].loaded = s.folders[f].loaded
         /\ \A g \in DOMAIN t.folders : InPlace(t, g) =>
              \A n \in N : ~IsPrefix(Append(f.at, n), g.at)
<1> DEFINE M == N \cap Listed(s, f)
           t == RemoveItems(s, f, M)
<1>1. t = DropItems(s, f, N)
  BY DEF DropItems
<1>2. M \in SUBSET Listed(s, f) /\ \A n \in M : ~Kept(Append(f.at, n))
  OBVIOUS
<1>3. Listed(s, f) \ M = Listed(s, f) \ N
  OBVIOUS
<1>4. \A n \in N : n \in Listed(s, f) => n \in M
  OBVIOUS
<1> HIDE DEF M
<1>5. /\ Affects(s, t, f) /\ InPlace(t, f)
      /\ Listed(t, f) = Listed(s, f) \ M
      /\ t.folders[f].loaded = s.folders[f].loaded
      /\ \A g \in DOMAIN t.folders : InPlace(t, g) =>
           /\ g \in DOMAIN s.folders /\ InPlace(s, g)
           /\ \A n \in M : ~IsPrefix(Append(f.at, n), g.at)
  BY <1>2, RemovalAffects
<1> HIDE DEF t
<1>6. ASSUME NEW g \in DOMAIN t.folders, InPlace(t, g), NEW n \in N,
             IsPrefix(Append(f.at, n), g.at)
      PROVE  FALSE
  <2>1. n \in Listed(s, f)
    BY <1>5, <1>6, GoneFromPlace DEF Good
  <2> QED
    BY <1>4, <1>5, <1>6, <2>1
<1> QED
  BY <1>1, <1>3, <1>5, <1>6

-----------------------------------------------------------------------------
(* What new items of a folder do to the rest of the tree. *)

\* The path of a new item of a folder in place.
LEMMA PathOfItem ==
  ASSUME NEW s, Struct(s), Placed(s), NEW f \in DOMAIN s.folders, InPlace(s, f),
         NEW n \in Name
  PROVE  PathOf(s, f, Append(f.at, n)) = Append(f.at, n)
<1> DEFINE p == Append(f.at, n)
           q == SubSeq(p, Len(f.at) + 1, Len(p))
<1>1. s.folders[f].path = f.at /\ f.at \in Seq(Name) /\ Len(f.at) \in Nat
  BY PlaceFacts
<1>2. PathIn(s, f) = f.at
  BY <1>1, PathInTree DEF InPlace, Root
<1>3. p \in Seq(Name) /\ Len(p) = Len(f.at) + 1 /\ p[Len(f.at) + 1] = n
      /\ \A i \in 1 .. Len(f.at) : p[i] = f.at[i]
  BY <1>1
<1> HIDE DEF p
<1>4. q \in Seq(Name) /\ Len(q) = 1 /\ q[1] = p[Len(f.at) + 1]
  <2> DEFINE k == Len(f.at)
  <2>1. k \in Nat /\ k + 1 \in Nat /\ k <= k + 1 /\ k + 1 <= Len(p)
        /\ (k + 1) - k = 1 /\ 1 \in 1 .. 1
    BY <1>1, <1>3
  <2> DEFINE r == SubSeq(p, k + 1, k + 1)
  <2>2. r \in Seq(Name) /\ Len(r) = (k + 1) - k /\ \A i \in 1 .. (k + 1) - k : r[i] = p[k + i]
    <3> HIDE DEF k
    <3> QED
      BY <1>3, <2>1, SubSeqFacts
  <2>3. r = q
    BY <1>3
  <2>4. r \in Seq(Name) /\ Len(r) = 1 /\ r[1] = p[k + 1]
    <3> HIDE DEF r, k
    <3> QED
      BY <2>1, <2>2
  <2> HIDE DEF r, q
  <2> QED
    BY <2>3, <2>4
<1>5. PathOf(s, f, p) = f.at \o q
  BY <1>2 DEF PathOf
<1> HIDE DEF q
<1>6. f.at \o q = p
  <2> DEFINE r == f.at \o q
  <2>1. r \in Seq(Name) /\ Len(r) = Len(f.at) + 1
        /\ (\A i \in 1 .. Len(f.at) : r[i] = f.at[i]) /\ r[Len(f.at) + 1] = q[1]
    <3> DEFINE a == f.at
    <3>1. a \in Seq(Name) /\ Len(a) \in Nat
      BY <1>1
    <3> HIDE DEF a
    <3>2. /\ a \o q \in Seq(Name) /\ Len(a \o q) = Len(a) + Len(q)
          /\ \A i \in 1 .. Len(a) + Len(q) :
               (a \o q)[i] = IF i <= Len(a) THEN a[i] ELSE q[i - Len(a)]
      BY <1>4, <3>1, ConcatProperties
    <3>3. Len(q) = 1
      BY <1>4
    <3> DEFINE l == Len(a)
               c == a \o q
    <3>4. /\ \A i \in 1 .. l : i \in 1 .. l + 1 /\ i <= l
          /\ l + 1 \in 1 .. l + 1 /\ ~(l + 1 <= l) /\ (l + 1) - l = 1
      BY <3>1
    <3> HIDE DEF l, c
    <3>5. c \in Seq(Name) /\ Len(c) = l + 1
          /\ (\A i \in 1 .. l : c[i] = a[i]) /\ c[l + 1] = q[1]
      BY <3>2, <3>3, <3>4 DEF l, c
    <3> QED
      BY <3>5 DEF a, l, c
  <2>2. \A i \in 1 .. Len(f.at) + 1 : r[i] = p[i]
    <3> SUFFICES ASSUME NEW i \in 1 .. Len(f.at) + 1
                 PROVE  r[i] = p[i]
      OBVIOUS
    <3> HIDE DEF r
    <3>1. CASE i = Len(f.at) + 1
      BY <1>4, <2>1, <3>1
    <3>2. CASE i # Len(f.at) + 1
      <4>1. i \in 1 .. Len(f.at)
        BY <1>1, <3>2
      <4> QED
        BY <1>3, <2>1, <4>1
    <3> QED
      BY <3>1, <3>2
  <2> HIDE DEF r
  <2>3. r = p
    BY <1>3, <2>1, <2>2
  <2> QED
    BY <2>3 DEF r
<1> QED
  BY <1>5, <1>6 DEF p

\* addContent() to a folder in place.
LEMMA AdditionAffects ==
  ASSUME NEW s, Good(s), Placed(s), NEW f \in DOMAIN s.folders, InPlace(s, f),
         NEW names \in SUBSET Name
  PROVE  LET t == AddContent(s, f, names) IN
         /\ Affects(s, t, f) /\ InPlace(t, f)
         /\ Listed(t, f) = Listed(s, f) \cup names
         /\ t.folders[f].loaded = s.folders[f].loaded
<1> DEFINE P == {Append(f.at, n) : n \in names \ Listed(s, f)}
           t == AddContent(s, f, names)
<1>1. /\ Struct(s) /\ f.at \in Seq(Name) /\ f # None
      /\ f.at \in DOMAIN s.tree /\ s.tree[f.at] = f
  BY PlaceFacts, NoneIsNoFolder DEF Good
<1>2. /\ Good(t) /\ DOMAIN s.folders \subseteq DOMAIN t.folders
      /\ Listed(t, f) = Listed(s, f) \cup names
  BY ContentAdded DEF Keeps
<1> HIDE DEF t
<1>3. PICK A, B, x : A \cup B = P /\ NewObjects(s, f, A, B, x) /\ Grown(s, f, x, t)
  BY ContentGrown DEF t
<1>4. \A p \in P : \E n \in Name : n \notin Listed(s, f) /\ p = Append(f.at, n)
  OBVIOUS
<1> HIDE DEF P
<1>5. \A p \in P : Front(p) = f.at /\ PathOf(s, f, p) = p /\ p \notin DOMAIN s.tree
  <2> SUFFICES ASSUME NEW p \in P
               PROVE  Front(p) = f.at /\ PathOf(s, f, p) = p /\ p \notin DOMAIN s.tree
    OBVIOUS
  <2>1. PICK n \in Name : n \notin Listed(s, f) /\ p = Append(f.at, n)
    BY <1>4
  <2>2. Front(p) = f.at /\ PathOf(s, f, p) = p
    BY <1>1, <2>1, AppendFacts, PathOfItem
  <2>3. ASSUME p \in DOMAIN s.tree
        PROVE  FALSE
    <3> DEFINE h == s.tree[p]
    <3>1. h \in DOMAIN s.folders /\ InPlace(s, h) /\ s.folders[h].path = p
      BY <1>1, <2>3, TreeFacts
    <3> HIDE DEF h
    <3>2. h.at = p
      BY <1>1, <3>1, PlaceFacts
    <3> QED
      BY <1>1, <2>1, <3>1, <3>2, ItemInPlace
  <2> QED
    BY <2>2, <2>3
<1> DEFINE M == Made(x)
<1>6. /\ M \cap DOMAIN s.folders = {}
      /\ \A g \in M : g.at \in P /\ x[g.at] = g
  BY <1>3 DEF NewObjects
<1>7. /\ DOMAIN t.folders = DOMAIN s.folders \cup M
      /\ \A g \in M : t.folders[g] = NewFolder(s, f, x, g.at)
      /\ t.folders[f] = Extended(s, f, ItemsAt(x, f.at))
      /\ \A g \in DOMAIN s.folders \ {f} : t.folders[g] = s.folders[g]
      /\ DOMAIN t.tree = DOMAIN s.tree \cup {PathOf(s, f, g.at) : g \in M}
      /\ \A b \in DOMAIN t.tree :
           \/ t.tree[b] \in M /\ PathOf(s, f, t.tree[b].at) = b
           \/ b \in DOMAIN s.tree /\ t.tree[b] = s.tree[b]
      /\ \A b \in DOMAIN s.tree :
           b \notin {PathOf(s, f, g.at) : g \in M} => t.tree[b] = s.tree[b]
  BY <1>3 DEF Grown
<1>8. ASSUME NEW g \in M
      PROVE  /\ Parent(t, g) = f /\ ~t.folders[g].loaded
             /\ t.folders[g].path = g.at /\ g.at # None
  <2>1. Front(g.at) = f.at /\ PathOf(s, f, g.at) = g.at
    BY <1>5, <1>6
  <2>2. /\ NewFolder(s, f, x, g.at).parent = f
        /\ NewFolder(s, f, x, g.at).path = g.at
        /\ NewFolder(s, f, x, g.at).loaded = FALSE
    BY <2>1 DEF NewFolder
  <2>3. g.at \in Path /\ g.at # None
    <3>1. PathOf(s, f, g.at) \in Path
      BY <1>3 DEF NewObjects
    <3> QED
      BY <2>1, <3>1, ConstantsAssumption
  <2> QED
    BY <1>7, <2>2, <2>3 DEF Parent
<1>9. /\ t.folders[f].parent = s.folders[f].parent
      /\ t.folders[f].path = s.folders[f].path
      /\ t.folders[f].loaded = s.folders[f].loaded
  <2>1. FolderOK(s.folders[f], DOMAIN s.folders)
    BY <1>1 DEF Struct, Typed
  <2> DEFINE z == Extended(s, f, ItemsAt(x, f.at))
             y == s.folders[f]
  <2>2. z.parent = y.parent /\ z.path = y.path /\ z.loaded = y.loaded
    BY <2>1 DEF Extended, FolderOK
  <2> HIDE DEF z, y
  <2> QED
    BY <1>7, <2>2 DEF z, y
<1>10. \A g \in DOMAIN s.folders :
         /\ Parent(t, g) = Parent(s, g)
         /\ InPlace(t, g) <=> InPlace(s, g)
         /\ t.folders[g].loaded = s.folders[g].loaded
  BY <1>7, <1>9 DEF Parent, InPlace
<1>11. \A g \in M : InPlace(t, g)
  BY <1>8 DEF InPlace
<1> HIDE DEF M
<1>12. /\ \A g \in M : g.at \in DOMAIN t.tree /\ g.at \notin DOMAIN s.tree
       /\ \A b \in DOMAIN s.tree : b \in DOMAIN t.tree /\ t.tree[b] = s.tree[b]
       /\ \A b \in DOMAIN t.tree \ DOMAIN s.tree : t.tree[b] \in M /\ t.tree[b].at = b
  BY <1>5, <1>6, <1>7
<1>13. ASSUME NEW g \in DOMAIN t.folders, InPlace(t, g)
       PROVE  g.at \in DOMAIN t.tree /\ t.tree[g.at] = g
  <2>1. CASE g \in M
    BY <1>6, <1>12, <2>1
  <2>2. CASE g \in DOMAIN s.folders
    <3>1. g.at \in DOMAIN s.tree /\ s.tree[g.at] = g
      BY <1>10, <1>13, <2>2 DEF Placed
    <3> QED
      BY <1>12, <3>1
  <2> QED
    BY <1>7, <2>1, <2>2
<1>14. ASSUME NEW g \in DOMAIN t.folders, Parent(t, g) # None
       PROVE  InPlace(t, g) <=> InPlace(t, Parent(t, g))
  <2>1. CASE g \in M
    BY <1>8, <1>10, <1>11, <2>1
  <2>2. CASE g \in DOMAIN s.folders
    <3>1. Parent(s, g) # None /\ Parent(t, g) = Parent(s, g)
      BY <1>10, <1>14, <2>2
    <3>2. Parent(s, g) \in DOMAIN s.folders
      BY <1>1, <2>2, <3>1, ParentFacts
    <3>3. InPlace(s, g) <=> InPlace(s, Parent(s, g))
      BY <2>2, <3>1 DEF Placed
    <3> QED
      BY <1>10, <2>2, <3>1, <3>2, <3>3
  <2> QED
    BY <1>7, <2>1, <2>2
<1>15. Placed(t)
  BY <1>12, <1>13, <1>14 DEF Placed
<1>16. \A g \in DOMAIN s.folders \ {f} : Listed(t, g) = Listed(s, g)
  BY <1>7 DEF Listed
<1>17. Affects(s, t, f)
  BY <1>2, <1>7, <1>8, <1>10, <1>15, <1>16 DEF Affects
<1> QED
  BY <1>2, <1>9, <1>10, <1>17 DEF t

-----------------------------------------------------------------------------
(* How far a browser is behind a server that has the entries srv. *)

\* The answer of the request in a slot is on its way, and it is about a folder.
Told(rs, k) == rs[k] # None /\ rs[k].path # None /\ rs[k].answer # None

Awaited(rs, f) == {k \in Slot : Told(rs, k) /\ rs[k].folder = f}
ToCome(rs, f) == UNION {rs[k].answer.added : k \in Awaited(rs, f)}
ToGo(rs, f) == UNION {rs[k].answer.removed : k \in Awaited(rs, f)}

\* An answer removes what is at a path, or something above.
Doomed(rs, p) ==
  \E k \in Slot : Told(rs, k) /\ \E n \in rs[k].answer.removed :
    IsPrefix(Append(rs[k].path, n), p)

\* A request is about a folder in place, under its path. Its answer says what the
\* server has, and nothing predefined goes.
Truthful(s, r, srv) ==
  /\ r.path = None => r.answer \in {None, NoContent}
  /\ r.path # None =>
       /\ r.path = r.folder.at /\ InPlace(s, r.folder)
       /\ r.op = "delete" => \A n \in r.on : ~Kept(Append(r.path, n))
       /\ r.answer # None =>
            /\ r.answer.removed \subseteq r.on \ NamesAt(srv, r.path)
            /\ r.answer.added \subseteq NamesAt(srv, r.path)
            /\ r.answer.content \in {None, NamesAt(srv, r.path)}
            /\ r.op # "delete" => r.answer.removed = {}
            /\ r.op \notin {"newfolder", "upload"} => r.answer.added = {}

\* What a folder lacks is to come. What it has too much is to go, or it leads to a
\* predefined folder.
UpTo(s, f, names, more, less) ==
  /\ names \ more \subseteq Listed(s, f)
  /\ \A n \in (Listed(s, f) \ names) \ less : Kept(Append(f.at, n))

\* So it is with all folders that are loaded and will stay.
Behind(s, rs, srv) ==
  \A f \in DOMAIN s.folders :
    InPlace(s, f) /\ s.folders[f].loaded /\ ~Doomed(rs, f.at) =>
      UpTo(s, f, NamesAt(srv, f.at), ToCome(rs, f), ToGo(rs, f))

(***************************************************************************)
(* ViewIsCurrent, strengthened: it speaks of a browser at rest, and this   *)
(* of one whose requests are anywhere between sent and answered.           *)
(***************************************************************************)
Synced(s, rs, srv) ==
  /\ ~Tangled(rs) /\ Placed(s)
  /\ \A k \in Slot : rs[k] # None => Truthful(s, rs[k], srv)
  /\ Behind(s, rs, srv)

\* The predefined folders are on the server from the beginning, and no request
\* of this browser removes one.
ViewInv ==
  /\ IInv
  /\ ~disturbed => Leading(Predefined) \subseteq server /\ Synced(ui, requests, server)

LEMMA StillSynced ==
  ASSUME NEW s, NEW t, Struct(s), Still(s, t), NEW rs, NEW srv, Synced(s, rs, srv),
         \A k \in Slot : rs[k] # None => rs[k].folder \in DOMAIN s.folders
  PROVE  Synced(t, rs, srv)
<1>1. /\ DOMAIN t.folders = DOMAIN s.folders
      /\ \A f \in DOMAIN s.folders :
              /\ InPlace(t, f) <=> InPlace(s, f)
              /\ Listed(t, f) = Listed(s, f)
              /\ t.folders[f].loaded = s.folders[f].loaded
      /\ Placed(t)
  BY StillFacts DEF Synced
<1>2. Behind(t, rs, srv)
  BY <1>1 DEF Synced, Behind, UpTo
<1>3. \A k \in Slot : rs[k] # None => Truthful(t, rs[k], srv)
  BY <1>1 DEF Synced, Truthful
<1> QED
  BY <1>1, <1>2, <1>3 DEF Synced

LEMMA CollectSynced ==
  ASSUME NEW s, Struct(s), s.active \in DOMAIN s.folders, NEW rs,
         \A k \in Slot : rs[k] # None => rs[k].folder \in DOMAIN s.folders,
         NEW srv, Synced(s, rs, srv)
  PROVE  Synced(Collect(s, rs), rs, srv)
<1> DEFINE t == Collect(s, rs)
<1>1. /\ t.tree = s.tree /\ DOMAIN t.folders \subseteq DOMAIN s.folders
      /\ \A f \in DOMAIN t.folders : t.folders[f] = s.folders[f]
      /\ \A f \in DOMAIN t.folders : s.folders[f].parent \in DOMAIN t.folders \cup {None}
  BY LinkedFacts
<1>2. \A k \in Slot : rs[k] # None => rs[k].folder \in DOMAIN t.folders
  BY LinkedFacts
<1> HIDE DEF t
<1>3. \A f \in DOMAIN t.folders :
        /\ f \in DOMAIN s.folders
        /\ InPlace(t, f) <=> InPlace(s, f)
        /\ Listed(t, f) = Listed(s, f)
        /\ t.folders[f].loaded = s.folders[f].loaded
        /\ Parent(t, f) = Parent(s, f)
  BY <1>1 DEF InPlace, Listed, Parent
<1>4. Placed(t)
  <2>1. \A f \in DOMAIN t.folders : Parent(t, f) \in DOMAIN t.folders \cup {None}
    BY <1>1 DEF Parent
  <2>2. \A f \in DOMAIN t.folders : InPlace(t, f) => f.at \in DOMAIN t.tree /\ t.tree[f.at] = f
    BY <1>1, <1>3 DEF Synced, Placed
  <2>3. \A f \in DOMAIN t.folders : Parent(t, f) # None =>
          (InPlace(t, f) <=> InPlace(t, Parent(t, f)))
    BY <1>3, <2>1 DEF Synced, Placed
  <2> QED
    BY <1>1, <2>2, <2>3 DEF Synced, Placed
<1>5. Behind(t, rs, srv)
  BY <1>3 DEF Synced, Behind, UpTo
<1>6. \A k \in Slot : rs[k] # None => Truthful(t, rs[k], srv)
  BY <1>2, <1>3 DEF Synced, Truthful
<1> QED
  BY <1>4, <1>5, <1>6 DEF Synced, t

\* A request of a folder that is not in place is over.
LEMMA UntoldOver ==
  ASSUME NEW s, NEW rs \in [Slot -> Request \cup {None}], NEW srv, Synced(s, rs, srv),
         NEW k \in Slot, rs[k] # None, rs[k].path = None
  PROVE  Synced(s, [rs EXCEPT ![k] = None], srv)
<1> DEFINE qs == [rs EXCEPT ![k] = None]
<1>1. qs[k] = None /\ \A l \in Slot \ {k} : qs[l] = rs[l]
  OBVIOUS
<1> HIDE DEF qs
<1>2. ~Tangled(qs)
  <2>1. ~Tangled(rs)
    BY DEF Synced
  <2> QED
    BY <1>1, <2>1 DEF Tangled
<1>3. \A l \in Slot : Told(qs, l) <=> Told(rs, l)
  BY <1>1 DEF Told
<1>4. \A l \in Slot : Told(qs, l) => qs[l] = rs[l]
  BY <1>1 DEF Told
<1>5. \A f : Awaited(qs, f) = Awaited(rs, f)
  BY <1>3, <1>4 DEF Awaited
<1>6. \A f : ToCome(qs, f) = ToCome(rs, f) /\ ToGo(qs, f) = ToGo(rs, f)
  <2>1. \A f : \A l \in Awaited(rs, f) : qs[l] = rs[l]
    BY <1>3, <1>4 DEF Awaited
  <2> QED
    BY <1>5, <2>1 DEF ToCome, ToGo
<1>7. \A p : Doomed(qs, p) <=> Doomed(rs, p)
  BY <1>3, <1>4 DEF Doomed
<1>8. Behind(s, qs, srv)
  BY <1>6, <1>7 DEF Synced, Behind
<1>9. \A l \in Slot : qs[l] # None => Truthful(s, qs[l], srv)
  BY <1>1 DEF Synced
<1> QED
  BY <1>2, <1>8, <1>9 DEF Synced, qs

\* The answer of a request is all that its folder waits for.
LEMMA OwnView ==
  ASSUME NEW s, Struct(s), NEW rs \in [Slot -> Request \cup {None}], NEW srv,
         Synced(s, rs, srv), NEW k \in Slot, Told(rs, k),
         rs[k].folder \in DOMAIN s.folders
  PROVE  LET f == rs[k].folder
             a == rs[k].answer
         IN
         /\ rs[k].path = f.at /\ InPlace(s, f) /\ f.at \in Seq(Name)
         /\ a \in Reply /\ rs[k].on \in SUBSET Name
         /\ \A l \in Slot \ {k} : rs[l] # None =>
              /\ rs[l].folder # f /\ rs[l].folder.at \in Seq(Name)
              /\ ~IsPrefix(f.at, rs[l].folder.at)
         /\ \A l \in Slot \ {k} : Told(rs, l) => \A n \in rs[l].answer.removed :
              ~IsPrefix(Append(rs[l].path, n), f.at)
         /\ s.folders[f].loaded => UpTo(s, f, NamesAt(srv, f.at), a.added, a.removed)
<1> DEFINE f == rs[k].folder
           a == rs[k].answer
<1>1. \A l \in Slot : rs[l] # None =>
        /\ rs[l].folder.at \in Seq(Name) /\ rs[l].on \in SUBSET Name
        /\ rs[l].answer # None => rs[l].answer \in Reply /\ rs[l].answer.removed \subseteq Name
        /\ Truthful(s, rs[l], srv)
  BY DEF Request, Reply, Id, Synced
<1>2. rs[k] # None /\ rs[k].path # None /\ a # None
  BY DEF Told
<1>3. rs[k].path = f.at /\ InPlace(s, f) /\ f.at \in Seq(Name)
  BY <1>1, <1>2 DEF Truthful
<1>4. \A l \in Slot \ {k} : rs[l] # None =>
        /\ rs[l].folder # f /\ ~IsPrefix(f.at, rs[l].folder.at)
        /\ ~IsPrefix(rs[l].folder.at, f.at)
  BY <1>2 DEF Synced, Tangled
<1>5. ASSUME NEW l \in Slot, Told(rs, l), NEW n \in rs[l].answer.removed
      PROVE  ~IsPrefix(Append(rs[l].path, n), f.at)
  <2>1. /\ rs[l].path = rs[l].folder.at /\ rs[l].path \in Seq(Name) /\ n \in Name
        /\ rs[l] # None
    BY <1>1, <1>5 DEF Told, Truthful
  <2>2. SUFFICES ASSUME IsPrefix(Append(rs[l].path, n), f.at)
                 PROVE  FALSE
    OBVIOUS
  <2>3. IsPrefix(rs[l].path, f.at) /\ Len(rs[l].path) < Len(f.at)
    BY <1>3, <2>1, <2>2, PrefixOfAppend
  <2>4. CASE l = k
    BY <1>3, <2>1, <2>3, <2>4
  <2>5. CASE l # k
    BY <1>4, <2>1, <2>3, <2>5
  <2> QED
    BY <2>4, <2>5
<1>6. ~Doomed(rs, f.at)
  BY <1>5 DEF Doomed
<1>7. Awaited(rs, f) = {k}
  <2>1. k \in Awaited(rs, f)
    BY DEF Awaited
  <2>2. \A l \in Awaited(rs, f) : l = k
    BY <1>4 DEF Awaited, Told
  <2> QED
    BY <2>1, <2>2 DEF Awaited
<1>8. ToCome(rs, f) = a.added /\ ToGo(rs, f) = a.removed
  BY <1>7 DEF ToCome, ToGo
<1>9. s.folders[f].loaded => UpTo(s, f, NamesAt(srv, f.at), a.added, a.removed)
  <2> HIDE DEF f, a
  <2>1. f \in DOMAIN s.folders
    BY DEF f
  <2> QED
    BY <1>3, <1>6, <1>8, <2>1 DEF Synced, Behind
<1> HIDE DEF f, a
<1>10. a \in Reply
  BY <1>1, <1>2 DEF a
<1> QED
  BY <1>1, <1>2, <1>3, <1>4, <1>5, <1>9, <1>10 DEF f, a

\* An answer has been worked into the folder that it is about.
LEMMA Delivered ==
  ASSUME NEW s, Struct(s), NEW rs \in [Slot -> Request \cup {None}], NEW srv,
         \A l \in Slot : rs[l] # None => rs[l].folder \in DOMAIN s.folders,
         Synced(s, rs, srv), NEW k \in Slot, Told(rs, k), NEW t,
         Affects(s, t, rs[k].folder), rs[k].folder \in DOMAIN t.folders,
         t.folders[rs[k].folder].loaded =>
           UpTo(t, rs[k].folder, NamesAt(srv, rs[k].path), {}, {}),
         \A g \in DOMAIN t.folders : InPlace(t, g) =>
           \A n \in rs[k].answer.removed : ~IsPrefix(Append(rs[k].path, n), g.at)
  PROVE  Synced(t, [rs EXCEPT ![k] = None], srv)
<1> DEFINE qs == [rs EXCEPT ![k] = None]
           f == rs[k].folder
<1>1. qs[k] = None /\ \A l \in Slot \ {k} : qs[l] = rs[l]
  OBVIOUS
<1> HIDE DEF qs
<1>2. /\ rs[k].path = f.at /\ f.at \in Seq(Name) /\ rs[k] # None
      /\ \A l \in Slot \ {k} : rs[l] # None =>
           rs[l].folder # f /\ ~IsPrefix(f.at, rs[l].folder.at)
      /\ \A l \in Slot \ {k} : Told(rs, l) => \A n \in rs[l].answer.removed :
           ~IsPrefix(Append(rs[l].path, n), f.at)
  BY OwnView DEF Told
<1>3. \A l \in Slot : Told(qs, l) <=> l # k /\ Told(rs, l)
  BY <1>1 DEF Told
<1>4. \A l \in Slot : Told(qs, l) => qs[l] = rs[l]
  BY <1>1 DEF Told
<1>5. ~Tangled(qs)
  <2>1. ~Tangled(rs)
    BY DEF Synced
  <2> QED
    BY <1>1, <2>1 DEF Tangled
<1>6. \A l \in Slot : qs[l] # None => Truthful(t, qs[l], srv)
  <2> SUFFICES ASSUME NEW l \in Slot, qs[l] # None
               PROVE  Truthful(t, rs[l], srv)
    BY <1>1
  <2>1. l # k /\ rs[l] # None /\ rs[l].folder \in DOMAIN s.folders
    BY <1>1
  <2>2. Truthful(s, rs[l], srv)
    BY <2>1 DEF Synced
  <2>3. InPlace(s, rs[l].folder) => InPlace(t, rs[l].folder)
    BY <1>2, <2>1 DEF Affects
  <2> QED
    BY <2>2, <2>3 DEF Truthful
<1>7. ASSUME NEW g \in DOMAIN t.folders, InPlace(t, g), t.folders[g].loaded,
             ~Doomed(qs, g.at)
      PROVE  UpTo(t, g, NamesAt(srv, g.at), ToCome(qs, g), ToGo(qs, g))
  <2>1. CASE g = f
    <3>1. UpTo(t, g, NamesAt(srv, g.at), {}, {})
      BY <1>2, <1>7, <2>1
    <3> QED
      BY <3>1 DEF UpTo
  <2>2. CASE g # f
    <3>1. /\ g \in DOMAIN s.folders /\ InPlace(s, g) /\ s.folders[g].loaded
          /\ Listed(t, g) = Listed(s, g)
      BY <1>7, <2>2 DEF Affects
    <3>2. ~Doomed(rs, g.at)
      BY <1>3, <1>4, <1>7 DEF Doomed
    <3>3. Awaited(qs, g) = Awaited(rs, g)
      BY <1>3, <1>4, <2>2 DEF Awaited
    <3>4. \A l \in Awaited(rs, g) : qs[l] = rs[l]
      BY <1>3, <1>4, <2>2 DEF Awaited
    <3>5. ToCome(qs, g) = ToCome(rs, g) /\ ToGo(qs, g) = ToGo(rs, g)
      BY <3>3, <3>4 DEF ToCome, ToGo
    <3>6. UpTo(s, g, NamesAt(srv, g.at), ToCome(rs, g), ToGo(rs, g))
      BY <3>1, <3>2 DEF Synced, Behind
    <3> QED
      BY <3>1, <3>5, <3>6 DEF UpTo
  <2> QED
    BY <2>1, <2>2
<1>8. Placed(t)
  BY DEF Affects
<1> QED
  BY <1>5, <1>6, <1>7, <1>8 DEF Synced, Behind, qs

-----------------------------------------------------------------------------
(* An answer is worked in. *)

LEMMA StillAfter ==
  ASSUME NEW s, NEW t, NEW u, NEW f, Affects(s, t, f), f \in DOMAIN t.folders,
         InPlace(t, f), Still(t, u), Good(u)
  PROVE  /\ Affects(s, u, f) /\ InPlace(u, f) /\ Listed(u, f) = Listed(t, f)
         /\ u.folders[f].loaded = t.folders[f].loaded
         /\ DOMAIN u.folders = DOMAIN t.folders
         /\ \A g \in DOMAIN t.folders : InPlace(u, g) <=> InPlace(t, g)
<1>1. Good(t) /\ Placed(t) /\ Struct(t)
  BY DEF Affects, Good
<1>2. Affects(t, u, f)
  BY <1>1, StillAffects
<1>3. Affects(s, u, f)
  BY <1>2, AffectsTransitive
<1> QED
  BY <1>1, <1>3, StillFacts

LEMMA LoadedAffects ==
  ASSUME NEW s, Good(s), Placed(s), NEW f \in DOMAIN s.folders, InPlace(s, f)
  PROVE  LET t == SetLoaded(s, f) IN
         Affects(s, t, f) /\ InPlace(t, f) /\ Listed(t, f) = Listed(s, f)
<1> DEFINE t == SetLoaded(s, f)
<1>1. Struct(s) /\ DOMAIN s = Fields
  BY DEF Good, Struct, Typed, Fields
<1>2. Good(t) /\ Alike(s, t)
  BY LoadedSet DEF Remarked
<1>3. \A g \in DOMAIN s.folders \ {f} : t.folders[g] = s.folders[g]
  BY <1>1 DEF SetLoaded, Fields
<1> HIDE DEF t
<1>4. /\ DOMAIN t.folders = DOMAIN s.folders /\ t.tree = s.tree
      /\ \A g \in DOMAIN s.folders :
           /\ InPlace(t, g) <=> InPlace(s, g)
           /\ Listed(t, g) = Listed(s, g)
           /\ Parent(t, g) = Parent(s, g)
  BY <1>2 DEF Alike, InPlace, Listed, Parent
<1>5. Placed(t)
  <2>1. \A g \in DOMAIN s.folders : Parent(s, g) \in DOMAIN s.folders \cup {None}
    BY <1>1, ParentFacts
  <2> QED
    BY <1>4, <2>1 DEF Placed
<1>6. Affects(s, t, f)
  BY <1>2, <1>3, <1>4, <1>5 DEF Affects
<1> QED
  BY <1>4, <1>6 DEF t

LEMMA ContentAffects ==
  ASSUME NEW s, Good(s), Placed(s), NEW f \in DOMAIN s.folders, InPlace(s, f),
         NEW content \in SUBSET Name
  PROVE  LET t == SetContent(s, f, content) IN
         Affects(s, t, f) /\ InPlace(t, f) /\ UpTo(t, f, content, {}, {})
<1> DEFINE N == Outdated(s, f, content)
           a == RemoveItems(s, f, N)
           b == AddContent(a, f, content)
           c == SetLoaded(b, f)
           t == UpdateSubtrees(c, {f})
<1>1. Struct(s) /\ f.at \in Seq(Name) /\ Listed(s, f) \subseteq Name
  BY NoneIsNoFolder DEF Good, Struct, Typed, FolderOK, Listed
<1>2. N \in SUBSET Listed(s, f) /\ \A n \in N : ~Kept(Append(f.at, n))
  BY <1>1, KeptLeads DEF Outdated
<1>3. \A n \in (Listed(s, f) \ content) \ N : Kept(Append(f.at, n))
  BY <1>1, LeadsKept DEF Outdated
<1> HIDE DEF N
<1>4. Affects(s, a, f) /\ InPlace(a, f) /\ Listed(a, f) = Listed(s, f) \ N
  BY <1>2, RemovalAffects
<1>5. f \in DOMAIN a.folders /\ Good(a) /\ Placed(a)
  BY <1>4 DEF Affects
<1> HIDE DEF a
<1>6. Affects(a, b, f) /\ InPlace(b, f) /\ Listed(b, f) = Listed(a, f) \cup content
  BY <1>4, <1>5, AdditionAffects
<1>7. f \in DOMAIN b.folders /\ Good(b) /\ Placed(b)
  BY <1>5, <1>6 DEF Affects
<1> HIDE DEF b
<1>8. Affects(b, c, f) /\ InPlace(c, f) /\ Listed(c, f) = Listed(b, f)
  BY <1>6, <1>7, LoadedAffects
<1>9. f \in DOMAIN c.folders /\ Good(c) /\ Struct(c)
  BY <1>7, <1>8 DEF Affects, Good
<1> HIDE DEF c
<1>10. Affects(s, c, f)
  BY <1>4, <1>6, <1>8, AffectsTransitive
<1>11. Still(c, t) /\ Good(t)
  <2>1. {f} \in SUBSET DOMAIN c.folders
    BY <1>9
  <2>2. Still(c, t) /\ Remarked(c, t) /\ SameFocus(c, t)
    BY <1>9, <2>1, SubtreesStill, SubtreesUpdated
  <2> HIDE DEF t
  <2> QED
    BY <1>9, <2>2, GoodRemarked
<1> HIDE DEF t
<1>12. Affects(s, t, f) /\ InPlace(t, f) /\ Listed(t, f) = Listed(c, f)
  BY <1>8, <1>9, <1>10, <1>11, StillAfter
<1>13. Listed(t, f) = (Listed(s, f) \ N) \cup content
  BY <1>4, <1>6, <1>8, <1>12
<1>14. UpTo(t, f, content, {}, {})
  BY <1>3, <1>13 DEF UpTo
<1> QED
  BY <1>12, <1>14 DEF t, c, b, a, N, SetContent

LEMMA RemovalProcessed ==
  ASSUME NEW s, Good(s), Placed(s), NEW f \in DOMAIN s.folders, InPlace(s, f),
         NEW names \in SUBSET Name, \A n \in names : ~Kept(Append(f.at, n))
  PROVE  LET t == ProcessRemoved(s, f.at, names) IN
         /\ Affects(s, t, f) /\ InPlace(t, f)
         /\ Listed(t, f) = Listed(s, f) \ names
         /\ t.folders[f].loaded = s.folders[f].loaded
         /\ \A g \in DOMAIN t.folders : InPlace(t, g) =>
              \A n \in names : ~IsPrefix(Append(f.at, n), g.at)
<1>1. f.at \in DOMAIN s.tree /\ s.tree[f.at] = f
  BY PlaceFacts DEF Good
<1>2. ProcessRemoved(s, f.at, names) = DropItems(s, f, names)
  BY <1>1 DEF ProcessRemoved
<1> QED
  BY <1>2, DropAffects

LEMMA AdditionProcessed ==
  ASSUME NEW s, Good(s), Placed(s), NEW f \in DOMAIN s.folders, InPlace(s, f),
         NEW names \in SUBSET Name
  PROVE  LET t == ProcessAdded(s, f.at, names) IN
         /\ Affects(s, t, f) /\ InPlace(t, f)
         /\ Listed(t, f) = Listed(s, f) \cup names
         /\ t.folders[f].loaded = s.folders[f].loaded
<1> DEFINE t == ProcessAdded(s, f.at, names)
           u == AddContent(s, f, names)
<1>1. CASE names = {}
  <2>1. t = s
    BY <1>1 DEF ProcessAdded
  <2>2. Affects(s, s, f)
    BY DEF Affects
  <2> HIDE DEF t
  <2> QED
    BY <1>1, <2>1, <2>2 DEF t
<1>2. CASE names # {}
  <2>1. f.at \in DOMAIN s.tree /\ s.tree[f.at] = f
    BY PlaceFacts DEF Good
  <2>2. AddFolder(s, f.at) = s
    BY <2>1 DEF AddFolder
  <2>3. t = AddTo(s, f, names)
    BY <1>2, <2>1, <2>2 DEF ProcessAdded, AddAt
  <2>4. Good(t)
    BY <2>3, AddedTo DEF Keeps
  <2>5. t = SelectAll(u, f, names)
    BY <2>3 DEF AddTo
  <2>6. /\ Affects(s, u, f) /\ InPlace(u, f)
        /\ Listed(u, f) = Listed(s, f) \cup names
        /\ u.folders[f].loaded = s.folders[f].loaded
    BY AdditionAffects
  <2> HIDE DEF t, u
  <2>7. f \in DOMAIN u.folders /\ Struct(u)
    BY <2>6 DEF Affects, Good
  <2>8. Still(u, t)
    BY <2>5, <2>7, SelectAllStill
  <2> QED
    BY <2>4, <2>6, <2>7, <2>8, StillAfter, SMTT(40) DEF t
<1> QED
  BY <1>1, <1>2

LEMMA LoadingOver ==
  ASSUME NEW s, Good(s), NEW f \in DOMAIN s.folders
  PROVE  LET t == ExpandLoaded(EndLoading(s, f), f) IN Still(s, t) /\ Good(t)
<1> DEFINE u == EndLoading(s, f)
           t == ExpandLoaded(u, f)
<1>1. Struct(s)
  BY DEF Good
<1>2. Still(s, u) /\ Good(u)
  BY <1>1, LoadingStill, LoadingEnded DEF Keeps
<1>3. Struct(u) /\ f \in DOMAIN u.folders
  BY <1>1, <1>2, StillFacts
<1> HIDE DEF u
<1>4. Still(u, t)
  BY <1>3, ExpandLoadedStill
<1>5. Good(t)
  <2>1. CASE Sub(u, f) = {}
    BY <1>2, <2>1 DEF ExpandLoaded
  <2>2. CASE Sub(u, f) # {}
    <3>1. Good(SetExpanded(u, f, TRUE))
      BY <1>2, <1>3, <2>2, ExpandedSet
    <3> QED
      BY <2>2, <3>1 DEF ExpandLoaded
  <2> QED
    BY <2>1, <2>2
<1> QED
  BY <1>2, <1>4, <1>5, StillTransitive DEF t, u

LEMMA CompletedStill ==
  ASSUME NEW s, Good(s), NEW r, r.folder \in DOMAIN s.folders,
         NEW content \in (SUBSET Name) \cup {None}, r.op # "browse" \/ content = None
  PROVE  LET t == Complete(s, r, content) IN Still(s, t) /\ Good(t)
<1> DEFINE a == SetBusy(s, r.folder, FALSE)
           t == Complete(s, r, content)
<1>1. Good(t)
  BY Completed DEF Keeps
<1>2. Struct(s) /\ Still(s, a) /\ Good(a)
  <2>1. Struct(s)
    BY DEF Good
  <2>2. IsBusySet(s, r.folder, FALSE, a)
    BY <2>1, BusySet
  <2>3. Still(s, a)
    BY <2>1, BusyStill
  <2> QED
    BY <2>1, <2>2, <2>3 DEF IsBusySet
<1> HIDE DEF a
<1>3. r.folder \in DOMAIN a.folders
  BY <1>2, StillFacts
<1>4. Still(s, t)
  <2>1. CASE r.op # "browse"
    BY <1>2, <2>1 DEF Complete, a
  <2>2. CASE r.op = "browse"
    <3>1. t = ExpandLoaded(EndLoading(a, r.folder), r.folder)
      BY <2>2 DEF Complete, LoadComplete, a
    <3>2. Still(a, t)
      BY <1>2, <1>3, <3>1, LoadingOver
    <3> QED
      BY <1>2, <3>2, StillTransitive
  <2> QED
    BY <2>1, <2>2
<1> QED
  BY <1>1, <1>4

LEMMA CompletedContent ==
  ASSUME NEW s, Good(s), Placed(s), NEW r, r.folder \in DOMAIN s.folders,
         InPlace(s, r.folder), r.op = "browse", NEW content \in SUBSET Name
  PROVE  LET t == Complete(s, r, content) IN
         /\ Affects(s, t, r.folder) /\ InPlace(t, r.folder)
         /\ UpTo(t, r.folder, content, {}, {})
<1> DEFINE f == r.folder
           a == SetBusy(s, f, FALSE)
           b == SetContent(a, f, content)
           t == ExpandLoaded(EndLoading(b, f), f)
<1>1. Complete(s, r, content) = t
  BY ConstantsAssumption DEF Complete, LoadComplete
<1>2. Still(s, a) /\ Good(a)
  <2>1. Struct(s)
    BY DEF Good
  <2>2. IsBusySet(s, f, FALSE, a)
    BY <2>1, BusySet
  <2>3. Still(s, a)
    BY <2>1, BusyStill
  <2> QED
    BY <2>2, <2>3 DEF IsBusySet
<1> HIDE DEF f
<1>3. f \in DOMAIN s.folders /\ InPlace(s, f)
  BY DEF f
<1>4. f \in DOMAIN a.folders /\ InPlace(a, f) /\ Placed(a)
  BY <1>2, <1>3, StillFacts DEF Good
<1>5. Affects(s, a, f)
  BY <1>2, StillAffects
<1> HIDE DEF a
<1>6. Affects(a, b, f) /\ InPlace(b, f) /\ UpTo(b, f, content, {}, {})
  BY <1>2, <1>4, ContentAffects
<1>7. f \in DOMAIN b.folders /\ Good(b)
  BY <1>4, <1>6 DEF Affects
<1>8. Affects(s, b, f)
  BY <1>5, <1>6, AffectsTransitive
<1> HIDE DEF b
<1>9. Still(b, t) /\ Good(t)
  BY <1>7, LoadingOver
<1> HIDE DEF t
<1>10. Affects(s, t, f) /\ InPlace(t, f) /\ Listed(t, f) = Listed(b, f)
  BY <1>6, <1>7, <1>8, <1>9, StillAfter
<1>11. UpTo(t, f, content, {}, {})
  BY <1>6, <1>10 DEF UpTo
<1> QED
  BY <1>1, <1>10, <1>11 DEF f

\* An answer that is not of a folder's content has been worked in.
LEMMA ChangesUpTo ==
  ASSUME NEW s, NEW t, NEW f, NEW names, NEW more, NEW less,
         UpTo(s, f, names, more, less), more \subseteq names, less \cap names = {},
         Listed(t, f) = (Listed(s, f) \ less) \cup more
  PROVE  UpTo(t, f, names, {}, {})
BY DEF UpTo

LEMMA DeliverSynced ==
  ASSUME NEW s, NEW rs, Valid(s, rs), NEW srv, Synced(s, rs, srv),
         NEW k \in Slot, rs[k] # None, rs[k].answer # None
  PROVE  LET r == rs[k]
             a == r.answer
             t == Complete(ProcessAdded(ProcessRemoved(s, r.path, a.removed), r.path, a.added),
                           r, a.content)
         IN Synced(t, [rs EXCEPT ![k] = None], srv)
<1> DEFINE r == rs[k]
           a == r.answer
           f == r.folder
           s1 == ProcessRemoved(s, r.path, a.removed)
           s2 == ProcessAdded(s1, r.path, a.added)
           t == Complete(s2, r, a.content)
           qs == [rs EXCEPT ![k] = None]
<1>1. /\ Good(s) /\ Struct(s) /\ Typed(s) /\ Placed(s)
      /\ rs \in [Slot -> Request \cup {None}]
      /\ \A l \in Slot : rs[l] # None => rs[l].folder \in DOMAIN s.folders
  BY DEF Valid, Good, Struct, Synced
<1>2. f \in DOMAIN s.folders /\ r \in Request /\ a \in Reply
  <2>1. f \in DOMAIN s.folders /\ r \in Request
    BY <1>1
  <2>2. r.answer # None /\ r.answer \in Reply \cup {None}
    BY <2>1 DEF Request
  <2> QED
    BY <2>1, <2>2
<1>3. /\ a.removed \in SUBSET Name /\ a.added \in SUBSET Name
      /\ a.content \in (SUBSET Name) \cup {None}
  BY <1>2 DEF Reply
<1>4. Truthful(s, r, srv)
  BY DEF Synced
<1>5. ASSUME r.path = None
      PROVE  Synced(t, qs, srv)
  <2>1. a = NoContent
    BY <1>4, <1>5 DEF Truthful
  <2>2. a.removed = {} /\ a.added = {} /\ a.content = None
    BY <2>1 DEF NoContent
  <2>3. None \notin DOMAIN s.tree
    BY <1>1, ConstantsAssumption DEF Typed
  <2>4. s1 = s /\ s2 = s
    BY <1>5, <2>2, <2>3 DEF ProcessRemoved, ProcessAdded
  <2>5. Still(s, t)
    BY <1>1, <1>2, <1>3, <2>2, <2>4, CompletedStill
  <2> HIDE DEF t, r, a, s1, s2
  <2>6. Synced(t, rs, srv)
    BY <1>1, <2>5, StillSynced
  <2> QED
    BY <1>1, <1>5, <2>6, UntoldOver DEF r
<1>6. ASSUME r.path # None
      PROVE  Synced(t, qs, srv)
  <2>1. Told(rs, k)
    BY <1>6 DEF Told
  <2>2. /\ r.path = f.at /\ InPlace(s, f)
        /\ s.folders[f].loaded => UpTo(s, f, NamesAt(srv, f.at), a.added, a.removed)
    BY <1>1, <2>1, OwnView
  <2>3. /\ r.op = "delete" => \A n \in r.on : ~Kept(Append(f.at, n))
        /\ a.removed \subseteq r.on \ NamesAt(srv, f.at)
        /\ a.added \subseteq NamesAt(srv, f.at)
        /\ a.content \in {None, NamesAt(srv, f.at)}
        /\ r.op # "delete" => a.removed = {}
        /\ r.op \notin {"newfolder", "upload"} => a.added = {}
    BY <1>4, <1>6, <2>2 DEF Truthful
  <2>4. \A n \in a.removed : ~Kept(Append(f.at, n))
    BY <2>3
  <2> HIDE DEF r, a, f, qs
  <2>5. /\ Affects(s, s1, f) /\ InPlace(s1, f)
        /\ Listed(s1, f) = Listed(s, f) \ a.removed
        /\ s1.folders[f].loaded = s.folders[f].loaded
        /\ \A g \in DOMAIN s1.folders : InPlace(s1, g) =>
             \A n \in a.removed : ~IsPrefix(Append(f.at, n), g.at)
    BY <1>1, <1>2, <1>3, <2>2, <2>4, RemovalProcessed, SMTT(40)
  <2>6. Good(s1) /\ Placed(s1) /\ f \in DOMAIN s1.folders
    BY <1>2, <2>5 DEF Affects
  <2>7. a.added = {} => s2 = s1
    BY DEF ProcessAdded
  <2> HIDE DEF s1
  <2>8. s2 = ProcessAdded(s1, f.at, a.added)
    BY <2>2
  <2> HIDE DEF s2
  <2>9. /\ Affects(s1, s2, f) /\ InPlace(s2, f)
        /\ Listed(s2, f) = Listed(s1, f) \cup a.added
        /\ s2.folders[f].loaded = s1.folders[f].loaded
    BY <1>3, <2>5, <2>6, <2>8, AdditionProcessed
  <2>10. /\ Affects(s, s2, f) /\ Good(s2) /\ Placed(s2) /\ f \in DOMAIN s2.folders
        /\ Listed(s2, f) = (Listed(s, f) \ a.removed) \cup a.added
        /\ s2.folders[f].loaded = s.folders[f].loaded
    <3>1. Affects(s, s2, f)
      BY <2>5, <2>9, AffectsTransitive
    <3> QED
      BY <2>5, <2>6, <2>9, <3>1 DEF Affects
  <2>11. r.folder = f
    BY DEF f
  <2> DEFINE Done ==
        /\ Affects(s, t, f) /\ f \in DOMAIN t.folders
        /\ t.folders[f].loaded => UpTo(t, f, NamesAt(srv, f.at), {}, {})
        /\ \A g \in DOMAIN t.folders : InPlace(t, g) =>
             \A n \in a.removed : ~IsPrefix(Append(f.at, n), g.at)
  <2>12. ASSUME r.op # "browse" \/ a.content = None
         PROVE  Done
    <3>1. Still(s2, t) /\ Good(t)
      BY <1>3, <2>10, <2>11, <2>12, CompletedStill
    <3> HIDE DEF t
    <3>2. /\ Affects(s, t, f) /\ Listed(t, f) = Listed(s2, f)
          /\ t.folders[f].loaded = s2.folders[f].loaded
          /\ DOMAIN t.folders = DOMAIN s2.folders
          /\ \A g \in DOMAIN s2.folders : InPlace(t, g) <=> InPlace(s2, g)
      BY <2>9, <2>10, <3>1, StillAfter, SMTT(40)
    <3>3. t.folders[f].loaded => UpTo(t, f, NamesAt(srv, f.at), {}, {})
      <4>1. a.removed \cap NamesAt(srv, f.at) = {}
        BY <2>3
      <4>2. Listed(t, f) = (Listed(s, f) \ a.removed) \cup a.added
        BY <2>10, <3>2
      <4> QED
        BY <2>2, <2>3, <2>10, <3>2, <4>1, <4>2, ChangesUpTo
    <3>4. a.removed = {} \/ a.added = {}
      BY <2>3
    <3> QED
      BY <2>5, <2>7, <2>10, <3>2, <3>3, <3>4
  <2>13. ASSUME r.op = "browse" /\ a.content # None
         PROVE  Done
    <3>1. a.content = NamesAt(srv, f.at) /\ a.content \in SUBSET Name /\ a.removed = {}
      BY <1>3, <2>3, <2>13
    <3>2. Affects(s2, t, f) /\ InPlace(t, f) /\ UpTo(t, f, a.content, {}, {})
      BY <2>9, <2>10, <2>11, <2>13, <3>1, CompletedContent
    <3> HIDE DEF t
    <3>3. Affects(s, t, f)
      BY <2>10, <3>2, AffectsTransitive
    <3>4. f \in DOMAIN t.folders
      BY <2>10, <3>2 DEF Affects
    <3> QED
      BY <3>1, <3>2, <3>3, <3>4
  <2>14. Done
    BY <2>12, <2>13
  <2> HIDE DEF t
  <2> QED
    BY <1>1, <2>1, <2>2, <2>14, Delivered DEF r, a, f, qs
<1> QED
  BY <1>5, <1>6

-----------------------------------------------------------------------------
(* The server answers. *)

LEMMA NamesFacts ==
  ASSUME NEW srv, srv \subseteq Seq(Name) \ {<<>>}, NEW p \in Seq(Name)
  PROVE  NamesAt(srv, p) = {n \in Name : Append(p, n) \in srv}
<1>1. ASSUME NEW n \in NamesAt(srv, p)
      PROVE  n \in Name /\ Append(p, n) \in srv
  <2>1. PICK q \in srv : Front(q) = p /\ Last(q) = n
    BY DEF NamesAt
  <2>2. q \in Seq(Name) /\ q # <<>>
    OBVIOUS
  <2> QED
    BY <2>1, <2>2, FrontFacts
<1>2. ASSUME NEW n \in Name, Append(p, n) \in srv
      PROVE  n \in NamesAt(srv, p)
  <2>1. Front(Append(p, n)) = p /\ Last(Append(p, n)) = n
    BY AppendFacts
  <2> QED
    BY <1>2, <2>1 DEF NamesAt
<1> QED
  BY <1>1, <1>2

\* The path u is not one of some names of the folder at p, or below.
Outside(p, names, u) == \A n \in names : ~IsPrefix(Append(p, n), u)

\* An answer that tells what has changed below its folder.
LEMMA Served ==
  ASSUME NEW s, Struct(s), NEW rs \in [Slot -> Request \cup {None}], NEW srv,
         \A l \in Slot : rs[l] # None => rs[l].folder \in DOMAIN s.folders,
         Synced(s, rs, srv), NEW k \in Slot, rs[k] # None, rs[k].answer = None,
         rs[k].path # None, NEW a \in Reply, NEW new,
         \A p \in Seq(Name) :
           p # rs[k].path /\ Outside(rs[k].path, a.removed, p)
             => NamesAt(new, p) = NamesAt(srv, p),
         NamesAt(new, rs[k].path) \ a.added \subseteq NamesAt(srv, rs[k].path),
         NamesAt(srv, rs[k].path) \ a.removed \subseteq NamesAt(new, rs[k].path),
         Truthful(s, [rs[k] EXCEPT !.answer = a], new)
  PROVE  Synced(s, [rs EXCEPT ![k].answer = a], new)
<1> DEFINE r == rs[k]
           f == r.folder
           z == [r EXCEPT !.answer = a]
           qs == [rs EXCEPT ![k].answer = a]
<1>1. r \in Request /\ a # None
  BY ConstantsAssumption
<1>2. /\ z.op = r.op /\ z.folder = f /\ z.path = r.path /\ z.on = r.on
      /\ z.answer = a /\ z # None
  <2>1. z \in Request
    BY <1>1 DEF Request
  <2> QED
    BY <1>1, <2>1, ConstantsAssumption DEF Request
<1>3. qs[k] = z /\ \A l \in Slot \ {k} : qs[l] = rs[l]
  OBVIOUS
<1>4. Truthful(s, z, new)
  OBVIOUS
<1> HIDE DEF qs, z, r, f
<1>5. \A l \in Slot : rs[l] # None => rs[l].folder.at \in Seq(Name)
  BY NoneIsNoFolder
<1>6. \A l \in Slot \ {k} : rs[l] # None =>
        rs[l].folder # f /\ ~IsPrefix(f.at, rs[l].folder.at)
  BY DEF Synced, Tangled, r, f
<1>7. r.path = f.at /\ InPlace(s, f) /\ f.at \in Seq(Name) /\ f \in DOMAIN s.folders
  BY <1>5 DEF Synced, Truthful, r, f
<1>8. \A p \in Seq(Name) :
        p # f.at /\ Outside(f.at, a.removed, p) => NamesAt(new, p) = NamesAt(srv, p)
  BY <1>7 DEF r
<1>9. /\ NamesAt(new, f.at) \ a.added \subseteq NamesAt(srv, f.at)
      /\ NamesAt(srv, f.at) \ a.removed \subseteq NamesAt(new, f.at)
  BY <1>7 DEF r
<1>10. a.removed \subseteq Name
  BY DEF Reply
<1>11. ~Tangled(qs)
  <2>1. ~Tangled(rs)
    BY DEF Synced
  <2>2. \A l \in Slot : rs[l] # None <=> qs[l] # None
    BY <1>2, <1>3
  <2>3. \A l \in Slot : rs[l] # None => rs[l].folder = qs[l].folder
    BY <1>2, <1>3 DEF f, r
  <2> QED
    BY <2>1, <2>2, <2>3 DEF Tangled
<1>12. /\ ~Told(rs, k) /\ Told(qs, k)
       /\ \A l \in Slot \ {k} : Told(qs, l) <=> Told(rs, l)
  BY <1>1, <1>2, <1>3 DEF Told, r
<1>13. \A l \in Slot : qs[l] # None => Truthful(s, qs[l], new)
  <2> SUFFICES ASSUME NEW l \in Slot \ {k}, rs[l] # None
               PROVE  Truthful(s, rs[l], new)
    BY <1>3, <1>4
  <2>1. Truthful(s, rs[l], srv)
    BY DEF Synced
  <2>2. rs[l].path # None => NamesAt(new, rs[l].path) = NamesAt(srv, rs[l].path)
    <3> SUFFICES ASSUME rs[l].path # None
                 PROVE  NamesAt(new, rs[l].path) = NamesAt(srv, rs[l].path)
      OBVIOUS
    <3>1. rs[l].path = rs[l].folder.at /\ rs[l].path \in Seq(Name)
      BY <1>5, <2>1 DEF Truthful
    <3>2. ~IsPrefix(f.at, rs[l].path)
      BY <1>6, <3>1
    <3>3. Outside(f.at, a.removed, rs[l].path)
      BY <1>7, <1>10, <3>1, <3>2, PrefixOfAppend DEF Outside
    <3>4. rs[l].path # f.at
      BY <1>7, <3>2 DEF IsPrefix
    <3> QED
      BY <1>8, <3>1, <3>3, <3>4
  <2> QED
    BY <2>1, <2>2 DEF Truthful
<1>14. \A p : Doomed(rs, p) => Doomed(qs, p)
  BY <1>3, <1>12 DEF Doomed
<1>15. ASSUME NEW g \in DOMAIN s.folders, InPlace(s, g), s.folders[g].loaded, ~Doomed(qs, g.at)
       PROVE  UpTo(s, g, NamesAt(new, g.at), ToCome(qs, g), ToGo(qs, g))
  <2>1. UpTo(s, g, NamesAt(srv, g.at), ToCome(rs, g), ToGo(rs, g))
    BY <1>14, <1>15 DEF Synced, Behind
  <2>2. CASE g = f
    <3>1. Awaited(rs, f) = {} /\ Awaited(qs, f) = {k}
      <4>1. \A l \in Slot \ {k} : ~(Told(rs, l) /\ rs[l].folder = f)
        BY <1>6 DEF Told
      <4>2. \A l \in Slot \ {k} : ~(Told(qs, l) /\ qs[l].folder = f)
        BY <1>3, <1>12, <4>1
      <4> QED
        BY <1>2, <1>3, <1>12, <4>1, <4>2 DEF Awaited
    <3>2. ToCome(rs, f) = {} /\ ToGo(rs, f) = {}
      BY <3>1 DEF ToCome, ToGo
    <3>3. ToCome(qs, f) = a.added /\ ToGo(qs, f) = a.removed
      BY <1>2, <1>3, <3>1 DEF ToCome, ToGo
    <3>4. UpTo(s, f, NamesAt(srv, f.at), {}, {})
      BY <2>1, <2>2, <3>2
    <3>5. UpTo(s, f, NamesAt(new, f.at), a.added, a.removed)
      BY <1>9, <3>4 DEF UpTo
    <3> QED
      BY <2>2, <3>3, <3>5
  <2>3. CASE g # f
    <3>1. g.at # f.at /\ g.at \in Seq(Name)
      BY <1>7, <1>15, <2>3, PlaceFacts DEF Synced
    <3>2. Outside(f.at, a.removed, g.at)
      BY <1>2, <1>3, <1>7, <1>12, <1>15 DEF Doomed, Outside
    <3>3. NamesAt(new, g.at) = NamesAt(srv, g.at)
      BY <1>8, <3>1, <3>2
    <3>4. Awaited(qs, g) = Awaited(rs, g)
      BY <1>2, <1>3, <1>12, <2>3 DEF Awaited
    <3>5. \A l \in Awaited(rs, g) : qs[l] = rs[l]
      BY <1>3, <1>12 DEF Awaited
    <3>6. ToCome(qs, g) = ToCome(rs, g) /\ ToGo(qs, g) = ToGo(rs, g)
      BY <3>4, <3>5 DEF ToCome, ToGo
    <3> QED
      BY <2>1, <3>3, <3>6
  <2> QED
    BY <2>2, <2>3
<1> QED
  BY <1>11, <1>13, <1>15 DEF Synced, Behind, qs

\* An answer to a request that is not about a folder in place.
LEMMA UntoldServed ==
  ASSUME NEW s, NEW rs \in [Slot -> Request \cup {None}], NEW srv, Synced(s, rs, srv),
         NEW k \in Slot, rs[k] # None, rs[k].path = None
  PROVE  Synced(s, [rs EXCEPT ![k].answer = NoContent], srv)
<1> DEFINE r == rs[k]
           z == [r EXCEPT !.answer = NoContent]
           qs == [rs EXCEPT ![k].answer = NoContent]
<1>1. r \in Request /\ NoContent \in Reply
  BY DEF NoContent, Reply
<1>2. /\ z.folder = r.folder /\ z.path = None /\ z.answer = NoContent /\ z # None
  <2>1. z \in Request
    BY <1>1 DEF Request
  <2> QED
    BY <1>1, <2>1, ConstantsAssumption DEF Request
<1>3. qs[k] = z /\ \A l \in Slot \ {k} : qs[l] = rs[l]
  OBVIOUS
<1> HIDE DEF qs, z
<1>4. ~Tangled(qs)
  <2>1. ~Tangled(rs)
    BY DEF Synced
  <2>2. \A l \in Slot : rs[l] # None <=> qs[l] # None
    BY <1>2, <1>3
  <2>3. \A l \in Slot : rs[l] # None => rs[l].folder = qs[l].folder
    BY <1>2, <1>3
  <2> QED
    BY <2>1, <2>2, <2>3 DEF Tangled
<1>5. \A l \in Slot : Told(qs, l) <=> Told(rs, l)
  BY <1>2, <1>3 DEF Told
<1>6. \A l \in Slot : Told(qs, l) => qs[l] = rs[l]
  BY <1>3, <1>5 DEF Told
<1>7. \A f : Awaited(qs, f) = Awaited(rs, f)
  BY <1>5, <1>6 DEF Awaited
<1>8. \A f : ToCome(qs, f) = ToCome(rs, f) /\ ToGo(qs, f) = ToGo(rs, f)
  <2>1. \A f : \A l \in Awaited(rs, f) : qs[l] = rs[l]
    BY <1>5, <1>6 DEF Awaited
  <2> QED
    BY <1>7, <2>1 DEF ToCome, ToGo
<1>9. \A p : Doomed(qs, p) <=> Doomed(rs, p)
  BY <1>5, <1>6 DEF Doomed
<1>10. Behind(s, qs, srv)
  BY <1>8, <1>9 DEF Synced, Behind
<1>11. \A l \in Slot : qs[l] # None => Truthful(s, qs[l], srv)
  BY <1>2, <1>3 DEF Synced, Truthful
<1> QED
  BY <1>4, <1>10, <1>11 DEF Synced, qs

\* The entries srv without what is at some names of a folder, and with more names.
Deleted(srv, p, names) == {q \in srv : Outside(p, names, q)}
Created(srv, p, names) == srv \cup {Append(p, n) : n \in names}

LEMMA EntryKept ==
  ASSUME NEW p \in Seq(Name), NEW names \in SUBSET Name, NEW u \in Seq(Name),
         Outside(p, names, u), NEW m \in Name, u = p => m \notin names
  PROVE  Outside(p, names, Append(u, m))
<1> SUFFICES ASSUME NEW n \in names, IsPrefix(Append(p, n), Append(u, m))
             PROVE  FALSE
  BY DEF Outside
<1> DEFINE q == Append(p, n)
<1>1. q \in Seq(Name) /\ IsPrefix(q, Append(u, m)) /\ ~IsPrefix(q, u)
  BY AppendFacts DEF Outside
<1> HIDE DEF q
<1>2. q = Append(u, m)
  BY <1>1, PrefixCases
<1>3. p = u /\ n = m
  BY <1>2, AppendFacts DEF q
<1> QED
  BY <1>3

LEMMA NamesDeleted ==
  ASSUME NEW srv, srv \subseteq Seq(Name) \ {<<>>}, NEW p \in Seq(Name),
         NEW names \in SUBSET Name
  PROVE  NamesAt(Deleted(srv, p, names), p) = NamesAt(srv, p) \ names
<1> DEFINE new == Deleted(srv, p, names)
<1>1. new \subseteq Seq(Name) \ {<<>>} /\ new \subseteq srv
  BY DEF Deleted
<1>2. \A n \in names : Append(p, n) \notin new
  BY AppendFacts, PrefixOfAppend DEF Deleted, Outside
<1>3. Outside(p, names, p)
  BY PrefixOfAppend DEF Outside
<1>4. \A m \in Name \ names : Append(p, m) \in srv => Append(p, m) \in new
  BY <1>3, EntryKept DEF Deleted
<1> HIDE DEF new
<1>5. /\ NamesAt(new, p) = {n \in Name : Append(p, n) \in new}
      /\ NamesAt(srv, p) = {n \in Name : Append(p, n) \in srv}
  BY <1>1, NamesFacts
<1> QED
  BY <1>1, <1>2, <1>4, <1>5 DEF new

LEMMA OthersKept ==
  ASSUME NEW srv, srv \subseteq Seq(Name) \ {<<>>}, NEW p \in Seq(Name),
         NEW names \in SUBSET Name, NEW u \in Seq(Name), u # p, Outside(p, names, u)
  PROVE  NamesAt(Deleted(srv, p, names), u) = NamesAt(srv, u)
<1> DEFINE new == Deleted(srv, p, names)
<1>1. new \subseteq Seq(Name) \ {<<>>} /\ new \subseteq srv
  BY DEF Deleted
<1>2. \A m \in Name : Append(u, m) \in srv => Append(u, m) \in new
  BY EntryKept DEF Deleted
<1> HIDE DEF new
<1>3. /\ NamesAt(new, u) = {n \in Name : Append(u, n) \in new}
      /\ NamesAt(srv, u) = {n \in Name : Append(u, n) \in srv}
  BY <1>1, NamesFacts
<1> QED
  BY <1>1, <1>2, <1>3 DEF new

LEMMA NamesAdded ==
  ASSUME NEW srv, srv \subseteq Seq(Name) \ {<<>>}, NEW p \in Seq(Name),
         NEW names \in SUBSET Name
  PROVE  LET new == Created(srv, p, names) IN
         /\ NamesAt(new, p) = NamesAt(srv, p) \cup names
         /\ \A u \in Seq(Name) : u # p => NamesAt(new, u) = NamesAt(srv, u)
<1> DEFINE new == Created(srv, p, names)
<1>1. \A n \in names : Append(p, n) \in Seq(Name) \ {<<>>}
  BY AppendFacts
<1>2. new \subseteq Seq(Name) \ {<<>>}
  BY <1>1 DEF Created
<1>3. \A u \in Seq(Name), m \in Name :
        Append(u, m) \in new <=> Append(u, m) \in srv \/ (u = p /\ m \in names)
  BY AppendFacts DEF Created
<1> HIDE DEF new
<1>4. \A u \in Seq(Name) : NamesAt(new, u) = {n \in Name : Append(u, n) \in new}
  BY <1>2, NamesFacts
<1>5. \A u \in Seq(Name) : NamesAt(srv, u) = {n \in Name : Append(u, n) \in srv}
  BY NamesFacts
<1>6. \A u \in Seq(Name) : \A m :
        m \in NamesAt(new, u) <=> m \in NamesAt(srv, u) \/ (u = p /\ m \in names)
  BY <1>3, <1>4, <1>5
<1>7. NamesAt(new, p) = NamesAt(srv, p) \cup names
  BY <1>6
<1>8. ASSUME NEW u \in Seq(Name), u # p
      PROVE  NamesAt(new, u) = NamesAt(srv, u)
  BY <1>6, <1>8
<1> QED
  BY <1>7, <1>8 DEF new

LEMMA LeadingKept ==
  ASSUME NEW q \in Leading(Predefined), NEW p \in Seq(Name), IsPrefix(p, q)
  PROVE  Kept(p)
<1>1. PICK w \in Predefined : \E i \in 1 .. Len(w) : q = SubSeq(w, 1, i)
  BY DEF Leading
<1>2. PICK i \in 1 .. Len(w) : q = SubSeq(w, 1, i)
  BY <1>1
<1>3. w \in Seq(Name)
  BY ConstantsAssumption
<1>4. Len(q) = i /\ \A j \in 1 .. i : q[j] = w[j]
  BY <1>2, <1>3
<1>5. Len(p) \in Nat /\ Len(p) <= i /\ \A j \in 1 .. Len(p) : p[j] = q[j]
  <2>1. q \in Seq(Name)
    BY <1>2, <1>3
  <2> QED
    BY <1>4, <2>1 DEF IsPrefix
<1>6. Len(p) <= Len(w) /\ \A j \in 1 .. Len(p) : p[j] = w[j]
  BY <1>2, <1>3, <1>4, <1>5
<1>7. IsPrefix(p, w)
  BY <1>3, <1>6 DEF IsPrefix
<1> QED
  BY <1>7 DEF Kept

LEMMA ServeSynced ==
  ASSUME IInv, Leading(Predefined) \subseteq server, Synced(ui, requests, server),
         NEW k \in Slot, Serve(k), ~disturbed'
  PROVE  (Leading(Predefined) \subseteq server /\ Synced(ui, requests, server))'
<1> DEFINE r == requests[k]
           p == r.path
           on == {Append(p, n) : n \in r.on}
           Answers(a, srv) == requests' = [requests EXCEPT ![k].answer = a] /\ server' = srv
<1>1. /\ Struct(ui) /\ requests \in [Slot -> Request \cup {None}]
      /\ \A l \in Slot : requests[l] # None => requests[l].folder \in DOMAIN ui.folders
      /\ server \subseteq Seq(Name) \ {<<>>} /\ None \notin server
  BY ConstantsAssumption, NamesArePaths DEF IInv, Valid, Good
<1>2. r # None /\ r.answer = None /\ ui' = ui
  BY DEF Serve
<1>3. r \in Request /\ r.on \in SUBSET Name
  BY <1>1, <1>2 DEF Request
<1>4. Truthful(ui, r, server)
  BY <1>2 DEF Synced
<1>5. SUFFICES Leading(Predefined) \subseteq server' /\ Synced(ui, requests', server')
  BY <1>2
<1>8. Ensured = server
  BY DEF Ensured
<1>6. CASE p = None
  <2>1. p # <<>> /\ p \notin server
    BY <1>1, <1>6, ConstantsAssumption DEF Path
  <2>2. Unknown(r)
    BY <1>8, <2>1 DEF Unknown
  <2>3. Answers(NoContent, server)
    BY <1>8, <2>2 DEF Serve, Answer
  <2> QED
    BY <1>1, <1>2, <1>6, <2>3, UntoldServed
<1>7. CASE p # None
  <2>1. p = r.folder.at /\ InPlace(ui, r.folder) /\ p \in Seq(Name)
    <3>1. p = r.folder.at /\ InPlace(ui, r.folder)
      BY <1>4, <1>7 DEF Truthful
    <3> QED
      BY <1>1, <1>2, <3>1, NoneIsNoFolder
  <2>2. r.op = "delete" => \A n \in r.on : ~Kept(Append(p, n))
    BY <1>4, <1>7 DEF Truthful
  <2> DEFINE Telling(a, srv) ==
        /\ a.removed \subseteq r.on \ NamesAt(srv, p)
        /\ a.added \subseteq NamesAt(srv, p)
        /\ a.content \in {None, NamesAt(srv, p)}
        /\ r.op # "delete" => a.removed = {}
        /\ r.op \notin {"newfolder", "upload"} => a.added = {}
      Saying(a, srv) ==
        /\ \A u \in Seq(Name) :
             u # p /\ Outside(p, a.removed, u) => NamesAt(srv, u) = NamesAt(server, u)
        /\ NamesAt(srv, p) \ a.added \subseteq NamesAt(server, p)
        /\ NamesAt(server, p) \ a.removed \subseteq NamesAt(srv, p)
  <2>3. ASSUME NEW a \in Reply, NEW srv, Answers(a, srv), Telling(a, srv), Saying(a, srv),
               Leading(Predefined) \subseteq srv
        PROVE  Leading(Predefined) \subseteq server' /\ Synced(ui, requests', server')
    <3> DEFINE z == [r EXCEPT !.answer = a]
    <3>1. /\ z.op = r.op /\ z.folder = r.folder /\ z.path = p /\ z.on = r.on
          /\ z.answer = a
      BY <1>3 DEF Request
    <3> HIDE DEF z
    <3>2. Truthful(ui, z, srv)
      BY <1>7, <2>1, <2>2, <2>3, <3>1 DEF Truthful
    <3>3. Synced(ui, [requests EXCEPT ![k].answer = a], srv)
      BY <1>1, <1>2, <1>7, <2>3, <3>2, Served DEF z
    <3> QED
      BY <2>3, <3>3
  <2>4. /\ NoContent \in Reply /\ NoContent.content = None /\ NoContent.added = {}
        /\ NoContent.removed = {}
    BY DEF NoContent, Reply
  <2>5. Telling(NoContent, server) /\ Saying(NoContent, server)
    BY <2>4
  <2>6. CASE Answers(NoContent, server)
    BY <2>3, <2>4, <2>5, <2>6
  <2>7. CASE ~Unknown(r) /\ r.op = "browse"
             /\ Answer(k, [NoContent EXCEPT !.content = Content(server, p)], server)
    <3> DEFINE a == [NoContent EXCEPT !.content = Content(server, p)]
    <3>1. Content(server, p) = NamesAt(server, p)
      BY DEF Content, NamesAt
    <3>2. NamesAt(server, p) \in SUBSET Name
      BY <1>1, <2>1, NamesFacts
    <3>3. /\ a \in Reply /\ a.content = NamesAt(server, p)
          /\ a.added = {} /\ a.removed = {}
      BY <3>1, <3>2 DEF NoContent, Reply
    <3>4. Answers(a, server)
      BY <2>7 DEF Answer
    <3> HIDE DEF a
    <3>5. Telling(a, server) /\ Saying(a, server)
      BY <3>3
    <3> QED
      BY <2>3, <3>3, <3>4, <3>5
  <2>8. CASE
      /\ ~Unknown(r) /\ r.op = "delete"
      /\ \E gone \in SUBSET Under(server, on) :
           /\ \A q \in server : Front(q) \in gone => q \in gone
           /\ Answer(k, [NoContent EXCEPT !.removed =
                            {n \in r.on : Append(p, n) \notin server \ gone}],
                     server \ gone)
           /\ disturbed' = (disturbed \/ gone \notin {{}, Under(server, on)})
    <3>1. PICK gone \in SUBSET Under(server, on) :
            /\ Answer(k, [NoContent EXCEPT !.removed =
                             {n \in r.on : Append(p, n) \notin server \ gone}],
                      server \ gone)
            /\ disturbed' = (disturbed \/ gone \notin {{}, Under(server, on)})
      BY <2>8
    <3>2. gone \in {{}, Under(server, on)}
      BY <3>1
    <3> DEFINE names == {n \in r.on : Append(p, n) \notin server \ gone}
               a == [NoContent EXCEPT !.removed = names]
               srv == server \ gone
    <3>3. names \in SUBSET Name /\ names \subseteq r.on
      BY <1>3
    <3>4. a \in Reply /\ a.content = None /\ a.added = {} /\ a.removed = names
      BY <3>3 DEF NoContent, Reply
    <3>5. Answers(a, srv)
      BY <3>1 DEF Answer
    <3>6. srv \subseteq Seq(Name) \ {<<>>}
      BY <1>1
    <3> HIDE DEF a
    <3>7. NamesAt(srv, p) \cap names = {}
      <4> HIDE DEF srv
      <4>1. NamesAt(srv, p) = {n \in Name : Append(p, n) \in srv}
        BY <2>1, <3>6, NamesFacts
      <4> QED
        BY <4>1 DEF srv
    <3>8. Telling(a, srv)
      BY <2>8, <3>3, <3>4, <3>7
    <3>11. Leading(Predefined) \subseteq srv
      <4> SUFFICES ASSUME NEW q \in Leading(Predefined), q \in gone
                   PROVE  FALSE
        OBVIOUS
      <4>1. PICK n \in r.on : IsPrefix(Append(p, n), q)
        BY DEF Under
      <4>2. Append(p, n) \in Seq(Name)
        BY <1>3, <2>1, AppendFacts
      <4>3. Kept(Append(p, n))
        BY <4>1, <4>2, LeadingKept
      <4> QED
        BY <2>2, <2>8, <4>3
    <3>9. CASE gone = {}
      <4>1. srv = server
        BY <3>9
      <4>2. Saying(a, srv)
        BY <3>4, <4>1
      <4> QED
        BY <2>3, <3>4, <3>5, <3>8, <3>11, <4>2
    <3>10. CASE gone = Under(server, on)
      <4>1. srv = Deleted(server, p, r.on)
        BY <3>10 DEF Under, Deleted, Outside
      <4>2. names = r.on
        <5> HIDE DEF srv, p, r
        <5>1. \A n \in r.on : IsPrefix(Append(p, n), Append(p, n))
          BY <1>3, <2>1, AppendFacts DEF IsPrefix
        <5>2. \A n \in r.on : Append(p, n) \notin srv
          BY <4>1, <5>1 DEF Deleted, Outside
        <5> QED
          BY <5>2 DEF srv
      <4> HIDE DEF srv, names, p, r
      <4>3. /\ NamesAt(srv, p) = NamesAt(server, p) \ r.on
            /\ \A u \in Seq(Name) : u # p /\ Outside(p, r.on, u)
                 => NamesAt(srv, u) = NamesAt(server, u)
        <5>1. /\ p \in Seq(Name) /\ r.on \in SUBSET Name
              /\ server \subseteq Seq(Name) \ {<<>>}
          BY <1>1, <1>3, <2>1
        <5>2. NamesAt(srv, p) = NamesAt(server, p) \ r.on
          BY <4>1, <5>1, NamesDeleted
        <5>3. \A u \in Seq(Name) : u # p /\ Outside(p, r.on, u)
                => NamesAt(Deleted(server, p, r.on), u) = NamesAt(server, u)
          BY <5>1, OthersKept
        <5> QED
          BY <4>1, <5>2, <5>3
      <4>4. Saying(a, srv)
        BY <3>4, <4>2, <4>3
      <4> QED
        BY <2>3, <3>4, <3>5, <3>8, <3>11, <4>4
    <3> QED
      BY <3>2, <3>9, <3>10
  <2>9. CASE /\ r.op \in {"newfolder", "upload"}
             /\ \E n \in Name : Answer(k, [NoContent EXCEPT !.added = {n}],
                                        server \cup {Append(p, n)})
    <3>1. PICK n \in Name : Answer(k, [NoContent EXCEPT !.added = {n}],
                                  server \cup {Append(p, n)})
      BY <2>9
    <3> DEFINE a == [NoContent EXCEPT !.added = {n}]
               srv == server \cup {Append(p, n)}
    <3>2. a \in Reply /\ a.content = None /\ a.added = {n} /\ a.removed = {}
      BY DEF NoContent, Reply
    <3>3. Answers(a, srv)
      BY <3>1 DEF Answer
    <3>4. /\ NamesAt(srv, p) = NamesAt(server, p) \cup {n}
          /\ \A u \in Seq(Name) : u # p => NamesAt(srv, u) = NamesAt(server, u)
      <4> DEFINE N == {n}
      <4>1. srv = Created(server, p, N) /\ N \in SUBSET Name
        BY DEF Created
      <4>2. server \subseteq Seq(Name) \ {<<>>} /\ p \in Seq(Name)
        BY <1>1, <2>1
      <4> HIDE DEF srv, p, r, N
      <4>3. /\ NamesAt(srv, p) = NamesAt(server, p) \cup N
            /\ \A u \in Seq(Name) : u # p => NamesAt(srv, u) = NamesAt(server, u)
        BY <4>1, <4>2, NamesAdded
      <4> QED
        BY <4>3 DEF N
    <3>5. Leading(Predefined) \subseteq srv
      OBVIOUS
    <3> HIDE DEF a, srv
    <3>6. Telling(a, srv) /\ Saying(a, srv)
      BY <2>9, <3>2, <3>4
    <3> QED
      BY <2>3, <3>2, <3>3, <3>5, <3>6
  <2>10. CASE Answer(k, NoContent, server)
    BY <2>6, <2>10 DEF Answer
  <2> QED
    BY <1>8, <2>7, <2>8, <2>9, <2>10 DEF Serve
<1> QED
  BY <1>6, <1>7

-----------------------------------------------------------------------------
(* The events of the user. *)

LEMMA SyncedValid ==
  ASSUME IInv
  PROVE  /\ Good(ui) /\ Struct(ui) /\ ui.active \in DOMAIN ui.folders
         /\ Root \in DOMAIN ui.folders
         /\ requests \in [Slot -> Request \cup {None}]
         /\ \A k \in Slot : requests[k] # None => requests[k].folder \in DOMAIN ui.folders
BY DEF IInv, Valid, Good, Focus, Struct, Paths, Typed

\* The event sends nothing.
LEMMA SettledSynced ==
  ASSUME IInv, Synced(ui, requests, server), NEW s, Still(ui, s),
         s.active \in DOMAIN ui.folders, Settle(s)
  PROVE  Synced(ui, requests, server)'
<1>1. ui' = Collect(s, requests) /\ requests' = requests /\ server' = server
  BY DEF Settle, End
<1>2. Synced(s, requests, server)
  BY SyncedValid, StillSynced
<1>3. Struct(s) /\ DOMAIN s.folders = DOMAIN ui.folders
  BY SyncedValid, StillFacts
<1>4. Synced(Collect(s, requests), requests, server)
  BY <1>2, <1>3, SyncedValid, CollectSynced
<1> QED
  BY <1>1, <1>4

\* The event sends a request: nothing predefined is to be deleted.
LEMMA SentSynced ==
  ASSUME IInv, Synced(ui, requests, server), NEW s, Still(ui, s),
         s.active \in DOMAIN ui.folders, NEW f \in DOMAIN ui.folders,
         NEW op \in {"browse", "delete", "newfolder", "upload"}, NEW on \in SUBSET Name,
         op = "delete" /\ InPlace(ui, f) => \A n \in on : ~Kept(Append(f.at, n)),
         Send(s, op, f, on), ~disturbed'
  PROVE  Synced(ui, requests, server)'
<1> DEFINE k == CHOOSE l \in Free(requests) : \A m \in Free(requests) : l <= m
           r == [op |-> op, folder |-> f, path |-> GetPath(s, f), on |-> on, answer |-> None]
           t == SetBusy(s, f, TRUE)
           rs == [requests EXCEPT ![k] = r]
<1>1. /\ ui' = Collect(t, rs) /\ requests' = rs /\ server' = server
      /\ Free(requests) # {} /\ disturbed' = (disturbed \/ Tangled(rs))
  BY DEF Send, End
<1>2. k \in Slot /\ requests[k] = None
  <2>1. Free(requests) \in SUBSET Nat /\ Free(requests) \subseteq Slot
    BY DEF Free, Slot
  <2>2. PICK l \in Free(requests) : \A m \in Free(requests) : l <= m
    BY <1>1, <2>1, Least
  <2>3. k \in Free(requests)
    BY <2>2
  <2> HIDE DEF k
  <2> QED
    BY <2>3 DEF Free
<1>3. /\ Struct(s) /\ DOMAIN s.folders = DOMAIN ui.folders /\ Placed(s)
      /\ InPlace(s, f) <=> InPlace(ui, f)
  BY SyncedValid, StillFacts DEF Synced
<1>4. /\ r.op = op /\ r.folder = f /\ r.on = on /\ r.answer = None
      /\ r.path = IF InPlace(ui, f) THEN f.at ELSE None
  BY <1>3, PathFound
<1>5. r # None
  <2>1. f \in Id /\ GetPath(s, f) \in Path \cup {None}
    BY <1>3, GetPathType DEF Struct, Typed
  <2>2. r \in Request
    BY <2>1 DEF Request
  <2> QED
    BY <2>2, ConstantsAssumption
<1> HIDE DEF k, r
<1>6. rs[k] = r /\ \A l \in Slot \ {k} : rs[l] = requests[l]
  BY <1>2, SyncedValid
<1> HIDE DEF rs
<1>7. Still(ui, t) /\ t.active = s.active
  <2>1. Still(s, t)
    BY <1>3, BusyStill
  <2>2. IsBusySet(s, f, TRUE, t)
    BY <1>3, BusySet
  <2> HIDE DEF t
  <2> QED
    BY <2>1, <2>2, StillTransitive DEF IsBusySet, SameFocus
<1> HIDE DEF t
<1>8. /\ Struct(t) /\ DOMAIN t.folders = DOMAIN ui.folders
      /\ InPlace(t, f) <=> InPlace(ui, f)
  BY <1>7, SyncedValid, StillFacts
<1>9. Synced(t, requests, server)
  BY <1>7, SyncedValid, StillSynced
<1>10. ~Tangled(rs)
  BY <1>1
<1>11. \A l \in Slot : rs[l] # None => Truthful(t, rs[l], server)
  <2>1. Truthful(t, r, server)
    BY <1>4, <1>8 DEF Truthful
  <2>2. \A l \in Slot \ {k} : rs[l] # None => Truthful(t, rs[l], server)
    BY <1>6, <1>9 DEF Synced
  <2> QED
    BY <1>6, <2>1, <2>2
<1>12. \A l \in Slot : /\ Told(rs, l) <=> Told(requests, l)
                       /\ Told(rs, l) => rs[l] = requests[l]
  BY <1>2, <1>4, <1>6 DEF Told
<1>13. \A g : Awaited(rs, g) = Awaited(requests, g)
  BY <1>12 DEF Awaited
<1>14. \A g : ToCome(rs, g) = ToCome(requests, g) /\ ToGo(rs, g) = ToGo(requests, g)
  <2>1. \A g : \A l \in Awaited(requests, g) : rs[l] = requests[l]
    BY <1>12 DEF Awaited
  <2> QED
    BY <1>13, <2>1 DEF ToCome, ToGo
<1>15. \A p : Doomed(rs, p) <=> Doomed(requests, p)
  BY <1>12 DEF Doomed
<1>16. Behind(t, rs, server)
  BY <1>9, <1>14, <1>15 DEF Synced, Behind
<1>17. Synced(t, rs, server)
  BY <1>9, <1>10, <1>11, <1>16 DEF Synced
<1>18. \A l \in Slot : rs[l] # None => rs[l].folder \in DOMAIN t.folders
  BY <1>4, <1>6, <1>8, SyncedValid
<1>19. Synced(Collect(t, rs), rs, server)
  BY <1>7, <1>8, <1>17, <1>18, CollectSynced
<1> QED
  BY <1>1, <1>19

LEMMA LoadSynced ==
  ASSUME IInv, Synced(ui, requests, server), NEW s, Still(ui, s),
         s.active \in DOMAIN ui.folders, NEW f \in DOMAIN ui.folders,
         Load(s, f), ~disturbed'
  PROVE  Synced(ui, requests, server)'
<1> DEFINE t == IF s.folders[f].loading THEN s ELSE StartLoading(s, f)
<1>1. Struct(s) /\ DOMAIN s.folders = DOMAIN ui.folders
  BY SyncedValid, StillFacts
<1>2. Still(s, StartLoading(s, f)) /\ StartLoading(s, f).active = s.active
  <2>1. Still(s, StartLoading(s, f))
    BY <1>1, LoadingStill
  <2>2. StartLoading(s, f).active = s.active
    BY <1>1 DEF StartLoading, Struct, Typed
  <2> QED
    BY <2>1, <2>2
<1>3. Still(ui, t) /\ t.active = s.active
  BY <1>2, StillTransitive
<1>4. Send(t, "browse", f, {})
  BY DEF Load
<1> HIDE DEF t
<1> QED
  BY <1>3, <1>4, SentSynced

LEMMA ActivatedStill ==
  ASSUME IInv, NEW f \in DOMAIN ui.folders
  PROVE  Still(ui, Activate(ui, f)) /\ Activate(ui, f).active = f
BY SyncedValid, ActivateStill, Activated

LEMMA OpenSynced ==
  ASSUME IInv, Synced(ui, requests, server), NEW f \in DOMAIN ui.folders, Open(f), ~disturbed'
  PROVE  Synced(ui, requests, server)'
<1>1. Settle(Activate(ui, f)) \/ Load(Activate(ui, f), f)
  BY DEF Open
<1> QED
  BY <1>1, ActivatedStill, SettledSynced, LoadSynced

LEMMA EventSynced ==
  ASSUME IInv, Synced(ui, requests, server), ~disturbed',
         ClickFolder \/ Toggle \/ Walk \/ Refresh \/ Select \/ DeleteSelection
           \/ CreateFolder \/ StartUpload
  PROVE  Synced(ui, requests, server)'
<1>1. /\ Good(ui) /\ Struct(ui) /\ ui.active \in DOMAIN ui.folders
      /\ Root \in DOMAIN ui.folders
  BY SyncedValid
<1>2. Still(ui, ui)
  BY <1>1, Unmoved DEF Struct, Typed, Fields
<1>3. CASE ClickFolder
  <2>1. PICK f \in Shown(Root) \cup Sub(ui, ui.active) \cup {ui.active} : Open(f)
    BY <1>3 DEF ClickFolder
  <2>2. f \in DOMAIN ui.folders
    BY <1>1, <2>1, ShownFacts, SubFacts
  <2> QED
    BY <2>1, <2>2, OpenSynced
<1>4. CASE Toggle
  <2>1. PICK f \in Shown(Root) \cup {ui.active} :
          IF Sub(ui, f) = {} THEN Open(f)
          ELSE Settle(SetExpanded(ui, f, ~ui.folders[f].expanded))
    BY <1>4 DEF Toggle
  <2>2. f \in DOMAIN ui.folders
    BY <1>1, <2>1, ShownFacts
  <2>3. CASE Sub(ui, f) = {}
    BY <2>1, <2>2, <2>3, OpenSynced
  <2>4. CASE Sub(ui, f) # {}
    <3> DEFINE b == ~ui.folders[f].expanded
               s == SetExpanded(ui, f, b)
    <3>1. Settle(s) /\ b \in BOOLEAN
      BY <2>1, <2>4
    <3> HIDE DEF b
    <3>2. Still(ui, s) /\ SameFocus(ui, s)
      BY <1>1, <2>2, <2>4, <3>1, BusyStill, ExpandedSet
    <3> HIDE DEF s
    <3> QED
      BY <1>1, <3>1, <3>2, SettledSynced DEF SameFocus
  <2> QED
    BY <2>3, <2>4
<1>5. CASE Walk
  <2>1. PICK f \in WalkUp \cup WalkDown : Settle(Activate(ui, f))
    BY <1>5 DEF Walk
  <2>2. f \in DOMAIN ui.folders
    BY <1>1, <2>1, WalkFacts
  <2> QED
    BY <2>1, <2>2, ActivatedStill, SettledSynced
<1>6. CASE Refresh
  BY <1>1, <1>2, <1>6, LoadSynced DEF Refresh
<1>7. CASE Select
  <2>1. PICK S : Settle([ui EXCEPT !.selected = S])
    BY <1>7 DEF Select
  <2> DEFINE s == [ui EXCEPT !.selected = S]
  <2>2. /\ DOMAIN s = Fields /\ s.folders = ui.folders /\ s.tree = ui.tree
        /\ s.active = ui.active
    BY <1>1 DEF Struct, Typed, Fields
  <2> HIDE DEF s
  <2>3. Still(ui, s)
    BY <1>1, <2>2, Unmoved
  <2> QED
    BY <1>1, <2>1, <2>2, <2>3, SettledSynced DEF s
<1>8. CASE DeleteSelection
  <2> DEFINE on == {i.name : i \in ui.selected}
             f == ui.active
  <2>1. Send(ui, "delete", f, on)
    BY <1>8 DEF DeleteSelection
  <2>2. \A n \in on : n \in Name /\ ~LeadsToPredefined(ui, f, n)
    <3> SUFFICES ASSUME NEW i \in ui.selected
                 PROVE  i.name \in Name /\ ~LeadsToPredefined(ui, f, i.name)
      OBVIOUS
    <3>1. i.of = f /\ i.name \in Name
      BY <1>1 DEF Good, Focus
    <3> QED
      BY <1>8, <3>1 DEF DeleteSelection
  <2> HIDE DEF on, f
  <2>3. f \in DOMAIN ui.folders
    BY <1>1 DEF f
  <2>4. InPlace(ui, f) => \A n \in on : ~Kept(Append(f.at, n))
    BY <1>1, <2>2, <2>3, KeptLeads DEF Synced
  <2>5. on \in SUBSET Name
    BY <2>2
  <2> QED
    BY <1>1, <1>2, <2>1, <2>3, <2>4, <2>5, SentSynced
<1>9. CASE CreateFolder
  <2>1. PICK n \in Name : Send(ui, "newfolder", ui.active, {n})
    BY <1>9 DEF CreateFolder
  <2>2. {n} \in SUBSET Name
    OBVIOUS
  <2> QED
    BY <1>1, <1>2, <2>1, <2>2, SentSynced
<1>10. CASE StartUpload
  <2>1. PICK q \in FilePath :
          Front(q) \in DOMAIN ui.tree /\ Send(ui, "upload", ui.tree[Front(q)], {Last(q)})
    BY <1>10 DEF StartUpload
  <2>2. ui.tree[Front(q)] \in DOMAIN ui.folders
    BY <1>1, <2>1, TreeFacts
  <2>3. q \in Seq(Name) /\ q # <<>>
    BY ConstantsAssumption
  <2>4. {Last(q)} \in SUBSET Name
    BY <2>3, FrontFacts
  <2> QED
    BY <1>1, <1>2, <2>1, <2>2, <2>4, SentSynced
<1> QED
  BY <1>3, <1>4, <1>5, <1>6, <1>7, <1>8, <1>9, <1>10

-----------------------------------------------------------------------------
(* The beginning. *)

LEMMA InitTreePlaced ==
  ASSUME NEW P, P \subseteq Seq(Name), IsFiniteSet(P), Predefined \subseteq P
  PROVE  /\ Placed(InitTree(P))
         /\ \A g \in DOMAIN InitTree(P).folders : ~InitTree(P).folders[g].loaded
<1> DEFINE A == Leading(P)
           x == Objects(Bare, A, {})
           t == Graft(Bare, Root, x)
           M == Made(x)
<1>1. /\ A \subseteq Seq(Name) \ {<<>>} /\ IsFiniteSet(A)
      /\ \A q \in A : Front(q) = <<>> \/ Front(q) \in A
      /\ \A p \in P : p # <<>> => p \in A
  BY LeadingFacts
<1>2. InitTree(P) = t
  BY DEF InitTree
<1>3. \A q \in A : x[q] = FreshId(Bare, q)
  BY DEF Objects
<1> HIDE DEF A
<1>4. Good(Bare) /\ Struct(Bare) /\ Root \in DOMAIN Bare.folders
  BY BareFacts DEF Good
<1>5. Root.at = <<>> /\ Len(Root.at) = 0 /\ Listed(Bare, Root) = {}
  BY BareFacts DEF Root
<1>6. NewObjects(Bare, Root, A, {}, x)
  <2>1. A \cup {} = A /\ \A p \in A : Len(p) \in Nat /\ Len(Root.at) < Len(p)
    BY <1>1, <1>5
  <2>2. Addable(Bare, Root, A, {})
    BY <1>1, <1>5, <2>1 DEF Addable
  <2> QED
    BY <1>4, <2>2, AddableFacts
<1> HIDE DEF x
<1>7. Grown(Bare, Root, x, t) /\ Good(t)
  <2>1. Grown(Bare, Root, x, t)
    BY <1>4, <1>6, GraftShape
  <2> HIDE DEF t
  <2> QED
    BY <1>4, <1>6, <2>1, Grafted
<1> HIDE DEF t
<1>8. \A g \in M : g.at \in Seq(Name) /\ g.at # <<>> /\ g.at \in A /\ x[g.at] = g
  BY <1>1, <1>6 DEF NewObjects
<1>9. \A g \in M : PathOf(Bare, Root, g.at) = g.at
  BY <1>8, BarePaths
<1>10. /\ DOMAIN t.folders = {Root} \cup M
       /\ \A g \in M : t.folders[g] = NewFolder(Bare, Root, x, g.at)
       /\ t.folders[Root] = Extended(Bare, Root, ItemsAt(x, <<>>))
       /\ DOMAIN t.tree = {<<>>} \cup {g.at : g \in M}
       /\ \A b \in DOMAIN t.tree : (t.tree[b] \in M /\ t.tree[b].at = b) \/ b = <<>>
  <2>1. {PathOf(Bare, Root, g.at) : g \in M} = {g.at : g \in M}
    BY <1>9
  <2> QED
    BY <1>5, <1>7, <1>9, <2>1, BareFacts DEF Grown
<1>11. t.tree[<<>>] = Root
  BY <1>7 DEF Good, Struct, Paths
<1>12. \A g \in M : /\ t.folders[g].path = g.at /\ ~t.folders[g].loaded
                    /\ Parent(t, g) \in DOMAIN t.folders
  <2> SUFFICES ASSUME NEW g \in M
               PROVE  /\ t.folders[g].path = g.at /\ ~t.folders[g].loaded
                      /\ Parent(t, g) \in DOMAIN t.folders
    OBVIOUS
  <2> DEFINE z == NewFolder(Bare, Root, x, g.at)
  <2>1. z.path = PathOf(Bare, Root, g.at) /\ z.loaded = FALSE
    BY DEF NewFolder
  <2>2. IsNewFolder(Bare, Root, x, g, z)
    BY <1>4, <1>6, NewFolderFacts
  <2> HIDE DEF z
  <2>3. z.parent = Root \/ z.parent \in M
    BY <2>2 DEF IsNewFolder
  <2>4. t.folders[g] = z
    BY <1>10 DEF z
  <2> QED
    BY <1>9, <1>10, <2>1, <2>3, <2>4 DEF Parent
<1>13. t.folders[Root].path = <<>> /\ ~t.folders[Root].loaded /\ Parent(t, Root) = None
  <2> DEFINE z == Extended(Bare, Root, ItemsAt(x, <<>>))
             y == Bare.folders[Root]
  <2>1. y.path = <<>> /\ y.loaded = FALSE /\ y.parent = None
    BY DEF Bare
  <2>2. FolderOK(y, DOMAIN Bare.folders)
    BY <1>4 DEF Struct, Typed
  <2>3. z.path = y.path /\ z.loaded = y.loaded /\ z.parent = y.parent
    BY <2>2 DEF Extended, FolderOK
  <2> HIDE DEF z, y
  <2>4. t.folders[Root] = z
    BY <1>10 DEF z
  <2> QED
    BY <2>1, <2>3, <2>4 DEF Parent
<1> HIDE DEF M
<1>14. \A g \in DOMAIN t.folders : InPlace(t, g)
  <2>1. \A p \in Seq(Name) : p # None
    BY NamesArePaths, ConstantsAssumption
  <2>2. <<>> \in Seq(Name)
    OBVIOUS
  <2> QED
    BY <1>8, <1>10, <1>12, <1>13, <2>1, <2>2 DEF InPlace
<1>15. ASSUME NEW g \in DOMAIN t.folders
       PROVE  g.at \in DOMAIN t.tree /\ t.tree[g.at] = g
  <2>1. CASE g = Root
    BY <1>5, <1>10, <1>11, <2>1
  <2>2. CASE g \in M
    <3>1. g.at \in DOMAIN t.tree /\ g.at # <<>> /\ x[g.at] = g
      BY <1>8, <1>10, <2>2
    <3>2. t.tree[g.at] \in M /\ t.tree[g.at].at = g.at
      BY <1>10, <3>1
    <3> QED
      BY <1>8, <3>1, <3>2
  <2> QED
    BY <1>10, <2>1, <2>2
<1>16. \A g \in DOMAIN t.folders : Parent(t, g) # None => Parent(t, g) \in DOMAIN t.folders
  BY <1>10, <1>12, <1>13
<1>17. ASSUME NEW q \in Predefined
       PROVE  q \in DOMAIN t.tree /\ t.tree[q] = [at |-> q, gen |-> 0]
  <2>1. CASE q = <<>>
    BY <1>10, <1>11, <2>1 DEF Root
  <2>2. CASE q # <<>>
    <3> DEFINE i(n) == [at |-> q, gen |-> n]
               Fits(n) == i(n) \notin DOMAIN Bare.folders
                            /\ \A h \in 0 .. n - 1 : i(h) \in DOMAIN Bare.folders
               c == Cardinality(DOMAIN Bare.folders)
               e == CHOOSE n \in 0 .. c : Fits(n)
    <3>1. q \in A
      BY <1>1, <2>2
    <3>2. c \in Nat
      <4>1. IsFiniteSet(DOMAIN Bare.folders)
        BY <1>4 DEF Struct, Typed
      <4> QED
        BY <4>1, FS_CardinalityType
    <3>3. i(0) \notin DOMAIN Bare.folders
      BY <1>5, <2>2, BareFacts
    <3>4. Fits(0) /\ 0 \in 0 .. c
      BY <3>2, <3>3
    <3>5. x[q] = i(e)
      BY <1>3, <3>1 DEF FreshId
    <3>6. e \in 0 .. c /\ Fits(e)
      <4> HIDE DEF Fits, c
      <4> QED
        BY <3>4
    <3>7. e = 0
      <4> HIDE DEF e, c
      <4> SUFFICES ASSUME e # 0
                   PROVE  FALSE
        OBVIOUS
      <4>1. 0 \in 0 .. e - 1
        BY <3>2, <3>6
      <4>2. i(0) \in DOMAIN Bare.folders
        BY <3>6, <4>1
      <4> QED
        BY <3>3, <4>2
    <3> HIDE DEF e
    <3>8. x[q] = [at |-> q, gen |-> 0]
      BY <3>5, <3>7
    <3>9. x[q] \in M /\ x[q].at = q
      BY <1>6, <3>1 DEF NewObjects, M
    <3> QED
      BY <1>10, <1>15, <3>8, <3>9
  <2> QED
    BY <2>1, <2>2
<1>18. Placed(t)
  BY <1>14, <1>15, <1>16, <1>17 DEF Placed
<1> QED
  BY <1>2, <1>10, <1>12, <1>13, <1>18

LEMMA StartPlaced ==
  ASSUME NEW p \in FolderPath
  PROVE  LET s == Start(p) IN
         /\ Placed(s) /\ InPlace(s, s.active) /\ p = s.active.at
         /\ \A g \in DOMAIN s.folders : ~s.folders[g].loaded
<1> DEFINE P == Predefined \cup {p}
           a == InitTree(P)
           f == a.tree[p]
           b == Activate(a, f)
           c == StartLoading(b, f)
<1>1. P \subseteq Seq(Name) /\ IsFiniteSet(P) /\ p \in P /\ Predefined \subseteq P
  <2>1. IsFiniteSet(Predefined) /\ IsFiniteSet(Predefined \cup {p})
    BY ConstantsAssumption, FS_AddElement
  <2>2. Predefined \subseteq Seq(Name) /\ p \in Seq(Name)
    BY ConstantsAssumption
  <2> QED
    BY <2>1, <2>2
<1> HIDE DEF P
<1>2. /\ Good(a) /\ p \in DOMAIN a.tree /\ Placed(a)
      /\ \A g \in DOMAIN a.folders : ~a.folders[g].loaded
  BY <1>1, InitTreeFacts, InitTreePlaced
<1> HIDE DEF a
<1>3. /\ Struct(a) /\ f \in DOMAIN a.folders /\ InPlace(a, f)
      /\ a.folders[f].path = p
  BY <1>2, TreeFacts DEF Good
<1> HIDE DEF f
<1>4. f.at = p
  BY <1>2, <1>3, PlaceFacts
<1>5. Still(a, b) /\ b.active = f
  BY <1>3, ActivateStill, Activated
<1> HIDE DEF b
<1>6. Struct(b) /\ DOMAIN b.folders = DOMAIN a.folders
  BY <1>3, <1>5, StillFacts
<1>7. Still(b, c)
  BY <1>3, <1>6, LoadingStill
<1>8. c.active = f
  BY <1>5, <1>6 DEF StartLoading, Struct, Typed
<1>9. c = Start(p)
  BY <1>5 DEF Start, LoadActive, ActivatePath, a, b, c, f, P
<1> HIDE DEF c
<1>10. Still(a, c)
  BY <1>5, <1>7, StillTransitive
<1>11. /\ DOMAIN c.folders = DOMAIN a.folders /\ Placed(c) /\ InPlace(c, f)
       /\ \A g \in DOMAIN a.folders : ~c.folders[g].loaded
  BY <1>2, <1>3, <1>10, StillFacts
<1> QED
  BY <1>4, <1>8, <1>9, <1>11

LEMMA InitSynced ==
  ASSUME Init
  PROVE  Synced(ui, requests, server)
<1>1. PICK p \in FolderPath \cap (server \cup {<<>>}) :
        /\ ui = Start(p)
        /\ requests = [k \in Slot |->
             IF k = 1 THEN [op |-> "browse", folder |-> ui.active, path |-> p,
                            on |-> {}, answer |-> None]
             ELSE None]
  BY DEF Init
<1> DEFINE r == [op |-> "browse", folder |-> ui.active, path |-> p,
                 on |-> {}, answer |-> None]
<1>2. /\ Placed(ui) /\ InPlace(ui, ui.active) /\ p = ui.active.at
      /\ \A g \in DOMAIN ui.folders : ~ui.folders[g].loaded
  BY <1>1, StartPlaced
<1>3. Truthful(ui, r, server)
  <2>1. /\ r.op = "browse" /\ r.folder = ui.active /\ r.path = p /\ r.on = {}
        /\ r.answer = None
    OBVIOUS
  <2> HIDE DEF r
  <2> QED
    BY <1>2, <2>1 DEF Truthful
<1>4. \A k \in Slot : requests[k] # None => k = 1 /\ requests[k] = r
  BY <1>1
<1> HIDE DEF r
<1>5. ~Tangled(requests)
  BY <1>4 DEF Tangled
<1>6. Behind(ui, requests, server)
  BY <1>2 DEF Behind
<1> QED
  BY <1>2, <1>3, <1>4, <1>5, <1>6 DEF Synced

-----------------------------------------------------------------------------
(* The theorem. *)

LEMMA DeliverStepSynced ==
  ASSUME IInv, Synced(ui, requests, server), NEW k \in Slot, Deliver(k)
  PROVE  Synced(ui, requests, server)'
<1> DEFINE r == requests[k]
           a == ProcessRemoved(ui, r.path, r.answer.removed)
           b == ProcessAdded(a, r.path, r.answer.added)
           t == Complete(b, r, r.answer.content)
           rs == [requests EXCEPT ![k] = None]
<1>1. /\ r # None /\ r.answer # None
      /\ ui' = Collect(t, rs) /\ requests' = rs /\ server' = server
  BY DEF Deliver, End
<1>2. Synced(t, rs, server)
  BY <1>1, DeliverSynced DEF IInv
<1>3. r \in Request /\ r.folder \in DOMAIN ui.folders /\ Good(ui) /\ ui.active # None
  BY <1>1 DEF IInv, Valid
<1>4. r.answer \in Reply
  BY <1>1, <1>3 DEF Request
<1>5. /\ r.answer.content \in (SUBSET Name) \cup {None} /\ r.answer.added \in SUBSET Name
  BY <1>4 DEF Reply
<1>6. r.answer.added = {} \/ r.path \in Seq(Name)
  BY <1>1 DEF IInv, Answered
<1>7. \A l \in Slot : rs[l] # None => rs[l].folder \in DOMAIN ui.folders
  BY SyncedValid
<1> HIDE DEF r, a, b, t, rs
<1>8. Keeps(ui, a)
  BY <1>3, RemovedProcessed DEF a
<1>9. Keeps(a, b)
  BY <1>5, <1>6, <1>8, AddedProcessed DEF b, Keeps
<1>10. Good(b) /\ r.folder \in DOMAIN b.folders
  BY <1>3, <1>8, <1>9 DEF Keeps
<1>11. Keeps(ui, t)
  BY <1>5, <1>8, <1>9, <1>10, Completed, KeepsTransitive DEF t
<1>12. /\ Struct(t) /\ t.active \in DOMAIN t.folders
       /\ \A l \in Slot : rs[l] # None => rs[l].folder \in DOMAIN t.folders
  BY <1>3, <1>7, <1>11 DEF Keeps, Good, Focus
<1>13. Synced(Collect(t, rs), rs, server)
  BY <1>2, <1>12, CollectSynced
<1> QED
  BY <1>1, <1>13

LEMMA NextSynced ==
  ASSUME ViewInv, [Next]_vars
  PROVE  ViewInv'
<1>1. IInv /\ IInv'
  BY NextStep DEF ViewInv
<1> DEFINE View == Leading(Predefined) \subseteq server /\ Synced(ui, requests, server)
<1>2. SUFFICES ASSUME ~disturbed'
               PROVE  View'
  BY <1>1 DEF ViewInv
<1> DEFINE User == \/ ClickFolder \/ Toggle \/ Walk \/ Refresh \/ Select
                   \/ DeleteSelection \/ CreateFolder \/ StartUpload
<1>3. CASE User
  <2>1. ASSUME NEW s, NEW rs, End(s, rs)
        PROVE  ~disturbed
    BY <1>1, <1>2, <2>1 DEF End, Tangled, IInv
  <2>2. ASSUME NEW s, Settle(s)
        PROVE  ~disturbed
    BY <2>1, <2>2 DEF Settle
  <2>3. ASSUME NEW s, NEW op, NEW f, NEW on, Send(s, op, f, on)
        PROVE  ~disturbed
    BY <2>1, <2>3 DEF Send
  <2>4. ASSUME NEW s, NEW f, Load(s, f)
        PROVE  ~disturbed
    BY <2>3, <2>4 DEF Load
  <2>5. ASSUME NEW f, Open(f)
        PROVE  ~disturbed
    BY <2>2, <2>4, <2>5 DEF Open
  <2>6. ~disturbed
    BY <1>3, <2>2, <2>3, <2>4, <2>5
       DEF User, ClickFolder, Toggle, Walk, Refresh, Select, DeleteSelection,
           CreateFolder, StartUpload
  <2>7. ASSUME NEW s, Settle(s)
        PROVE  server' = server
    BY <2>7 DEF Settle
  <2>8. ASSUME NEW s, NEW op, NEW f, NEW on, Send(s, op, f, on)
        PROVE  server' = server
    BY <2>8 DEF Send
  <2>9. ASSUME NEW f, Open(f)
        PROVE  server' = server
    BY <2>7, <2>8, <2>9 DEF Open, Load
  <2>10. server' = server
    BY <1>3, <2>7, <2>8, <2>9
       DEF User, ClickFolder, Toggle, Walk, Refresh, Load, Select, DeleteSelection,
           CreateFolder, StartUpload
  <2> QED
    BY <1>1, <1>2, <1>3, <2>6, <2>10, EventSynced DEF ViewInv, User
<1>4. ASSUME NEW k \in Slot, Serve(k)
      PROVE  View'
  <2>1. ~disturbed
    BY <1>2, <1>4 DEF Serve
  <2> QED
    BY <1>1, <1>2, <1>4, <2>1, ServeSynced DEF ViewInv
<1>5. ASSUME NEW k \in Slot, Deliver(k)
      PROVE  View'
  <2>1. ~disturbed
    BY <1>2, <1>5 DEF Deliver, End
  <2> QED
    BY <1>1, <1>5, <2>1, DeliverStepSynced DEF ViewInv, Deliver
<1>6. ~OthersChange /\ \A k \in Slot : ~Lose(k)
  BY <1>2 DEF OthersChange, Lose
<1>7. CASE UNCHANGED vars
  BY <1>2, <1>7 DEF ViewInv, vars
<1> QED
  BY <1>3, <1>4, <1>5, <1>6, <1>7 DEF Next, User

\* What can be reached from the root is in place.
LEMMA InTreeFacts ==
  ASSUME NEW f \in InTree, IInv, Placed(ui)
  PROVE  f \in DOMAIN ui.folders /\ InPlace(ui, f)
<1>1. f \in DOMAIN ui.folders /\ Root \in Above(ui, f)
  BY DEF InTree
<1>2. InPlace(ui, Root)
  BY SyncedValid, ConstantsAssumption DEF Struct, Paths, Typed, InPlace
<1> QED
  BY <1>1, <1>2, SyncedValid, NothingAbove

LEMMA ViewInvCurrent ==
  ASSUME ViewInv
  PROVE  ViewIsCurrent
<1> SUFFICES ASSUME InFlight = {}, ~disturbed, NEW f \in InTree, ui.folders[f].loaded
             PROVE  /\ NamesIn(f.at) \subseteq Listed(ui, f)
                    /\ \A n \in Listed(ui, f) \ NamesIn(f.at) : LeadsToPredefined(ui, f, n)
  BY DEF ViewIsCurrent
<1>1. IInv /\ Synced(ui, requests, server) /\ Placed(ui)
  BY DEF ViewInv, Synced
<1>2. f \in DOMAIN ui.folders /\ InPlace(ui, f)
  BY <1>1, InTreeFacts
<1>3. \A k \in Slot : ~Told(requests, k)
  BY DEF InFlight, Told
<1>4. /\ ~Doomed(requests, f.at)
      /\ ToCome(requests, f) = {} /\ ToGo(requests, f) = {}
  BY <1>3 DEF Doomed, ToCome, ToGo, Awaited
<1>5. UpTo(ui, f, NamesAt(server, f.at), {}, {})
  BY <1>1, <1>2, <1>4 DEF Synced, Behind
<1>6. NamesIn(f.at) = NamesAt(server, f.at)
  BY DEF NamesIn, Content, NamesAt
<1>7. Listed(ui, f) \subseteq Name
  BY <1>1, <1>2, SyncedValid DEF Struct, Typed, FolderOK, Listed
<1>8. \A n \in Listed(ui, f) \ NamesIn(f.at) : Kept(Append(f.at, n)) /\ n \in Name
  BY <1>5, <1>6, <1>7 DEF UpTo
<1> QED
  BY <1>1, <1>2, <1>5, <1>6, <1>8, SyncedValid, KeptLeads DEF UpTo

(***************************************************************************)
(* When all requests are answered the folders that were loaded show what   *)
(* the server has, for any tree of folders and any number of requests, if  *)
(* nobody else changed it, no answer was lost and no two requests went to  *)
(* one folder or to folders above each other (imce.js:1399-1427,           *)
(* imce.Folder.js:68-143).                                                 *)
(***************************************************************************)
THEOREM ViewAlwaysCurrent == Spec => []ViewIsCurrent
<1>1. Init => ViewInv
  <2>1. Init => Leading(Predefined) \subseteq server
    BY ConstantsAssumption DEF Init
  <2> QED
    BY <2>1, InitFacts, InitSynced DEF ViewInv
<1>2. ViewInv /\ [Next]_vars => ViewInv'
  BY NextSynced
<1>3. ViewInv => ViewIsCurrent
  BY ViewInvCurrent
<1> QED
  BY <1>1, <1>2, <1>3, PTL DEF Spec
=============================================================================
