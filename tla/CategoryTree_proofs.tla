-------------------------- MODULE CategoryTree_proofs --------------------------
(***************************************************************************)
(* Proofs about CategoryTree, for every set of names, every default tree   *)
(* and any number of requests.  First the trees: what the functions that   *)
(* plan an edit make of a well-formed tree.  Then the table: what is       *)
(* written of a plan.  Then one lemma per request.                         *)
(***************************************************************************)
EXTENDS CategoryTree, TLAPS

Top(k) == <<k[1]>>

Nodes == [name : Names \cup {Other}, parent : TopKeys \cup {NoKey}]

\* A tree of nodes that is well-formed: what has no parent is top-level, a
\* catch-all hangs under the category it is of, the parents are in the tree, and
\* two siblings have two names.
Shape(t) ==
    /\ DOMAIN t \subseteq Keys
    /\ \A k \in DOMAIN t : /\ t[k] \in Nodes
                           /\ t[k].parent = NoKey <=> k \in TopKeys
                           /\ IsCatchAll(k) => t[k].parent = Top(k)
                           /\ t[k].parent # NoKey => t[k].parent \in DOMAIN t
    /\ \A j, k \in DOMAIN t : j # k /\ t[j].parent = t[k].parent /\ ~IsCatchAll(j) /\ ~IsCatchAll(k)
                                => t[j].name # t[k].name

\* No catch-all without a real sibling; and one wherever there are real ones.
NoneIsLone(t) == \A p \in DOMAIN t \cap TopKeys : CatchAll(p) \in DOMAIN t => RealChildren(t, p) # {}
NoneIsMissing(t) == \A p \in DOMAIN t \cap TopKeys : RealChildren(t, p) # {} => CatchAll(p) \in DOMAIN t

-----------------------------------------------------------------------------
(* Keys.                                                                   *)

\* A catch-all is the catch-all of one top-level key, and no top-level key is one.
LEMMA TopsHaveCatchAlls ==
  ASSUME NEW p \in TopKeys
  PROVE  /\ ~IsCatchAll(p) /\ Top(p) = p /\ p \notin SubKeys
         /\ CatchAll(p) \in SubKeys /\ IsCatchAll(CatchAll(p)) /\ Top(CatchAll(p)) = p
BY NamesAssumption DEF TopKeys, SubKeys, CatchAll, IsCatchAll, Top

LEMMA CatchAllsHaveTops ==
  ASSUME NEW k \in Keys, IsCatchAll(k)
  PROVE  k \in SubKeys /\ Top(k) \in TopKeys /\ CatchAll(Top(k)) = k
BY NamesAssumption DEF Keys, TopKeys, SubKeys, CatchAll, IsCatchAll, Top

LEMMA KeysAreTwoKinds ==
  /\ Keys = TopKeys \cup SubKeys /\ TopKeys \cap SubKeys = {}
  /\ NoKey \notin Keys /\ NoKey \notin TopKeys /\ NoKey \notin SubKeys
BY NamesAssumption, TopsHaveCatchAlls DEF Keys

-----------------------------------------------------------------------------
(* Trees.                                                                  *)

\* A tree made of another by taking catch-alls and subcategories out, categories
\* with all their children, and adding catch-alls, is well-formed.
LEMMA ShapeVaries ==
  ASSUME NEW t, Shape(t), NEW u, DOMAIN u \subseteq Keys,
         \A k \in DOMAIN u : \/ k \in DOMAIN t /\ u[k] = t[k]
                             \/ IsCatchAll(k) /\ Top(k) \in DOMAIN u /\ u[k] = Node(Other, Top(k)),
         \A k \in DOMAIN t \cap DOMAIN u : t[k].parent # NoKey => t[k].parent \in DOMAIN u
  PROVE  Shape(u)
BY TopsHaveCatchAlls, CatchAllsHaveTops, KeysAreTwoKinds DEF Shape, Nodes, Node

\* normalize_categories changes no category, and takes out and puts in catch-alls.
LEMMA NormalizeKeeps ==
  ASSUME NEW t, Shape(t)
  PROVE  /\ \A k \in DOMAIN Normalize(t) \cap DOMAIN t : Normalize(t)[k] = t[k]
         /\ \A k \in DOMAIN Normalize(t) \ DOMAIN t :
               /\ k \in SubKeys /\ IsCatchAll(k) /\ Top(k) \in DOMAIN t \cap TopKeys /\ RealChildren(t, Top(k)) # {}
               /\ Normalize(t)[k] = Node(Other, Top(k))
         /\ \A k \in DOMAIN t : ~IsCatchAll(k) => k \in DOMAIN Normalize(t)
         /\ \A k \in DOMAIN t \ DOMAIN Normalize(t) : k \in SubKeys /\ IsCatchAll(k) /\ RealChildren(t, Top(k)) = {}
         /\ \A p \in DOMAIN t \cap TopKeys : RealChildren(t, p) # {} => CatchAll(p) \in DOMAIN Normalize(t)
<1> DEFINE parents == {p \in DOMAIN t : Children(t, p) # {}}
           missing == {p \in parents : RealChildren(t, p) # {} /\ CatchAll(p) \notin DOMAIN t}
           alone   == {CatchAll(p) : p \in {q \in parents : RealChildren(t, q) = {}}}
<1>1. \A p \in parents : p \in TopKeys BY KeysAreTwoKinds DEF Shape, Nodes, Children
<1>2. \A p : RealChildren(t, p) # {} => Children(t, p) # {} BY DEF RealChildren
<1>3. /\ DOMAIN Normalize(t) = (DOMAIN t \ alone) \cup {CatchAll(p) : p \in missing}
      /\ \A k \in DOMAIN Normalize(t) : Normalize(t)[k] = IF k \in DOMAIN t THEN t[k] ELSE Node(Other, Top(k))
  BY DEF Normalize, Top
<1> HIDE DEF parents
<1>4. \A k \in alone : k \in SubKeys /\ IsCatchAll(k) /\ RealChildren(t, Top(k)) = {} BY <1>1, TopsHaveCatchAlls
<1>5. \A k \in {CatchAll(p) : p \in missing} :
         k \in SubKeys /\ IsCatchAll(k) /\ Top(k) \in missing /\ k \notin DOMAIN t
  BY <1>1, TopsHaveCatchAlls
<1>6. \A p \in DOMAIN t \cap TopKeys : RealChildren(t, p) # {} => p \in parents BY <1>2 DEF parents
<1>7. \A p \in missing : p \in DOMAIN t \cap TopKeys /\ RealChildren(t, p) # {} BY <1>1 DEF parents
<1>8. \A p \in DOMAIN t \cap TopKeys : RealChildren(t, p) # {} => CatchAll(p) \notin alone BY <1>4, TopsHaveCatchAlls
<1> HIDE DEF missing, alone
<1>9. \A p \in DOMAIN t \cap TopKeys : RealChildren(t, p) # {} => CatchAll(p) \in DOMAIN Normalize(t)
  BY <1>3, <1>6, <1>8 DEF missing
<1> QED BY <1>3, <1>4, <1>5, <1>7, <1>9

\* The tree it makes is well-formed and has its catch-alls where they belong.
LEMMA NormalizeShapes ==
  ASSUME NEW t, Shape(t)
  PROVE  /\ Shape(Normalize(t)) /\ NoneIsLone(Normalize(t)) /\ NoneIsMissing(Normalize(t))
         /\ \A p \in TopKeys : RealChildren(Normalize(t), p) = RealChildren(t, p)
<1> DEFINE u == Normalize(t)
<1>1. DOMAIN u \subseteq Keys BY NormalizeKeeps, KeysAreTwoKinds DEF Shape
<1>2. \A k \in DOMAIN t : t[k].parent # NoKey => t[k].parent \in DOMAIN u
  BY NormalizeKeeps, TopsHaveCatchAlls DEF Shape, Nodes
<1>3. \A k \in DOMAIN u \ DOMAIN t : Top(k) \in DOMAIN u BY NormalizeKeeps, TopsHaveCatchAlls
<1>4. Shape(u)
  <2> HIDE DEF u
  <2>1. \A k \in DOMAIN u : \/ k \in DOMAIN t /\ u[k] = t[k]
                            \/ IsCatchAll(k) /\ Top(k) \in DOMAIN u /\ u[k] = Node(Other, Top(k))
    BY <1>3, NormalizeKeeps DEF u
  <2> QED BY <1>1, <1>2, <2>1, ShapeVaries
<1>5. \A p \in TopKeys : RealChildren(u, p) = RealChildren(t, p)
  BY NormalizeKeeps DEF RealChildren, Children
<1>6. NoneIsMissing(u) BY <1>5, NormalizeKeeps, TopsHaveCatchAlls DEF NoneIsMissing
<1>7. NoneIsLone(u)
  <2> SUFFICES ASSUME NEW p \in DOMAIN u \cap TopKeys, CatchAll(p) \in DOMAIN u, RealChildren(u, p) = {} PROVE FALSE
    BY DEF NoneIsLone
  <2>1. RealChildren(t, p) = {} /\ Top(CatchAll(p)) = p BY <1>5, TopsHaveCatchAlls
  <2>2. CatchAll(p) \in DOMAIN t BY <2>1, NormalizeKeeps
  <2>3. CatchAll(p) \in Children(t, p) BY <2>1, <2>2, TopsHaveCatchAlls DEF Shape, Children
  <2>4. p \in DOMAIN t BY <2>1, <2>2, <2>3, KeysAreTwoKinds, TopsHaveCatchAlls DEF Shape
  <2>5. CatchAll(p) \notin DOMAIN u
    <3> DEFINE parents == {q \in DOMAIN t : Children(t, q) # {}}
    <3>1. p \in {q \in parents : RealChildren(t, q) = {}} BY <2>1, <2>3, <2>4
    <3> HIDE DEF parents
    <3>2. CatchAll(p) \in {CatchAll(q) : q \in {r \in parents : RealChildren(t, r) = {}}} BY <3>1
    <3>3. CatchAll(p) \notin {CatchAll(q) : q \in {r \in parents : RealChildren(t, r) # {} /\ CatchAll(r) \notin DOMAIN t}}
      BY <2>2
    <3> QED BY <3>2, <3>3 DEF Normalize, parents
  <2> QED BY <2>5
<1> QED BY <1>4, <1>5, <1>6, <1>7

\* A category that is added under a name none of its siblings has.
LEMMA WithShapes ==
  ASSUME NEW t, Shape(t), NEW k \in Keys \ DOMAIN t, ~IsCatchAll(k), NEW n \in Names,
         NEW p, \/ p = NoKey /\ k \in TopKeys
                \/ p \in DOMAIN t \cap TopKeys /\ k \in SubKeys,
         \A c \in Children(t, p) : t[c].name # n
  PROVE  Shape(With(t, k, Node(n, p)))
<1> DEFINE u == With(t, k, Node(n, p))
<1>1. /\ DOMAIN u = DOMAIN t \cup {k} /\ u[k] = Node(n, p) /\ Node(n, p) \in Nodes
      /\ \A j \in DOMAIN t : u[j] = t[j]
  BY KeysAreTwoKinds DEF With, Node, Nodes
<1>2. Node(n, p).name = n /\ Node(n, p).parent = p BY DEF Node
<1> HIDE DEF u
<1>3. \A j \in DOMAIN t : u[j].parent = p => u[j].name # n BY <1>1 DEF Children
<1>4. \A j \in DOMAIN u : /\ u[j] \in Nodes
                          /\ u[j].parent = NoKey <=> j \in TopKeys
                          /\ IsCatchAll(j) => u[j].parent = Top(j)
                          /\ u[j].parent # NoKey => u[j].parent \in DOMAIN u
  BY <1>1, <1>2, KeysAreTwoKinds DEF Shape
<1>5. \A i, j \in DOMAIN u : i # j /\ u[i].parent = u[j].parent /\ ~IsCatchAll(i) /\ ~IsCatchAll(j)
                                => u[i].name # u[j].name
  BY <1>1, <1>2, <1>3 DEF Shape
<1>6. DOMAIN u \subseteq Keys BY <1>1 DEF Shape
<1> QED BY <1>4, <1>5, <1>6 DEF Shape, u

\* What an edit does to the domain of a tree: what it adds are catch-alls of
\* categories that stay, what it takes out is in `gone` or a catch-all left alone.
Edited(t, u, gone) ==
    /\ Shape(u) /\ NoneIsLone(u) /\ NoneIsMissing(u)
    /\ \A k \in DOMAIN u \ DOMAIN t : /\ k \in SubKeys /\ IsCatchAll(k) /\ Top(k) \in DOMAIN t
                                      /\ u[k] = Node(Other, Top(k))
    /\ \A k \in DOMAIN t \ DOMAIN u : \/ k \in gone
                                      \/ k \in SubKeys /\ IsCatchAll(k) /\ RealChildren(t, Top(k)) = {}

\* A rename that merges nothing.
LEMMA RenamedShapes ==
  ASSUME NEW t, Shape(t), NEW k \in DOMAIN t, NEW name \in Names, MergeTargets(t, k, name) = {}
  PROVE  Edited(t, Renamed(t, k, name), {})
<1> DEFINE u == [t EXCEPT ![k].name = name]
<1>1. /\ DOMAIN u = DOMAIN t
      /\ \A j \in DOMAIN t : /\ u[j] \in Nodes /\ u[j].parent = t[j].parent
                             /\ u[j].name = IF j = k THEN name ELSE t[j].name
  BY DEF Shape, Nodes
<1> HIDE DEF u
<1>2. \A j \in DOMAIN t : j # k /\ t[j].parent = t[k].parent /\ ~IsCatchAll(j) => t[j].name # name
  BY DEF MergeTargets
<1>3. \A i, j \in DOMAIN u : i # j /\ u[i].parent = u[j].parent /\ ~IsCatchAll(i) /\ ~IsCatchAll(j)
                                => u[i].name # u[j].name
  BY <1>1, <1>2 DEF Shape
<1>4. Shape(u) BY <1>1, <1>3 DEF Shape
<1>5. \A p : RealChildren(u, p) = RealChildren(t, p) BY <1>1 DEF RealChildren, Children
<1>6. Renamed(t, k, name) = Normalize(u) BY DEF Renamed, u
<1>7. \A c \in DOMAIN t \ DOMAIN Normalize(u) : c \in SubKeys /\ IsCatchAll(c) /\ RealChildren(t, Top(c)) = {}
  BY <1>1, <1>4, <1>5, NormalizeKeeps
<1>8. \A c \in DOMAIN Normalize(u) \ DOMAIN t :
         c \in SubKeys /\ IsCatchAll(c) /\ Top(c) \in DOMAIN t /\ Normalize(u)[c] = Node(Other, Top(c))
  BY <1>1, <1>4, NormalizeKeeps
<1> QED BY <1>4, <1>6, <1>7, <1>8, NormalizeShapes DEF Edited

\* Where a merge sends what it removes: to a category of the same kind that stays.
LEMMA RemapTargets ==
  ASSUME NEW t, Shape(t), NEW k \in DOMAIN t, NEW name, NEW target \in MergeTargets(t, k, name)
  PROVE  LET map == MergeRemap(t, k, target)
         IN  /\ k \in DOMAIN map /\ map[k] = target
             /\ DOMAIN map \subseteq DOMAIN t
             /\ \A c \in DOMAIN map \ {k} :
                   /\ c \in SubKeys /\ k \in TopKeys /\ target \in TopKeys /\ t[c].parent = k
                   /\ \/ IsCatchAll(c) /\ map[c] = CatchAll(target)
                      \/ ~IsCatchAll(c) /\ map[c] \in RealChildren(t, target) /\ t[map[c]].name = t[c].name
             /\ \A c \in DOMAIN t \ DOMAIN map :
                   t[c].parent = k => ~IsCatchAll(c) /\ \A d \in RealChildren(t, target) : t[d].name # t[c].name
<1> DEFINE kids == {c \in Children(t, k) :
                       IsCatchAll(c) \/ \E d \in RealChildren(t, target) : t[d].name = t[c].name}
           map == MergeRemap(t, k, target)
<1>1. /\ target \in DOMAIN t /\ target # k /\ ~IsCatchAll(target) /\ t[target].parent = t[k].parent
  BY DEF MergeTargets
<1>2. \A c \in Children(t, k) : c \in SubKeys /\ c # k /\ k \in TopKeys /\ target \in TopKeys
  BY <1>1, KeysAreTwoKinds DEF Shape, Nodes, Children
<1>3. DOMAIN map = {k} \cup kids /\ map[k] = target BY DEF MergeRemap
<1>4. \A c \in kids : c # k BY <1>2
<1>5. \A c \in kids : IsCatchAll(c) => map[c] = CatchAll(target) BY <1>3, <1>4 DEF MergeRemap
<1>6. \A c \in kids : ~IsCatchAll(c) =>
         map[c] = CHOOSE d \in RealChildren(t, target) : t[d].name = t[c].name
  BY <1>3, <1>4 DEF MergeRemap
<1>7. \A c \in kids : ~IsCatchAll(c) => map[c] \in RealChildren(t, target) /\ t[map[c]].name = t[c].name
  BY <1>6
<1>8. \A c \in DOMAIN t \ DOMAIN map :
         t[c].parent = k => ~IsCatchAll(c) /\ \A d \in RealChildren(t, target) : t[d].name # t[c].name
  BY <1>3 DEF Children
<1> QED BY <1>2, <1>3, <1>4, <1>5, <1>7, <1>8 DEF Children

\* A merge, and its mapping: what the mapping sends somewhere leaves the tree, unless
\* it is a catch-all that is renamed itself; where it is sent stays, but for the
\* catch-all of a target that has no real child.
LEMMA MergedShapes ==
  ASSUME NEW t, Shape(t), NEW k \in DOMAIN t, NEW name, NEW target \in MergeTargets(t, k, name)
  PROVE  LET map == MergeRemap(t, k, target)
             u   == Merged(t, k, target)
         IN  /\ Edited(t, u, DOMAIN map)
             /\ ~IsCatchAll(k) => \A c \in DOMAIN map : c \notin DOMAIN u
             /\ \A c \in DOMAIN map : map[c] \in DOMAIN u \/ (IsCatchAll(map[c]) /\ ~NoneIsLone(t))
<1> DEFINE map == MergeRemap(t, k, target)
           moved == [c \in DOMAIN t \ DOMAIN map |-> IF t[c].parent = k THEN Node(t[c].name, target) ELSE t[c]]
<1>1. /\ target \in DOMAIN t /\ target # k /\ ~IsCatchAll(target) /\ t[target].parent = t[k].parent
  BY DEF MergeTargets
<1>2. /\ k \in DOMAIN map /\ map[k] = target /\ DOMAIN map \subseteq DOMAIN t
      /\ \A c \in DOMAIN map \ {k} :
            /\ c \in SubKeys /\ k \in TopKeys /\ target \in TopKeys /\ t[c].parent = k
            /\ \/ IsCatchAll(c) /\ map[c] = CatchAll(target)
               \/ ~IsCatchAll(c) /\ map[c] \in RealChildren(t, target) /\ t[map[c]].name = t[c].name
      /\ \A c \in DOMAIN t \ DOMAIN map :
            t[c].parent = k => ~IsCatchAll(c) /\ \A d \in RealChildren(t, target) : t[d].name # t[c].name
  BY RemapTargets
<1>3. Merged(t, k, target) = Normalize(moved) BY DEF Merged
<1>4. /\ DOMAIN moved = DOMAIN t \ DOMAIN map
      /\ \A c \in DOMAIN moved : moved[c] = IF t[c].parent = k THEN Node(t[c].name, target) ELSE t[c]
  OBVIOUS
<1> HIDE DEF map, moved
<1>5. \A c \in DOMAIN t : t[c].parent = k =>
         c \in SubKeys /\ c # k /\ k \in TopKeys /\ target \in TopKeys /\ ~IsCatchAll(k)
  BY <1>1, KeysAreTwoKinds, TopsHaveCatchAlls DEF Shape, Nodes
<1>6. \A c \in DOMAIN moved : /\ c \in DOMAIN t /\ c # k /\ moved[c].name = t[c].name
                              /\ moved[c].parent = IF t[c].parent = k THEN target ELSE t[c].parent
                              /\ moved[c] \in Nodes
  BY <1>2, <1>4, <1>5 DEF Shape, Nodes, Node
<1>7. target \in DOMAIN moved
  <2>1. t[target].parent # k BY <1>1, <1>5, KeysAreTwoKinds DEF Shape
  <2> QED BY <1>1, <1>2, <1>4, <2>1
<1>8. \A c \in DOMAIN t : t[c].parent \in TopKeys /\ t[c].parent # k => t[c].parent \in DOMAIN moved
  BY <1>2, <1>4, KeysAreTwoKinds DEF Shape
<1>9. Shape(moved)
  <2>1. ASSUME NEW c \in DOMAIN moved
        PROVE  /\ moved[c] \in Nodes
               /\ moved[c].parent = NoKey <=> c \in TopKeys
               /\ IsCatchAll(c) => moved[c].parent = Top(c)
               /\ moved[c].parent # NoKey => moved[c].parent \in DOMAIN moved
    <3>1. moved[c] \in Nodes BY <1>6
    <3>2. moved[c].parent = NoKey <=> c \in TopKeys BY <1>5, <1>6, KeysAreTwoKinds DEF Shape
    <3>3. IsCatchAll(c) => moved[c].parent = Top(c) BY <1>2, <1>4, <1>6 DEF Shape
    <3>4. moved[c].parent # NoKey => moved[c].parent \in DOMAIN moved BY <1>6, <1>7, <1>8 DEF Shape, Nodes
    <3> QED BY <3>1, <3>2, <3>3, <3>4
  <2>2. ASSUME NEW i \in DOMAIN moved, NEW j \in DOMAIN moved, i # j, moved[i].parent = moved[j].parent,
               ~IsCatchAll(i), ~IsCatchAll(j), t[i].parent = k, t[j].parent # k
        PROVE  moved[i].name # moved[j].name
    <3>1. j \in RealChildren(t, target) BY <1>6, <2>2 DEF RealChildren, Children
    <3> QED BY <1>2, <1>4, <1>6, <2>2, <3>1
  <2>3. \A i, j \in DOMAIN moved : i # j /\ moved[i].parent = moved[j].parent /\ ~IsCatchAll(i) /\ ~IsCatchAll(j)
                                => moved[i].name # moved[j].name
    BY <1>6, <2>2 DEF Shape
  <2>4. DOMAIN moved \subseteq Keys BY <1>4 DEF Shape
  <2> QED BY <2>1, <2>3, <2>4 DEF Shape
<1>10. ASSUME NEW p \in TopKeys, p # k, NEW r \in RealChildren(t, p) PROVE RealChildren(moved, p) # {}
  <2>1. r \in DOMAIN t /\ t[r].parent = p /\ ~IsCatchAll(r) BY <1>10 DEF RealChildren, Children
  <2>2. CASE r \in DOMAIN moved BY <1>6, <1>10, <2>1, <2>2 DEF RealChildren, Children
  <2>3. CASE r \notin DOMAIN moved
    <3>1. r = k BY <1>2, <1>4, <1>10, <2>1, <2>3
    <3>2. target \in RealChildren(moved, p)
      BY <1>1, <1>6, <1>7, <1>10, <2>1, <3>1 DEF RealChildren, Children
    <3> QED BY <3>2
  <2> QED BY <2>2, <2>3
<1>11. \A c \in DOMAIN t \ DOMAIN Normalize(moved) :
          c \in DOMAIN map \/ (c \in SubKeys /\ IsCatchAll(c) /\ RealChildren(t, Top(c)) = {})
  <2> SUFFICES ASSUME NEW c \in DOMAIN t \ DOMAIN Normalize(moved), c \notin DOMAIN map
               PROVE  c \in SubKeys /\ IsCatchAll(c) /\ RealChildren(t, Top(c)) = {}
    OBVIOUS
  <2>1. c \in SubKeys /\ IsCatchAll(c) /\ RealChildren(moved, Top(c)) = {} BY <1>4, <1>9, NormalizeKeeps
  <2>2. Top(c) \in TopKeys BY <2>1, CatchAllsHaveTops, KeysAreTwoKinds
  <2>3. Top(c) # k BY <1>2, <2>1 DEF Shape
  <2>4. RealChildren(t, Top(c)) = {} BY <1>10, <2>1, <2>2, <2>3
  <2> QED BY <2>1, <2>4
<1>12. \A c \in DOMAIN Normalize(moved) \ DOMAIN t :
          c \in SubKeys /\ IsCatchAll(c) /\ Top(c) \in DOMAIN t /\ Normalize(moved)[c] = Node(Other, Top(c))
  BY <1>4, <1>9, NormalizeKeeps
<1>13. Edited(t, Normalize(moved), DOMAIN map) BY <1>9, <1>11, <1>12, NormalizeShapes DEF Edited
<1>14. ASSUME ~IsCatchAll(k), NEW c \in DOMAIN map PROVE c \notin DOMAIN Normalize(moved)
  <2> SUFFICES ASSUME c \in DOMAIN Normalize(moved) PROVE FALSE OBVIOUS
  <2>1. IsCatchAll(c) /\ Top(c) \in DOMAIN moved BY <1>4, <1>9, NormalizeKeeps
  <2>2. Top(c) = k BY <1>2, <1>14, <2>1 DEF Shape
  <2> QED BY <1>2, <1>4, <2>1, <2>2
<1>15. ASSUME NEW c \in DOMAIN map
       PROVE  map[c] \in DOMAIN Normalize(moved) \/ (IsCatchAll(map[c]) /\ ~NoneIsLone(t))
  <2>0. /\ \A j \in DOMAIN moved : ~IsCatchAll(j) => j \in DOMAIN Normalize(moved)
        /\ \A p \in DOMAIN moved \cap TopKeys :
              RealChildren(moved, p) # {} => CatchAll(p) \in DOMAIN Normalize(moved)
    BY <1>9, NormalizeKeeps
  <2>1. CASE c = k BY <1>1, <1>2, <1>7, <2>0, <2>1
  <2>2. CASE c # k /\ ~IsCatchAll(c)
    <3>1. map[c] \in DOMAIN t /\ t[map[c]].parent = target /\ ~IsCatchAll(map[c])
      BY <1>2, <2>2 DEF RealChildren, Children
    <3>2. map[c] \notin DOMAIN map BY <1>1, <1>2, <2>2, <3>1, KeysAreTwoKinds DEF Shape
    <3> QED BY <1>4, <2>0, <3>1, <3>2
  <2>3. CASE c # k /\ IsCatchAll(c)
    <3>1. /\ map[c] = CatchAll(target) /\ IsCatchAll(map[c]) /\ k \in TopKeys /\ target \in TopKeys
          /\ c = CatchAll(k) /\ c \in DOMAIN t
      BY <1>2, <2>3, TopsHaveCatchAlls, CatchAllsHaveTops, KeysAreTwoKinds DEF Shape
    <3>2. SUFFICES ASSUME NoneIsLone(t) PROVE RealChildren(moved, target) # {}
      BY <1>7, <2>0, <3>1
    <3>3. PICK r \in RealChildren(t, k) : TRUE BY <3>1, <3>2 DEF NoneIsLone
    <3>4. r \in DOMAIN t /\ t[r].parent = k /\ ~IsCatchAll(r) BY <3>3 DEF RealChildren, Children
    <3>5. CASE r \in DOMAIN moved BY <1>6, <3>4, <3>5 DEF RealChildren, Children
    <3>6. CASE r \in DOMAIN map
      <4>1. map[r] \in DOMAIN t /\ t[map[r]].parent = target /\ ~IsCatchAll(map[r])
        BY <1>2, <1>5, <3>4, <3>6 DEF RealChildren, Children
      <4>2. map[r] \in DOMAIN moved BY <1>1, <1>2, <1>4, <1>5, <3>4, <4>1, KeysAreTwoKinds DEF Shape
      <4> QED BY <1>1, <1>6, <4>1, <4>2 DEF RealChildren, Children
    <3> QED BY <1>4, <3>4, <3>5, <3>6
  <2> QED BY <2>1, <2>2, <2>3
<1> QED BY <1>3, <1>13, <1>14, <1>15 DEF map

\* The tree a delete leaves.
LEMMA RemainingShapes ==
  ASSUME NEW t, Shape(t), NEW k \in DOMAIN t
  PROVE  Edited(t, Remaining(t, k), Leaving(t, k))
<1> DEFINE u == Restrict(t, DOMAIN t \ Named(t, k))
<1>1. DOMAIN u = DOMAIN t \ Named(t, k) /\ \A c \in DOMAIN u : u[c] = t[c] BY DEF Restrict
<1>2. Remaining(t, k) = Normalize(u) BY DEF Remaining
<1> HIDE DEF u
<1>3. \A c \in DOMAIN u : t[c].parent # NoKey => t[c].parent \in DOMAIN u
  BY <1>1, KeysAreTwoKinds DEF Named, Children, Shape, Nodes
<1>4. Shape(u)
  <2>1. DOMAIN u \subseteq Keys BY <1>1 DEF Shape
  <2>2. \A c \in DOMAIN u : c \in DOMAIN t /\ u[c] = t[c] BY <1>1
  <2> QED BY <1>3, <2>1, <2>2, ShapeVaries
<1>5. \A c \in DOMAIN Normalize(u) \ DOMAIN t :
         c \in SubKeys /\ IsCatchAll(c) /\ Top(c) \in DOMAIN t /\ Normalize(u)[c] = Node(Other, Top(c))
  BY <1>1, <1>4, NormalizeKeeps
<1> QED BY <1>2, <1>4, <1>5, NormalizeShapes DEF Edited, Leaving

-----------------------------------------------------------------------------
(* The table.                                                              *)

RowType == [name : Names \cup {Other}, parent : TopKeys \cup {NoKey},
            retired : BOOLEAN, successor : Keys \cup {NoKey}]

\* A table of typed rows whose successors are rows.
Table(rs) ==
    /\ DOMAIN rs \subseteq Keys
    /\ \A k \in DOMAIN rs : rs[k] \in RowType /\ rs[k].successor \in DOMAIN rs \cup {NoKey}

LEMMA TreeOfTable ==
  ASSUME NEW rs, Table(rs)
  PROVE  /\ DOMAIN Tree(rs) = DOMAIN rs \ Retired(rs) /\ Retired(rs) \subseteq DOMAIN rs
         /\ \A k \in DOMAIN Tree(rs) : Tree(rs)[k] = Node(rs[k].name, rs[k].parent) /\ Tree(rs)[k] \in Nodes
BY DEF Tree, Retired, Node, Nodes, Table, RowType

\* A node is what its fields make, a row written of it is live, and what a merge or a
\* delete changes of a row.
LEMMA NodesAreLive ==
  ASSUME NEW n \in Nodes
  PROVE  LET row == Live(n.name, n.parent)
         IN  row \in RowType /\ row.successor = NoKey /\ ~row.retired /\ Node(row.name, row.parent) = n
BY DEF Live, RowType, Node, Nodes

Moved(row, s) == [row EXCEPT !.successor = s]
Gone(row, s) == [row EXCEPT !.retired = TRUE, !.successor = s]

LEMMA RowsChange ==
  ASSUME NEW row \in RowType, NEW s \in Keys \cup {NoKey}
  PROVE  /\ Moved(row, s) \in RowType /\ Moved(row, s).successor = s /\ Moved(row, s).retired = row.retired
         /\ Moved(row, s).name = row.name /\ Moved(row, s).parent = row.parent
         /\ Gone(row, s) \in RowType /\ Gone(row, s).successor = s /\ Gone(row, s).retired = TRUE
         /\ Gone(row, s).name = row.name /\ Gone(row, s).parent = row.parent
BY DEF RowType, Moved, Gone

\* What is upserted is live, the rest stays.
LEMMA UpsertWrites ==
  ASSUME NEW rs, Table(rs), NEW u, DOMAIN u \subseteq Keys, \A k \in DOMAIN u : u[k] \in Nodes
  PROVE  LET new == Upsert(rs, u)
         IN  /\ Table(new) /\ DOMAIN new = DOMAIN rs \cup DOMAIN u
             /\ Retired(new) = Retired(rs) \ DOMAIN u
             /\ DOMAIN Tree(new) = DOMAIN Tree(rs) \cup DOMAIN u
             /\ \A k \in DOMAIN Tree(new) : Tree(new)[k] = IF k \in DOMAIN u THEN u[k] ELSE Tree(rs)[k]
             /\ \A k \in DOMAIN rs \ DOMAIN u : new[k] = rs[k]
<1> DEFINE new == Upsert(rs, u)
<1>1. /\ DOMAIN new = DOMAIN rs \cup DOMAIN u
      /\ \A k \in DOMAIN u : new[k] = Live(u[k].name, u[k].parent)
      /\ \A k \in DOMAIN rs \ DOMAIN u : new[k] = rs[k]
  BY DEF Upsert
<1> HIDE DEF new
<1>2. \A k \in DOMAIN u : /\ new[k] \in RowType /\ new[k].successor = NoKey /\ ~new[k].retired
                          /\ Node(new[k].name, new[k].parent) = u[k]
  BY <1>1, NodesAreLive
<1>3. Table(new) BY <1>1, <1>2 DEF Table
<1>4. Retired(new) = Retired(rs) \ DOMAIN u BY <1>1, <1>2 DEF Retired
<1>5. DOMAIN Tree(new) = DOMAIN Tree(rs) \cup DOMAIN u
  <2>1. DOMAIN Tree(new) = DOMAIN new \ Retired(new) BY <1>3, TreeOfTable
  <2>2. DOMAIN Tree(rs) = DOMAIN rs \ Retired(rs) BY TreeOfTable
  <2> QED BY <1>1, <1>4, <2>1, <2>2
<1>6. ASSUME NEW k \in DOMAIN Tree(new) PROVE Tree(new)[k] = IF k \in DOMAIN u THEN u[k] ELSE Tree(rs)[k]
  <2>1. Tree(new)[k] = Node(new[k].name, new[k].parent) BY <1>3, TreeOfTable
  <2>2. CASE k \in DOMAIN u BY <1>2, <2>1, <2>2
  <2>3. CASE k \notin DOMAIN u BY <1>1, <1>5, <2>1, <2>3, TreeOfTable
  <2> QED BY <2>2, <2>3
<1> QED BY <1>1, <1>3, <1>4, <1>5, <1>6 DEF new

\* The mapping of an edit names no key it maps to, so that its end is one step away.
LEMMA TerminalIsOneStep ==
  ASSUME NEW map, \A c \in DOMAIN map : map[c] \notin DOMAIN map, NEW k \in DOMAIN map
  PROVE  Terminal(map, k) = map[k]
<1> DEFINE keys == {k} \cup DOMAIN map \cup {map[j] : j \in DOMAIN map}
           Follows(S) == \A j \in S \cap DOMAIN map : map[j] \in S
           IsEnd(e) == \A S \in SUBSET keys : k \in S /\ Follows(S) => e \in S
<1>1. map[k] \in keys \ DOMAIN map /\ IsEnd(map[k]) OBVIOUS
<1>2. ASSUME NEW e \in keys \ DOMAIN map, IsEnd(e) PROVE e = map[k]
  <2>1. {k, map[k]} \in SUBSET keys /\ Follows({k, map[k]}) OBVIOUS
  <2> QED BY <1>2, <2>1
<1>3. Terminal(map, k) = CHOOSE e \in keys \ DOMAIN map : IsEnd(e) BY DEF Terminal
<1> HIDE DEF keys, IsEnd
<1> QED BY <1>1, <1>2, <1>3

\* A key if it has a row; and where a tombstone is sent, a new one or an old one.
Kept(rs, k) == IF k \in DOMAIN rs THEN k ELSE NoKey
Heir(map, rs, k) == IF k \in DOMAIN map THEN map[k] ELSE Follow(map, rs[k].successor)

\* What retire_categories and replace_categories leave together: the live rows are
\* the tree, the retired ones stay, and every successor is followed through the
\* mapping, or NULL if its row is gone.
Retirable(rs, map, u) ==
    /\ Table(rs) /\ DOMAIN map \subseteq DOMAIN rs
    /\ \A c \in DOMAIN map : map[c] \in (Keys \cup {NoKey}) \ DOMAIN map
    /\ DOMAIN u \subseteq Keys /\ \A k \in DOMAIN u : u[k] \in Nodes

IsFinal(final, rs, map, u) ==
    /\ Table(final) /\ DOMAIN final = DOMAIN u \cup Retired(rs) \cup DOMAIN map
    /\ Retired(final) = (Retired(rs) \cup DOMAIN map) \ DOMAIN u
    /\ DOMAIN Tree(final) = DOMAIN u
    /\ \A k \in DOMAIN u : Tree(final)[k] = u[k]
    /\ \A k \in Retired(final) : final[k].successor = Kept(final, Heir(map, rs, k))

LEMMA RetireAndReplace ==
  ASSUME NEW rs, NEW map, NEW u, Retirable(rs, map, u)
  PROVE  IsFinal(Replace(Retire(rs, map), u), rs, map, u)
<1>0. /\ Table(rs) /\ DOMAIN map \subseteq DOMAIN rs
      /\ \A c \in DOMAIN map : map[c] \in (Keys \cup {NoKey}) \ DOMAIN map
      /\ DOMAIN u \subseteq Keys /\ \A k \in DOMAIN u : u[k] \in Nodes
  BY DEF Retirable
<1> USE <1>0
<1> DEFINE mid   == Retire(rs, map)
           up    == Upsert(mid, u)
           kept  == Restrict(up, DOMAIN u \cup Retired(mid))
           final == Replace(mid, u)
<1>1. /\ DOMAIN mid = DOMAIN rs
      /\ \A k \in DOMAIN map : mid[k] = Gone(rs[k], map[k])
      /\ \A k \in DOMAIN rs \ DOMAIN map :
            mid[k] = Moved(rs[k], Follow(map, rs[k].successor))
  <2>1. \A k \in DOMAIN map : Terminal(map, k) = map[k] BY TerminalIsOneStep
  <2>2. DOMAIN mid = DOMAIN rs BY DEF Retire
  <2>3. \A k \in DOMAIN map : mid[k] = Gone(rs[k], map[k])
    BY <2>1 DEF Retire, Gone
  <2>4. ASSUME NEW k \in DOMAIN rs \ DOMAIN map
        PROVE  mid[k] = Moved(rs[k], Follow(map, rs[k].successor))
    <3>1. CASE rs[k].successor \in DOMAIN map BY <2>1, <3>1 DEF Retire, Follow, Moved
    <3>2. CASE rs[k].successor \notin DOMAIN map BY <3>2 DEF Retire, Follow, Moved, Table, RowType
    <3> QED BY <3>1, <3>2
  <2> QED BY <2>2, <2>3, <2>4
<1> HIDE DEF mid
<1>2. ASSUME NEW k \in DOMAIN rs
      PROVE  /\ mid[k] \in RowType
             /\ mid[k].retired <=> (k \in DOMAIN map \/ rs[k].retired)
             /\ mid[k].successor = IF k \in DOMAIN map THEN map[k] ELSE Follow(map, rs[k].successor)
  <2>1. rs[k] \in RowType /\ Follow(map, rs[k].successor) \in Keys \cup {NoKey} BY DEF Table, RowType, Follow
  <2>2. CASE k \in DOMAIN map
    <3>1. map[k] \in Keys \cup {NoKey} /\ mid[k] = Gone(rs[k], map[k])
      BY <1>1, <2>2
    <3>2. /\ Gone(rs[k], map[k]) \in RowType /\ Gone(rs[k], map[k]).retired = TRUE
          /\ Gone(rs[k], map[k]).successor = map[k]
      BY <2>1, <3>1, RowsChange
    <3> QED BY <2>2, <3>1, <3>2
  <2>3. CASE k \notin DOMAIN map
    <3>1. mid[k] = Moved(rs[k], Follow(map, rs[k].successor)) BY <1>1, <2>3
    <3> DEFINE next == Follow(map, rs[k].successor)
    <3>2. /\ Moved(rs[k], next) \in RowType /\ Moved(rs[k], next).retired = rs[k].retired
          /\ Moved(rs[k], next).successor = next
      <4> HIDE DEF next
      <4> QED BY <2>1, RowsChange DEF next
    <3> QED BY <2>3, <3>1, <3>2
  <2> QED BY <2>2, <2>3
<1>3. Retired(mid) = Retired(rs) \cup DOMAIN map BY <1>1, <1>2 DEF Retired
<1>4. /\ DOMAIN up = DOMAIN rs \cup DOMAIN u
      /\ \A k \in DOMAIN u : up[k] = Live(u[k].name, u[k].parent)
      /\ \A k \in DOMAIN rs \ DOMAIN u : up[k] = mid[k]
  BY <1>1 DEF Upsert
<1> HIDE DEF up
<1>5. \A k \in DOMAIN u : /\ up[k] \in RowType /\ up[k].successor = NoKey /\ ~up[k].retired
                          /\ Node(up[k].name, up[k].parent) = u[k]
  BY <1>4, NodesAreLive
<1>6. /\ DOMAIN kept = DOMAIN u \cup Retired(rs) \cup DOMAIN map
      /\ \A k \in DOMAIN kept : kept[k] = up[k] /\ kept[k] \in RowType
  BY <1>2, <1>3, <1>4, <1>5 DEF Restrict, Retired
<1>7. final = [k \in DOMAIN kept |->
                  IF kept[k].successor \in DOMAIN kept THEN kept[k] ELSE Moved(kept[k], NoKey)]
  BY DEF Replace, Moved, up
<1> HIDE DEF kept, final
<1>8. DOMAIN final = DOMAIN kept BY <1>7
<1>9. ASSUME NEW k \in DOMAIN kept
       PROVE  /\ final[k] \in RowType /\ final[k].name = up[k].name /\ final[k].parent = up[k].parent
              /\ final[k].retired = up[k].retired
              /\ final[k].successor = IF up[k].successor \in DOMAIN kept THEN up[k].successor ELSE NoKey
  <2>1. up[k] \in RowType /\ kept[k] = up[k] BY <1>6
  <2>2. /\ Moved(up[k], NoKey) \in RowType /\ Moved(up[k], NoKey).retired = up[k].retired
        /\ Moved(up[k], NoKey).successor = NoKey
        /\ Moved(up[k], NoKey).name = up[k].name /\ Moved(up[k], NoKey).parent = up[k].parent
    BY <2>1, RowsChange
  <2>3. final[k] = IF up[k].successor \in DOMAIN kept THEN up[k] ELSE Moved(up[k], NoKey) BY <1>7, <2>1
  <2> QED BY <2>1, <2>2, <2>3
<1>10. Table(final)
  <2>1. DOMAIN final \subseteq Keys BY <1>6, <1>8, <1>9, TreeOfTable DEF Table
  <2> QED BY <1>8, <1>9, <2>1 DEF Table
<1>11. Retired(final) = (Retired(rs) \cup DOMAIN map) \ DOMAIN u
  BY <1>2, <1>4, <1>5, <1>6, <1>8, <1>9 DEF Retired
<1>12. DOMAIN Tree(final) = DOMAIN u BY <1>6, <1>8, <1>9, <1>10, <1>11, TreeOfTable
<1>13. ASSUME NEW k \in DOMAIN u PROVE Tree(final)[k] = u[k]
  <2>1. Tree(final)[k] = Node(final[k].name, final[k].parent) BY <1>10, <1>12, TreeOfTable
  <2> QED BY <1>5, <1>6, <1>8, <1>9, <2>1
<1>14. ASSUME NEW k \in Retired(final)
       PROVE  final[k].successor = Kept(final, Heir(map, rs, k))
  <2>1. k \in DOMAIN rs \ DOMAIN u BY <1>11, TreeOfTable
  <2>2. k \in DOMAIN kept BY <1>6, <1>11
  <2> QED BY <1>2, <1>4, <1>8, <1>9, <2>1, <2>2 DEF Kept, Heir
<1> QED BY <1>6, <1>8, <1>9, <1>10, <1>11, <1>12, <1>13, <1>14 DEF final, mid, IsFinal

-----------------------------------------------------------------------------
(* The invariant.                                                          *)

\* No tombstone, and no pair that is saved, names a retired row.
NoneNamesTheRetired(rs, plans, splits, sets) ==
    /\ \A k \in Retired(rs) : rs[k].successor \notin Retired(rs)
    /\ \A pair \in plans \cup splits : pair[1] \notin Retired(rs) /\ pair[2] \notin Retired(rs)
    /\ \A p \in Postings : sets[p][1] \notin Retired(rs) /\ sets[p][2] \notin Retired(rs)

\* Until an edit stops, no catch-all is alone and nothing names a retired category;
\* until a file brings categories as well, no catch-all is missing.
IInv ==
    /\ TypeOK
    /\ Table(rows)
    /\ Shape(Tree(rows))
    /\ "stopped" \notin lapses => /\ NoneIsLone(Tree(rows))
                                  /\ NoneNamesTheRetired(rows, planned, legs, overrides)
    /\ lapses = {} => NoneIsMissing(Tree(rows))

\* It is what is promised, in other words.
LEMMA InvImplies == IInv => NothingNamesTheRetired /\ LiveTreeIsWhole
<1> SUFFICES ASSUME IInv PROVE NothingNamesTheRetired /\ LiveTreeIsWhole OBVIOUS
<1>1. NothingNamesTheRetired
  BY DEF IInv, NothingNamesTheRetired, NoTombstoneNamesATombstone, NoneNamesTheRetired
<1>2. LiveTreeIsWhole
  <2> DEFINE t == Tree(rows)
  <2>1. Shape(t) BY DEF IInv
  <2>2. \A p \in Children(t, NoKey) : p \in DOMAIN t \cap TopKeys BY <2>1 DEF Shape, Children
  <2>3. lapses = {} => NoneIsLone(t) /\ NoneIsMissing(t) BY DEF IInv
  <2> HIDE DEF t
  <2>4. \A k \in DOMAIN t : t[k].parent # NoKey => t[k].parent \in DOMAIN t /\ t[t[k].parent].parent = NoKey
    BY <2>1 DEF Shape, Nodes
  <2>5. \A j, k \in DOMAIN t : j # k /\ t[j].parent = t[k].parent /\ ~IsCatchAll(j) /\ ~IsCatchAll(k)
                                    => t[j].name # t[k].name
    BY <2>1 DEF Shape
  <2>6. lapses = {} => \A p \in Children(t, NoKey) : CatchAll(p) \in DOMAIN t <=> RealChildren(t, p) # {}
    BY <2>2, <2>3 DEF NoneIsLone, NoneIsMissing
  <2> QED BY <2>4, <2>5, <2>6 DEF LiveTreeIsWhole, t
<1> QED BY <1>1, <1>2

LEMMA InitInv == Init => IInv
<1> SUFFICES ASSUME Init PROVE IInv OBVIOUS
<1>1. DOMAIN rows = {} BY DEF Init
<1>2. DOMAIN Tree(rows) = {} /\ Retired(rows) = {} BY <1>1 DEF Tree, Retired
<1>3. TypeOK
  BY <1>1, RequestsAssumption DEF Init, TypeOK, NoPair, Pairs
<1> QED BY <1>1, <1>2, <1>3 DEF Init, IInv, Table, Shape, NoneIsLone, NoneIsMissing, NoneNamesTheRetired

-----------------------------------------------------------------------------
(* Requests that only add categories.                                      *)

\* The categories of t, and those of w that t does not have.
Grown(t, w) == [k \in DOMAIN t \cup DOMAIN w |-> IF k \in DOMAIN t THEN t[k] ELSE w[k]]

\* t1 has all of t, unchanged.
Extends(t1, t) == DOMAIN t \subseteq DOMAIN t1 /\ \A k \in DOMAIN t : t1[k] = t[k]

\* What t and a normalised extension n of it make together.
GrowsTo(t, n, u) ==
    /\ Shape(u) /\ NoneIsMissing(u) /\ (NoneIsLone(t) => NoneIsLone(u))
    /\ \A k \in DOMAIN n : n[k] = u[k] /\ n[k] \in Nodes
    /\ DOMAIN u = DOMAIN t \cup DOMAIN n /\ \A k \in DOMAIN t : u[k] = t[k]

\* A tree that is extended, and to which the catch-alls are added that it lacks.
LEMMA GrownShapes ==
  ASSUME NEW t, Shape(t), NEW t1, Shape(t1), Extends(t1, t)
  PROVE  GrowsTo(t, Normalize(t1), Grown(t, Normalize(t1)))
<1> DEFINE n == Normalize(t1)
           u == Grown(t, n)
<1>1. /\ DOMAIN u = DOMAIN t \cup DOMAIN n
      /\ \A k \in DOMAIN u : u[k] = IF k \in DOMAIN t THEN t[k] ELSE n[k]
  BY DEF Grown
<1>2. /\ \A k \in DOMAIN n \cap DOMAIN t1 : n[k] = t1[k]
      /\ \A k \in DOMAIN n \ DOMAIN t1 : IsCatchAll(k) /\ Top(k) \in DOMAIN t1 \cap TopKeys /\ n[k] = Node(Other, Top(k))
      /\ \A k \in DOMAIN t1 : ~IsCatchAll(k) => k \in DOMAIN n
      /\ \A k \in DOMAIN t1 \ DOMAIN n : k \in SubKeys /\ IsCatchAll(k) /\ RealChildren(t1, Top(k)) = {}
  BY NormalizeKeeps
<1>3. /\ Shape(n) /\ NoneIsLone(n) /\ NoneIsMissing(n)
      /\ \A p \in TopKeys : RealChildren(n, p) = RealChildren(t1, p)
  BY NormalizeShapes
<1> HIDE DEF n, u
<1>4. \A k \in DOMAIN n : n[k] = u[k] BY <1>1, <1>2 DEF Extends
<1>5. \A k \in DOMAIN u : \/ k \in DOMAIN t1 /\ u[k] = t1[k]
                          \/ IsCatchAll(k) /\ Top(k) \in DOMAIN u /\ u[k] = Node(Other, Top(k))
  BY <1>1, <1>2, TopsHaveCatchAlls DEF Extends
<1>6. \A k \in DOMAIN t1 : t1[k].parent # NoKey => t1[k].parent \in DOMAIN u
  BY <1>1, <1>2, TopsHaveCatchAlls DEF Shape, Nodes
<1>7. DOMAIN u \subseteq Keys BY <1>1, <1>3 DEF Shape
<1>8. Shape(u) BY <1>5, <1>6, <1>7, ShapeVaries
<1>9. \A p \in TopKeys : RealChildren(u, p) = RealChildren(t1, p)
  BY <1>1, <1>2, <1>4, <1>5 DEF RealChildren, Children, Extends
<1>10. NoneIsMissing(u)
  <2> SUFFICES ASSUME NEW p \in DOMAIN u \cap TopKeys, RealChildren(u, p) # {} PROVE CatchAll(p) \in DOMAIN u
    BY DEF NoneIsMissing
  <2>1. p \in DOMAIN t1 BY <1>1, <1>2, TopsHaveCatchAlls DEF Extends
  <2>2. p \in DOMAIN n /\ RealChildren(n, p) # {} BY <1>2, <1>3, <1>9, <2>1, TopsHaveCatchAlls
  <2> QED BY <1>1, <1>3, <2>2 DEF NoneIsMissing
<1>11. ASSUME NoneIsLone(t) PROVE NoneIsLone(u)
  <2> SUFFICES ASSUME NEW p \in DOMAIN u \cap TopKeys, CatchAll(p) \in DOMAIN u PROVE RealChildren(u, p) # {}
    BY DEF NoneIsLone
  <2>1. p \in DOMAIN t1 /\ p \in DOMAIN n BY <1>1, <1>2, TopsHaveCatchAlls DEF Extends
  <2>2. CASE CatchAll(p) \in DOMAIN n BY <1>3, <1>9, <2>1, <2>2 DEF NoneIsLone
  <2>3. CASE CatchAll(p) \notin DOMAIN n
    <3>1. CatchAll(p) \in DOMAIN t BY <1>1, <2>3
    <3>2. t[CatchAll(p)].parent = p BY <3>1, TopsHaveCatchAlls DEF Shape
    <3>3. p \in DOMAIN t BY <3>1, <3>2, KeysAreTwoKinds DEF Shape
    <3>4. RealChildren(t, p) # {} BY <1>11, <3>1, <3>3 DEF NoneIsLone
    <3>5. RealChildren(t, p) \subseteq RealChildren(t1, p) BY DEF Extends, RealChildren, Children
    <3> QED BY <1>9, <3>4, <3>5
  <2> QED BY <2>2, <2>3
<1>12. GrowsTo(t, n, u) BY <1>1, <1>3, <1>4, <1>8, <1>10, <1>11 DEF GrowsTo, Shape
<1> QED BY <1>12 DEF u, n

\* Rows are upserted that make of the tree a tree u, and nothing that names one changes.
LEMMA GrowInv ==
  ASSUME IInv, NEW w, NEW u, Shape(u), Extends(u, Tree(rows)),
         DOMAIN u = DOMAIN Tree(rows) \cup DOMAIN w, \A k \in DOMAIN w : w[k] = u[k],
         rows' = Upsert(rows, w), UNCHANGED <<planned, legs, overrides, enforced>>,
         imported' \in [Postings -> Pairs], requests' \in 0..MaxRequests,
         lapses' \in {lapses, lapses \cup {"minted"}},
         NoneIsLone(Tree(rows)) => NoneIsLone(u), lapses' = {} => NoneIsMissing(u)
  PROVE  IInv'
<1>1. DOMAIN w \subseteq Keys /\ \A k \in DOMAIN w : w[k] \in Nodes BY DEF Shape
<1>2. /\ Table(rows') /\ Retired(rows') = Retired(rows) \ DOMAIN w
      /\ DOMAIN Tree(rows') = DOMAIN u
      /\ \A k \in DOMAIN u : Tree(rows')[k] = u[k]
      /\ \A k \in DOMAIN rows \ DOMAIN w : rows'[k] = rows[k]
  <2>1. Table(rows) BY DEF IInv
  <2> DEFINE new == Upsert(rows, w)
  <2>2. /\ Table(new) /\ Retired(new) = Retired(rows) \ DOMAIN w
        /\ DOMAIN Tree(new) = DOMAIN Tree(rows) \cup DOMAIN w
        /\ \A k \in DOMAIN Tree(new) : Tree(new)[k] = IF k \in DOMAIN w THEN w[k] ELSE Tree(rows)[k]
        /\ \A k \in DOMAIN rows \ DOMAIN w : new[k] = rows[k]
    BY <1>1, <2>1, UpsertWrites
  <2>3. rows' = new OBVIOUS
  <2> HIDE DEF new
  <2>4. \A k \in DOMAIN u : Tree(new)[k] = u[k] BY <2>2 DEF Extends
  <2> QED BY <2>2, <2>3, <2>4
<1>3. Shape(Tree(rows')) BY <1>2 DEF Shape
<1>4. \A p : RealChildren(Tree(rows'), p) = RealChildren(u, p) BY <1>2 DEF RealChildren, Children
<1>5. TypeOK' BY <1>2 DEF IInv, TypeOK, Table, RowType
<1>6. "stopped" \notin lapses' => NoneIsLone(Tree(rows')) BY <1>2, <1>4 DEF IInv, NoneIsLone
<1>7. lapses' = {} => NoneIsMissing(Tree(rows')) BY <1>2, <1>4 DEF NoneIsMissing
<1>8. "stopped" \notin lapses' => NoneNamesTheRetired(rows', planned', legs', overrides')
  <2>1. \A k \in Retired(rows') : rows'[k] = rows[k] BY <1>2, TreeOfTable DEF IInv
  <2> QED BY <1>2, <2>1 DEF IInv, NoneNamesTheRetired
<1> QED BY <1>2, <1>3, <1>5, <1>6, <1>7, <1>8 DEF IInv

LEMMA TreeShapes == ASSUME IInv PROVE Table(rows) /\ Shape(Tree(rows)) BY DEF IInv

\* One category is added with Add.
LEMMA AddInv ==
  ASSUME IInv, Served, NEW k \in Keys \ DOMAIN Tree(rows), ~IsCatchAll(k), NEW n \in Names,
         NEW p, \/ p = NoKey /\ k \in TopKeys
                \/ p \in DOMAIN Tree(rows) \cap TopKeys /\ k \in SubKeys,
         \A c \in Children(Tree(rows), p) : Tree(rows)[c].name # n,
         Add("create", k, n, Normalize(With(Tree(rows), k, Node(n, p))))
  PROVE  IInv'
<1> DEFINE t  == Tree(rows)
           t1 == With(t, k, Node(n, p))
           all == Normalize(t1)
           u  == Grown(t, all)
           w  == Restrict(all, {c \in DOMAIN all : c \notin DOMAIN t})
<1>1. Shape(t) BY TreeShapes
<1>2. Shape(t1) BY <1>1, WithShapes
<1>3. Extends(t1, t) BY DEF With, Extends
<1>4. /\ DOMAIN w = DOMAIN all \ DOMAIN t /\ \A c \in DOMAIN w : w[c] = all[c]
      /\ rows' = Upsert(rows, w)
      /\ UNCHANGED <<planned, legs, overrides, imported, enforced, lapses>>
  BY DEF Add, Restrict
<1>5. requests' \in 0..MaxRequests /\ imported' \in [Postings -> Pairs]
  BY <1>4, RequestsAssumption DEF Served, IInv, TypeOK
<1> HIDE DEF t1, all, w, u
<1>6. /\ Shape(u) /\ NoneIsMissing(u) /\ (NoneIsLone(t) => NoneIsLone(u))
      /\ \A c \in DOMAIN all : all[c] = u[c]
      /\ DOMAIN u = DOMAIN t \cup DOMAIN all /\ \A c \in DOMAIN t : u[c] = t[c]
  <2> HIDE DEF t
  <2>1. GrowsTo(t, Normalize(t1), Grown(t, Normalize(t1))) BY <1>1, <1>2, <1>3, GrownShapes
  <2>2. GrowsTo(t, all, u) BY <2>1 DEF all, u
  <2> QED BY <2>2 DEF GrowsTo
<1>7. Extends(u, t) /\ DOMAIN u = DOMAIN t \cup DOMAIN w /\ \A c \in DOMAIN w : w[c] = u[c]
  BY <1>4, <1>6 DEF Extends
<1> HIDE DEF t
<1> QED BY <1>4, <1>5, <1>6, <1>7, GrowInv DEF t

LEMMA PostCategoryInv == ASSUME IInv, NEW n \in Names, PostCategory(n) PROVE IInv'
<1>1. <<n>> \in TopKeys BY DEF TopKeys
<1>2. <<n>> \in Keys \ DOMAIN Tree(rows) /\ ~IsCatchAll(<<n>>)
  BY <1>1, TopsHaveCatchAlls, KeysAreTwoKinds DEF PostCategory
<1> QED BY <1>1, <1>2, AddInv DEF PostCategory

LEMMA PostSubcategoryInv ==
  ASSUME IInv, NEW p \in Children(Tree(rows), NoKey), NEW n \in Names, PostSubcategory(p, n) PROVE IInv'
<1>1. p \in DOMAIN Tree(rows) \cap TopKeys BY TreeShapes DEF Children, Shape
<1>2. <<p[1], n>> \in SubKeys /\ ~IsCatchAll(<<p[1], n>>)
  BY <1>1, NamesAssumption DEF TopKeys, SubKeys, IsCatchAll
<1>3. <<p[1], n>> \in Keys \ DOMAIN Tree(rows) BY <1>2, KeysAreTwoKinds DEF PostSubcategory
<1> QED BY <1>1, <1>2, <1>3, AddInv DEF PostSubcategory

\* The categories a file names: the tree grows by at most one top-level category
\* and one subcategory, and the pair is one a posting may have.
LEMMA MintedShapes ==
  ASSUME NEW t, Shape(t), NEW n \in Names, NEW m \in Names \cup {NoKey}, Minted(t, n, m).free
  PROVE  LET file == Minted(t, n, m)
         IN  /\ Shape(file.tree) /\ Extends(file.tree, t) /\ file.pair \in Pairs
             /\ \A k \in DOMAIN file.tree \ DOMAIN t : ~IsCatchAll(k)
<1> DEFINE top  == {k \in Children(t, NoKey) : t[k].name = n}
           p    == IF top # {} THEN CHOOSE k \in top : TRUE ELSE <<n>>
           t1   == With(t, p, Node(n, NoKey))
           subs == {k \in Children(t1, p) : t1[k].name = m}
           s    == IF m = NoKey THEN NoKey
                   ELSE IF subs # {} THEN CHOOSE k \in subs : TRUE ELSE <<p[1], m>>
           t2   == IF s = NoKey THEN t1 ELSE With(t1, s, Node(m, p))
<1>1. /\ Minted(t, n, m).tree = t2 /\ Minted(t, n, m).pair = <<p, s>>
      /\ top # {} \/ p \notin DOMAIN t
      /\ s = NoKey \/ subs # {} \/ s \notin DOMAIN t1
  BY DEF Minted
<1>2. p \in TopKeys /\ ~IsCatchAll(p) /\ (top # {} => p \in DOMAIN t)
  <2>1. CASE top # {} BY <2>1, TopsHaveCatchAlls DEF Shape, Children
  <2>2. CASE top = {}
    <3>1. <<n>> \in TopKeys BY DEF TopKeys
    <3> QED BY <2>2, <3>1, TopsHaveCatchAlls
  <2> QED BY <2>1, <2>2
<1>3. \A c \in Children(t, NoKey) : p \notin DOMAIN t => t[c].name # n BY <1>1, <1>2
<1> HIDE DEF p
<1>4. DOMAIN t1 = DOMAIN t \cup {p} /\ \A c \in DOMAIN t : t1[c] = t[c] BY DEF With
<1>5. Shape(t1)
  <2>1. CASE p \in DOMAIN t
    <3>1. DOMAIN t1 = DOMAIN t /\ \A c \in DOMAIN t : t1[c] = t[c] BY <1>4, <2>1
    <3> HIDE DEF t1
    <3> QED BY <3>1 DEF Shape
  <2>2. CASE p \notin DOMAIN t
    <3>1. p \in Keys \ DOMAIN t BY <1>2, <2>2, KeysAreTwoKinds
    <3> QED BY <1>2, <1>3, <2>2, <3>1, WithShapes
  <2> QED BY <2>1, <2>2
<1>6. p \in DOMAIN t1 \cap TopKeys BY <1>2, <1>4
<1> HIDE DEF t1
<1>7. CASE s = NoKey
  <2>1. <<p, s>> \in Pairs BY <1>2, <1>7 DEF Pairs
  <2>2. t2 = t1 BY <1>7
  <2>3. Extends(t1, t) /\ \A k \in DOMAIN t1 \ DOMAIN t : ~IsCatchAll(k) BY <1>2, <1>4 DEF Extends
  <2> QED BY <1>1, <1>5, <2>1, <2>2, <2>3
<1>8. CASE s # NoKey
  <2>1. m \in Names BY <1>8
  <2>2. s \in SubKeys /\ (subs # {} => s \in DOMAIN t1) /\ (subs = {} => ~IsCatchAll(s))
    <3>1. CASE subs # {}
      <4>1. s \in Children(t1, p) BY <1>8, <3>1
      <4> QED BY <1>2, <1>5, <3>1, <4>1, KeysAreTwoKinds DEF Shape, Children
    <3>2. CASE subs = {}
      <4>1. s = <<p[1], m>> BY <1>8, <3>2
      <4> QED BY <1>2, <2>1, <3>2, <4>1, NamesAssumption DEF TopKeys, SubKeys, IsCatchAll
    <3> QED BY <3>1, <3>2
  <2>3. \A c \in Children(t1, p) : s \notin DOMAIN t1 => t1[c].name # m BY <2>2
  <2>4. <<p, s>> \in Pairs BY <1>2, <2>2 DEF Pairs
  <2> HIDE DEF s, subs
  <2> DEFINE t3 == With(t1, s, Node(m, p))
  <2>5. DOMAIN t3 = DOMAIN t1 \cup {s} /\ \A c \in DOMAIN t1 : t3[c] = t1[c] BY DEF With
  <2>6. Shape(t3)
    <3>1. CASE s \in DOMAIN t1
      <4>1. DOMAIN t3 = DOMAIN t1 /\ \A c \in DOMAIN t1 : t3[c] = t1[c] BY <2>5, <3>1
      <4> HIDE DEF t3
      <4> QED BY <1>5, <4>1 DEF Shape
    <3>2. CASE s \notin DOMAIN t1
      <4>1. s \in Keys \ DOMAIN t1 /\ ~IsCatchAll(s) BY <2>2, <3>2, KeysAreTwoKinds
      <4> QED BY <1>5, <1>6, <2>1, <2>2, <2>3, <3>2, <4>1, WithShapes
    <3> QED BY <3>1, <3>2
  <2>7. t2 = t3 BY <1>8
  <2> HIDE DEF t3
  <2>8. Extends(t3, t) /\ \A k \in DOMAIN t3 \ DOMAIN t : ~IsCatchAll(k)
    BY <1>1, <1>2, <1>4, <2>2, <2>5 DEF Extends
  <2> QED BY <1>1, <2>4, <2>6, <2>7, <2>8
<1> QED BY <1>7, <1>8

LEMMA ImportInv ==
  ASSUME IInv, NEW p \in Postings, NEW n \in Names, NEW m \in Names \cup {NoKey}, Import(p, n, m)
  PROVE  IInv'
<1> DEFINE t    == Tree(rows)
           file == Minted(t, n, m)
           more == file.tree
           all  == Normalize(more)
           u    == Grown(t, all)
<1>1. Shape(t) BY TreeShapes
<1>2. Shape(more) /\ Extends(more, t) /\ file.pair \in Pairs BY <1>1, MintedShapes DEF Import
<1>3. /\ UNCHANGED <<planned, legs, overrides, enforced>> /\ requests' \in 0..MaxRequests
      /\ imported' \in [Postings -> Pairs]
  <2>1. imported' = imported \/ imported' = [imported EXCEPT ![p] = file.pair] BY DEF Import
  <2>2. imported \in [Postings -> Pairs] BY DEF IInv, TypeOK
  <2>3. imported' \in [Postings -> Pairs]
    <3> HIDE DEF file
    <3> QED BY <1>2, <2>1, <2>2
  <2> QED BY <2>3, RequestsAssumption DEF Import, Served, IInv, TypeOK
<1>4. lapses' = lapses /\ (rows' = rows \/ rows' = Upsert(rows, all)) BY DEF Import
<1>5. CASE rows' = rows
  <2>1. UNCHANGED <<rows, planned, legs, overrides, lapses, enforced>> BY <1>3, <1>4, <1>5
  <2> QED BY <1>3, <2>1 DEF IInv, TypeOK, Table, NoneNamesTheRetired, Retired, Tree
<1>6. CASE rows' = Upsert(rows, all)
  <2> HIDE DEF t, more, file
  <2>0. GrowsTo(t, all, u) BY <1>1, <1>2, GrownShapes
  <2>1. /\ Shape(u) /\ NoneIsMissing(u) /\ (NoneIsLone(t) => NoneIsLone(u))
        /\ \A c \in DOMAIN all : all[c] = u[c]
        /\ DOMAIN u = DOMAIN t \cup DOMAIN all /\ \A c \in DOMAIN t : u[c] = t[c]
    BY <2>0 DEF GrowsTo
  <2>2. Extends(u, t) BY <2>1 DEF Extends
  <2> HIDE DEF u, all
  <2> QED BY <1>3, <1>4, <1>6, <2>1, <2>2, GrowInv DEF t
<1> QED BY <1>4, <1>5, <1>6

LEMMA MintFromFileInv ==
  ASSUME IInv, NEW n \in Names, NEW m \in Names \cup {NoKey}, MintFromFile(n, m) PROVE IInv'
<1> DEFINE t    == Tree(rows)
           u    == Minted(t, n, m).tree
           w    == Restrict(u, DOMAIN u \ DOMAIN t)
<1>1. Shape(t) BY TreeShapes
<1>2. Shape(u) /\ Extends(u, t) /\ \A k \in DOMAIN u \ DOMAIN t : ~IsCatchAll(k)
  BY <1>1, MintedShapes DEF MintFromFile
<1>3. /\ UNCHANGED <<planned, legs, overrides, imported, enforced>> /\ rows' = Upsert(rows, w)
      /\ lapses' = lapses \cup {"minted"}
  BY DEF MintFromFile
<1>4. requests' \in 0..MaxRequests /\ imported' \in [Postings -> Pairs]
  BY <1>3, RequestsAssumption DEF MintFromFile, Served, IInv, TypeOK
<1> HIDE DEF t, u
<1>5. DOMAIN w = DOMAIN u \ DOMAIN t /\ \A k \in DOMAIN w : w[k] = u[k] BY DEF Restrict
<1> HIDE DEF w
<1>6. ASSUME NoneIsLone(t) PROVE NoneIsLone(u)
  <2> SUFFICES ASSUME NEW p \in DOMAIN u \cap TopKeys, CatchAll(p) \in DOMAIN u PROVE RealChildren(u, p) # {}
    BY DEF NoneIsLone
  <2>1. CatchAll(p) \in DOMAIN t /\ t[CatchAll(p)].parent = p BY <1>1, <1>2, TopsHaveCatchAlls DEF Shape
  <2>2. p \in DOMAIN t BY <1>1, <2>1, KeysAreTwoKinds DEF Shape
  <2>3. RealChildren(t, p) # {} BY <1>6, <2>1, <2>2 DEF NoneIsLone
  <2>4. RealChildren(t, p) \subseteq RealChildren(u, p) BY <1>2 DEF Extends, RealChildren, Children
  <2> QED BY <2>3, <2>4
<1>7. DOMAIN u = DOMAIN t \cup DOMAIN w BY <1>2, <1>5 DEF Extends
<1> QED BY <1>2, <1>3, <1>4, <1>5, <1>6, <1>7, GrowInv DEF t

-----------------------------------------------------------------------------
(* The first request, and requests that name categories.                   *)

\* The default tree is one: what SeedAssumption says of its keys is all of it.
LEMMA FirstContactInv == ASSUME IInv, FirstContact PROVE IInv'
<1> DEFINE seed == [k \in Seed |-> Live(k[Len(k)], IF Len(k) = 1 THEN NoKey ELSE <<k[1]>>)]
           t == Tree(rows')
<1>1. rows' = seed /\ DOMAIN rows = {} /\ UNCHANGED <<planned, legs, overrides, imported, enforced, lapses, requests>>
  BY DEF FirstContact
<1>2. \A k \in Seed :
         /\ k \in Keys /\ seed[k] = Live(k[Len(k)], IF k \in TopKeys THEN NoKey ELSE Top(k))
         /\ k[Len(k)] \in Names \cup {Other} /\ Top(k) \in TopKeys /\ Top(k) \in Seed
         /\ IsCatchAll(k) \/ k[Len(k)] \in Names
         /\ k \in TopKeys => k = <<k[Len(k)]>>
         /\ k \notin TopKeys => k = <<k[1], k[Len(k)]>>
  <2>1. \A k \in Keys : /\ k \in TopKeys <=> Len(k) = 1
                        /\ Len(k) = 1 \/ Len(k) = 2
                        /\ k[Len(k)] \in Names \cup {Other} /\ Top(k) \in TopKeys
                        /\ IsCatchAll(k) \/ k[Len(k)] \in Names
                        /\ Len(k) = 1 => k = <<k[Len(k)]>>
                        /\ Len(k) = 2 => k = <<k[1], k[Len(k)]>>
    BY DEF Keys, TopKeys, SubKeys, Top, IsCatchAll
  <2> QED BY <2>1, SeedAssumption DEF Top
<1> HIDE DEF seed
<1>3. /\ DOMAIN rows' = Seed
      /\ \A k \in Seed : rows'[k] = Live(k[Len(k)], IF k \in TopKeys THEN NoKey ELSE Top(k))
  BY <1>1, <1>2 DEF seed
<1>4. ASSUME NEW k \in Seed PROVE rows'[k] \in RowType /\ rows'[k].successor = NoKey /\ ~rows'[k].retired
  <2> DEFINE name   == k[Len(k)]
             parent == IF k \in TopKeys THEN NoKey ELSE Top(k)
  <2>1. name \in Names \cup {Other} /\ parent \in TopKeys \cup {NoKey} BY <1>2
  <2>2. rows'[k] = Live(name, parent) BY <1>3
  <2> HIDE DEF name, parent
  <2>3. Node(name, parent) \in Nodes /\ Node(name, parent).name = name /\ Node(name, parent).parent = parent
    BY <2>1 DEF Node, Nodes
  <2> QED BY <2>2, <2>3, NodesAreLive
<1>5. Retired(rows') = {} BY <1>3, <1>4 DEF Retired
<1>6. /\ DOMAIN t = Seed
      /\ \A k \in Seed : t[k] \in Nodes /\ t[k] = Node(k[Len(k)], IF k \in TopKeys THEN NoKey ELSE Top(k))
  BY <1>2, <1>3, <1>5 DEF Tree, Live, Node, Nodes
<1>7. \A k \in Seed : t[k].name = k[Len(k)] /\ t[k].parent = IF k \in TopKeys THEN NoKey ELSE Top(k)
  BY <1>6 DEF Node
<1> HIDE DEF t
<1>8. \A k \in Seed : t[k].parent = NoKey <=> k \in TopKeys BY <1>2, <1>7, KeysAreTwoKinds
<1>9. Shape(t)
  <2>1. \A k \in Seed : IsCatchAll(k) => t[k].parent = Top(k) BY <1>2, <1>7, TopsHaveCatchAlls
  <2>2. \A k \in Seed : t[k].parent # NoKey => t[k].parent \in Seed BY <1>2, <1>7
  <2>3. ASSUME NEW j \in Seed, NEW k \in Seed, j # k, t[j].parent = t[k].parent PROVE t[j].name # t[k].name
    <3>1. CASE j \in TopKeys BY <1>2, <1>7, <1>8, <2>3, <3>1
    <3>2. CASE j \notin TopKeys
      <4>1. k \notin TopKeys BY <1>8, <2>3, <3>2
      <4>2. Top(j) = Top(k) BY <1>7, <2>3, <3>2, <4>1
      <4>3. j[1] = k[1] BY <4>2 DEF Top
      <4> QED BY <1>2, <1>7, <2>3, <3>2, <4>1, <4>3
    <3> QED BY <3>1, <3>2
  <2> QED BY <1>2, <1>6, <1>8, <2>1, <2>2, <2>3 DEF Shape
<1>10. \A p \in Seed \cap TopKeys : CatchAll(p) \in Seed <=> RealChildren(t, p) # {}
  <2> TAKE p \in Seed \cap TopKeys
  <2>1. PICK n \in Names : p = <<n>> BY DEF TopKeys
  <2>2. \A c \in RealChildren(t, p) : \E m \in Names : c = <<n, m>>
    <3> TAKE c \in RealChildren(t, p)
    <3>1. c \in Seed /\ t[c].parent = p /\ ~IsCatchAll(c) BY <1>6 DEF RealChildren, Children
    <3>2. c \notin TopKeys BY <1>8, <3>1, KeysAreTwoKinds
    <3>3. Top(c) = p BY <1>7, <3>1, <3>2
    <3>4. c[1] = n BY <2>1, <3>3 DEF Top
    <3> QED BY <1>2, <3>1, <3>2, <3>4
  <2>3. \A m \in Names : <<n, m>> \in Seed => <<n, m>> \in RealChildren(t, p)
    <3> TAKE m \in Names
    <3>1. <<n, m>> \in SubKeys /\ ~IsCatchAll(<<n, m>>) /\ Top(<<n, m>>) = p
      BY <2>1, NamesAssumption DEF SubKeys, IsCatchAll, Top
    <3> QED BY <1>6, <1>7, <3>1, KeysAreTwoKinds DEF RealChildren, Children
  <2>4. CatchAll(p) = <<n, Other>> BY <2>1 DEF CatchAll
  <2>5. <<n, Other>> \in Seed <=> \E m \in Names : <<n, m>> \in Seed BY SeedAssumption
  <2>6. \A c \in RealChildren(t, p) : c \in Seed BY <1>6 DEF RealChildren, Children
  <2> QED BY <2>2, <2>3, <2>4, <2>5, <2>6
<1>11. NoneIsLone(t) /\ NoneIsMissing(t) BY <1>6, <1>10 DEF NoneIsLone, NoneIsMissing
<1>12. Table(rows') BY <1>2, <1>3, <1>4 DEF Table
<1>13. "stopped" \notin lapses' => NoneNamesTheRetired(rows', planned', legs', overrides')
  BY <1>5 DEF NoneNamesTheRetired
<1>14. TypeOK' BY <1>1, <1>12 DEF IInv, TypeOK, Table, RowType
<1> QED BY <1>9, <1>11, <1>12, <1>13, <1>14 DEF IInv, t

LEMMA ReferInv == ASSUME IInv, NEW pair \in LivePairs, Refer(pair) PROVE IInv'
<1> DEFINE t == Tree(rows)
<1>1. /\ UNCHANGED <<rows, imported, enforced, lapses>> /\ requests' \in 0..MaxRequests
      /\ \/ \E p \in Postings : overrides' = [overrides EXCEPT ![p] = pair] /\ UNCHANGED <<planned, legs>>
         \/ planned' = planned \cup {pair} /\ UNCHANGED <<legs, overrides>>
         \/ legs' = legs \cup {pair} /\ UNCHANGED <<planned, overrides>>
  BY RequestsAssumption DEF Refer, Served, IInv, TypeOK
<1>2. pair \in Pairs /\ pair[1] \notin Retired(rows) /\ pair[2] \notin Retired(rows)
  <2>1. PICK p \in Children(t, NoKey) : pair \in {p} \X (Children(t, p) \cup {NoKey}) BY DEF LivePairs
  <2>2. pair = <<pair[1], pair[2]>> /\ pair[1] = p /\ pair[2] \in Children(t, p) \cup {NoKey} BY <2>1
  <2>3. p \in DOMAIN t /\ p \in TopKeys BY TreeShapes DEF Children, Shape
  <2>4. \A c \in Children(t, p) : c \in DOMAIN t /\ c \in SubKeys
    BY <2>3, TreeShapes, KeysAreTwoKinds DEF Children, Shape
  <2>5. DOMAIN t \cap Retired(rows) = {} /\ NoKey \notin Retired(rows)
    BY TreeOfTable, KeysAreTwoKinds DEF IInv, Table
  <2> QED BY <2>2, <2>3, <2>4, <2>5 DEF Pairs
<1>3. TypeOK' /\ Table(rows') BY <1>1, <1>2 DEF IInv, TypeOK
<1>4. "stopped" \notin lapses' => NoneNamesTheRetired(rows', planned', legs', overrides')
  <2> SUFFICES ASSUME "stopped" \notin lapses PROVE NoneNamesTheRetired(rows, planned', legs', overrides')
    BY <1>1
  <2>1. NoneNamesTheRetired(rows, planned, legs, overrides) BY DEF IInv
  <2>2. overrides \in [Postings -> Pairs] BY DEF IInv, TypeOK
  <2> HIDE DEF t
  <2> QED BY <1>1, <1>2, <2>1, <2>2 DEF NoneNamesTheRetired
<1> QED BY <1>1, <1>3, <1>4 DEF IInv

-----------------------------------------------------------------------------
(* Renames and deletes.                                                    *)

\* What Rename and Delete pass to Edit: a tree that edits the live one, the keys it
\* sends elsewhere with where they go, and the table with what is new in the tree.
Planned(minted, map, u) ==
    LET t == Tree(rows)
    IN  /\ Edited(t, u, DOMAIN map)
        /\ minted \in {rows, Upsert(rows, Restrict(u, DOMAIN u \ DOMAIN t))}
        /\ DOMAIN map \subseteq DOMAIN t
        /\ \A c \in DOMAIN map :
              /\ map[c] \notin DOMAIN map
              /\ \/ map[c] = NoKey
                 \/ c \in TopKeys /\ map[c] \in TopKeys
                 \/ c \in SubKeys /\ map[c] \in SubKeys
              /\ \/ map[c] \in DOMAIN u \cup {NoKey}
                 \/ IsCatchAll(map[c]) /\ ~NoneIsLone(t)

\* With what is new, the table still holds a well-formed tree.
LEMMA MintedTable ==
  ASSUME IInv, NEW minted, NEW map, NEW u, Planned(minted, map, u)
  PROVE  /\ Table(minted) /\ Shape(Tree(minted))
         /\ DOMAIN rows \subseteq DOMAIN minted /\ DOMAIN minted \subseteq DOMAIN rows \cup DOMAIN u
         /\ Retired(minted) \subseteq Retired(rows) /\ Retired(rows) \subseteq Retired(minted) \cup DOMAIN u
         /\ \A k \in DOMAIN Tree(rows) : k \in DOMAIN Tree(minted) /\ minted[k] = rows[k]
         /\ \A k \in Retired(minted) : minted[k] = rows[k]
<1> DEFINE t == Tree(rows)
           w == Restrict(u, DOMAIN u \ DOMAIN t)
           new == Upsert(rows, w)
<1>1. Table(rows) /\ Shape(t) /\ Edited(t, u, DOMAIN map) BY TreeShapes DEF Planned
<1>2. DOMAIN t = DOMAIN rows \ Retired(rows) /\ Retired(rows) \subseteq DOMAIN rows BY <1>1, TreeOfTable
<1>3. CASE minted = rows BY <1>1, <1>2, <1>3
<1>4. CASE minted = new
  <2> HIDE DEF t
  <2>1. DOMAIN w = DOMAIN u \ DOMAIN t /\ \A k \in DOMAIN w : w[k] = u[k] BY DEF Restrict
  <2> HIDE DEF w
  <2>2. DOMAIN w \subseteq Keys /\ \A k \in DOMAIN w : w[k] \in Nodes BY <1>1, <2>1 DEF Edited, Shape
  <2>3. /\ Table(new) /\ DOMAIN new = DOMAIN rows \cup DOMAIN w
        /\ Retired(new) = Retired(rows) \ DOMAIN w
        /\ DOMAIN Tree(new) = DOMAIN Tree(rows) \cup DOMAIN w
        /\ \A k \in DOMAIN Tree(new) : Tree(new)[k] = IF k \in DOMAIN w THEN w[k] ELSE Tree(rows)[k]
        /\ \A k \in DOMAIN rows \ DOMAIN w : new[k] = rows[k]
    BY <1>1, <2>2, UpsertWrites
  <2> HIDE DEF new
  <2>4. \A k \in DOMAIN Tree(new) : \/ k \in DOMAIN t /\ Tree(new)[k] = t[k]
                                    \/ IsCatchAll(k) /\ Top(k) \in DOMAIN Tree(new) /\ Tree(new)[k] = Node(Other, Top(k))
    BY <1>1, <2>1, <2>3 DEF Edited, t
  <2>5. \A k \in DOMAIN t : t[k].parent # NoKey => t[k].parent \in DOMAIN Tree(new) BY <1>1, <2>3 DEF Shape, t
  <2>6. DOMAIN Tree(new) \subseteq Keys BY <1>1, <2>2, <2>3 DEF Shape, t
  <2>7. Shape(Tree(new)) BY <1>1, <2>4, <2>5, <2>6, ShapeVaries
  <2> QED BY <1>2, <1>4, <2>1, <2>3, <2>7 DEF t
<1> QED BY <1>3, <1>4 DEF Planned

\* Once the retired are marked and the tree is written, the tree is the plan's.
LEMMA FinalTable ==
  ASSUME IInv, NEW minted, NEW map, NEW u, Planned(minted, map, u)
  PROVE  /\ IsFinal(Replace(Retire(minted, map), u), minted, map, u)
         /\ Shape(Tree(Replace(Retire(minted, map), u)))
         /\ NoneIsLone(Tree(Replace(Retire(minted, map), u)))
         /\ NoneIsMissing(Tree(Replace(Retire(minted, map), u)))
<1> DEFINE t == Tree(rows)
           final == Replace(Retire(minted, map), u)
<1>1. Edited(t, u, DOMAIN map) /\ Shape(u) BY DEF Planned, Edited
<1>2. DOMAIN map \subseteq DOMAIN minted
  <2>1. DOMAIN map \subseteq DOMAIN Tree(rows) BY DEF Planned
  <2>2. DOMAIN Tree(rows) \subseteq DOMAIN rows BY TreeShapes, TreeOfTable
  <2> QED BY <2>1, <2>2, MintedTable
<1>3. \A c \in DOMAIN map : map[c] \in (Keys \cup {NoKey}) \ DOMAIN map BY KeysAreTwoKinds DEF Planned
<1>4. DOMAIN u \subseteq Keys /\ \A k \in DOMAIN u : u[k] \in Nodes BY <1>1 DEF Shape
<1>5. Table(minted) BY MintedTable
<1>6. IsFinal(final, minted, map, u)
  <2>1. Retirable(minted, map, u) BY <1>2, <1>3, <1>4, <1>5 DEF Retirable
  <2> QED BY <2>1, RetireAndReplace
<1> HIDE DEF final
<1>7. Shape(Tree(final)) BY <1>1, <1>6 DEF Shape, IsFinal
<1>8. \A p : RealChildren(Tree(final), p) = RealChildren(u, p) BY <1>6 DEF RealChildren, Children, IsFinal
<1>9. NoneIsLone(Tree(final)) /\ NoneIsMissing(Tree(final))
  BY <1>1, <1>6, <1>8 DEF Edited, NoneIsLone, NoneIsMissing, IsFinal
<1> QED BY <1>6, <1>7, <1>9 DEF final

\* A reference that is followed through the mapping stays one, and names no row that
\* is retired now, if it named none before.
LEMMA FollowsStay ==
  ASSUME IInv, NEW minted, NEW map, NEW u, Planned(minted, map, u), NEW pair \in Pairs
  PROVE  /\ FollowPair(map, pair) \in Pairs
         /\ FollowPair(map, pair)[1] = Follow(map, pair[1]) /\ FollowPair(map, pair)[2] = Follow(map, pair[2])
<1>1. pair[1] \in TopKeys \cup {NoKey} /\ pair[2] \in SubKeys \cup {NoKey} BY DEF Pairs
<1>2. DOMAIN map \subseteq Keys BY TreeShapes DEF Planned, Shape
<1>3. \A c \in DOMAIN map : \/ map[c] = NoKey
                            \/ c \in TopKeys /\ map[c] \in TopKeys
                            \/ c \in SubKeys /\ map[c] \in SubKeys
  BY DEF Planned
<1>4. Follow(map, pair[1]) \in TopKeys \cup {NoKey} /\ Follow(map, pair[2]) \in SubKeys \cup {NoKey}
  BY <1>1, <1>2, <1>3, KeysAreTwoKinds DEF Follow
<1> QED BY <1>4 DEF FollowPair, Pairs

LEMMA FollowAvoids ==
  ASSUME IInv, NEW minted, NEW map, NEW u, Planned(minted, map, u), NoneIsLone(Tree(rows)),
         NEW k, k \notin Retired(rows)
  PROVE  Follow(map, k) \notin (Retired(minted) \cup DOMAIN map) \ DOMAIN u
<1>1. Retired(minted) \subseteq Retired(rows) /\ NoKey \notin Retired(minted)
  BY MintedTable, TreeOfTable, KeysAreTwoKinds DEF Table
<1>2. CASE k \in DOMAIN map
  <2>1. map[k] \in DOMAIN u \cup {NoKey} /\ map[k] \notin DOMAIN map BY <1>2 DEF Planned
  <2> QED BY <1>1, <1>2, <2>1 DEF Follow
<1>3. CASE k \notin DOMAIN map BY <1>1, <1>3 DEF Follow
<1> QED BY <1>2, <1>3

\* An edit, whether it ends or stops.
LEMMA EditInv ==
  ASSUME IInv, Served, NEW op, NEW k, NEW name, NEW minted, NEW map, NEW u, Planned(minted, map, u),
         NEW plans, plans \subseteq Repoint(map, planned),
         Edit(op, k, name, minted, plans, Repoint(map, legs), map, u)
  PROVE  IInv'
<1> DEFINE final  == Replace(Retire(minted, map), u)
           splits == Repoint(map, legs)
           sets   == OverridesAfter(map)
<1>1. /\ planned \subseteq Pairs /\ legs \subseteq Pairs /\ overrides \in [Postings -> Pairs]
      /\ imported \in [Postings -> Pairs] /\ enforced \in BOOLEAN /\ lapses \subseteq {"stopped", "minted"}
      /\ requests' \in 0..MaxRequests
  BY RequestsAssumption DEF IInv, TypeOK, Served
<1>2. plans \subseteq Pairs /\ splits \subseteq Pairs /\ sets \in [Postings -> Pairs]
  BY <1>1, FollowsStay DEF Repoint, OverridesAfter
<1>3. /\ Table(minted) /\ Shape(Tree(minted))
      /\ Table(final) /\ Shape(Tree(final)) /\ NoneIsLone(Tree(final)) /\ NoneIsMissing(Tree(final))
  BY MintedTable, FinalTable DEF IsFinal
<1>4. ASSUME "stopped" \notin lapses PROVE NoneNamesTheRetired(final, plans, splits, sets)
  <2>1. NoneIsLone(Tree(rows)) /\ NoneNamesTheRetired(rows, planned, legs, overrides) BY <1>4 DEF IInv
  <2>0. IsFinal(final, minted, map, u) BY FinalTable
  <2> HIDE DEF final
  <2>2. /\ Retired(final) = (Retired(minted) \cup DOMAIN map) \ DOMAIN u
        /\ \A j \in Retired(final) : final[j].successor = Kept(final, Heir(map, minted, j))
    BY <2>0 DEF IsFinal
  <2>3. NoKey \notin Retired(final) BY <1>3, TreeOfTable, KeysAreTwoKinds DEF Table
  <2>4. \A j : j \notin Retired(rows) => Follow(map, j) \notin Retired(final) BY <2>1, <2>2, FollowAvoids
  <2>5. ASSUME NEW j \in Retired(final) PROVE final[j].successor \notin Retired(final)
    <3>1. CASE j \in DOMAIN map
      <4>1. j \notin Retired(rows) /\ Follow(map, j) = map[j]
        BY <3>1, TreeShapes, TreeOfTable DEF Planned, Follow
      <4> QED BY <2>2, <2>3, <2>4, <3>1, <4>1 DEF Kept, Heir
    <3>2. CASE j \notin DOMAIN map
      <4>1. j \in Retired(minted) BY <2>2, <3>2
      <4>2. j \in Retired(rows) /\ minted[j] = rows[j] BY <4>1, MintedTable
      <4>3. minted[j].successor \notin Retired(rows) BY <2>1, <4>2 DEF NoneNamesTheRetired
      <4> QED BY <2>2, <2>3, <2>4, <3>2, <4>3 DEF Kept, Heir
    <3> QED BY <3>1, <3>2
  <2>6. ASSUME NEW pair \in plans \cup splits PROVE pair[1] \notin Retired(final) /\ pair[2] \notin Retired(final)
    <3>1. PICK old \in planned \cup legs : pair = FollowPair(map, old) BY <2>6 DEF Repoint
    <3>2. old[1] \notin Retired(rows) /\ old[2] \notin Retired(rows) BY <2>1 DEF NoneNamesTheRetired
    <3> QED BY <1>1, <2>4, <3>1, <3>2, FollowsStay
  <2>7. ASSUME NEW p \in Postings PROVE sets[p][1] \notin Retired(final) /\ sets[p][2] \notin Retired(final)
    <3>1. sets[p] = FollowPair(map, overrides[p]) /\ overrides[p] \in Pairs BY <1>1 DEF OverridesAfter
    <3>2. overrides[p][1] \notin Retired(rows) /\ overrides[p][2] \notin Retired(rows)
      BY <2>1 DEF NoneNamesTheRetired
    <3> QED BY <2>4, <3>1, <3>2, FollowsStay
  <2> QED BY <2>5, <2>6, <2>7 DEF NoneNamesTheRetired
<1>5. CASE UNCHANGED <<rows, planned, legs, overrides, imported, enforced, lapses>>
  BY <1>1, <1>5 DEF IInv, TypeOK, Table, NoneNamesTheRetired, Retired, Tree
<1>6. CASE /\ rows' = final /\ planned' = plans /\ legs' = splits
           /\ overrides' = sets \/ (Changed(map) = {} /\ overrides' = overrides)
           /\ UNCHANGED <<imported, enforced, lapses>>
  <2>1. overrides' = sets
    <3>1. CASE Changed(map) = {}
      <4>1. \A p \in Postings : overrides[p][1] \notin DOMAIN map /\ overrides[p][2] \notin DOMAIN map
        BY <3>1 DEF Changed
      <4>2. \A p \in Postings : overrides[p] = <<overrides[p][1], overrides[p][2]>> BY <1>1 DEF Pairs
      <4>3. \A p \in Postings : FollowPair(map, overrides[p]) = overrides[p] BY <4>1, <4>2 DEF FollowPair, Follow
      <4>4. sets = overrides BY <1>1, <4>3 DEF OverridesAfter
      <4> QED BY <1>6, <4>4
    <3> QED BY <1>6, <3>1
  <2> HIDE DEF final, sets, splits
  <2>2. TypeOK' BY <1>1, <1>2, <1>3, <1>6, <2>1 DEF TypeOK, Table, RowType
  <2> QED BY <1>3, <1>4, <1>6, <2>1, <2>2 DEF IInv
<1>7. CASE /\ rows' = minted /\ planned' = plans /\ legs' = splits /\ overrides' = sets
           /\ lapses' = lapses \cup {"stopped"} /\ UNCHANGED <<imported, enforced>>
  <2> HIDE DEF final, sets, splits
  <2>1. TypeOK' BY <1>1, <1>2, <1>3, <1>7 DEF TypeOK, Table, RowType
  <2> QED BY <1>3, <1>7, <2>1 DEF IInv
<1> QED BY <1>5, <1>6, <1>7 DEF Edit, Refused

\* What a delete passes on.
LEMMA DeleteIsPlanned ==
  ASSUME IInv, NEW k \in DOMAIN Tree(rows)
  PROVE  Planned(rows, Clearing(Leaving(Tree(rows), k)), Remaining(Tree(rows), k))
<1> DEFINE t == Tree(rows)
           map == Clearing(Leaving(t, k))
<1>1. DOMAIN map = Leaving(t, k) /\ \A c \in DOMAIN map : map[c] = NoKey BY DEF Clearing
<1>2. Edited(t, Remaining(t, k), Leaving(t, k)) BY TreeShapes, RemainingShapes
<1>3. DOMAIN map \subseteq DOMAIN t /\ NoKey \notin DOMAIN map
  BY <1>1, TreeShapes, KeysAreTwoKinds DEF Leaving, Shape
<1> HIDE DEF map
<1> QED BY <1>1, <1>2, <1>3 DEF Planned, map

LEMMA DeleteInv == ASSUME IInv, NEW k \in DOMAIN Tree(rows), Delete(k) PROVE IInv'
<1> DEFINE gone  == Leaving(Tree(rows), k)
           map   == Clearing(gone)
           plans == Uncategorize(gone, planned)
<1>1. Served /\ Edit("delete", k, NoKey, rows, plans, Repoint(map, legs), map, Remaining(Tree(rows), k))
  BY DEF Delete
<1>2. Planned(rows, map, Remaining(Tree(rows), k)) BY DeleteIsPlanned
<1>3. plans \subseteq Repoint(map, planned) BY DEF Uncategorize, Repoint
<1> HIDE DEF map, plans
<1> QED BY <1>1, <1>2, <1>3, EditInv

\* What a rename that merges nothing passes on, and what a merge does.
LEMMA RenameIsPlanned ==
  ASSUME IInv, NEW k \in DOMAIN Tree(rows), NEW name \in Names, MergeTargets(Tree(rows), k, name) = {},
         NEW minted, minted = Upsert(rows, Restrict(Renamed(Tree(rows), k, name),
                                                    DOMAIN Renamed(Tree(rows), k, name) \ DOMAIN Tree(rows)))
  PROVE  Planned(minted, << >>, Renamed(Tree(rows), k, name))
<1>1. DOMAIN << >> = {} OBVIOUS
<1>2. Edited(Tree(rows), Renamed(Tree(rows), k, name), {}) BY TreeShapes, RenamedShapes
<1> QED BY <1>1, <1>2 DEF Planned

LEMMA MergeIsPlanned ==
  ASSUME IInv, NEW k \in DOMAIN Tree(rows), NEW name, NEW target \in MergeTargets(Tree(rows), k, name),
         NEW minted, minted = Upsert(rows, Restrict(Merged(Tree(rows), k, target),
                                                    DOMAIN Merged(Tree(rows), k, target) \ DOMAIN Tree(rows)))
  PROVE  Planned(minted, MergeRemap(Tree(rows), k, target), Merged(Tree(rows), k, target))
<1> DEFINE t   == Tree(rows)
           map == MergeRemap(t, k, target)
           u   == Merged(t, k, target)
<1>1. Shape(t) BY TreeShapes
<1> HIDE DEF t
<1>2. /\ target \in DOMAIN t /\ target # k /\ t[target].parent = t[k].parent BY DEF MergeTargets, t
<1>3. /\ k \in DOMAIN t /\ target \in MergeTargets(t, k, name) BY DEF t
<1>4. /\ k \in DOMAIN map /\ map[k] = target /\ DOMAIN map \subseteq DOMAIN t
      /\ \A c \in DOMAIN map \ {k} :
            /\ c \in SubKeys /\ k \in TopKeys /\ target \in TopKeys /\ t[c].parent = k
            /\ \/ IsCatchAll(c) /\ map[c] = CatchAll(target)
               \/ ~IsCatchAll(c) /\ map[c] \in RealChildren(t, target) /\ t[map[c]].name = t[c].name
  BY <1>1, <1>3, RemapTargets
<1>5. /\ Edited(t, u, DOMAIN map)
      /\ \A c \in DOMAIN map : map[c] \in DOMAIN u \/ (IsCatchAll(map[c]) /\ ~NoneIsLone(t))
  BY <1>1, <1>3, MergedShapes
<1> HIDE DEF map, u
<1>6. k \in TopKeys <=> target \in TopKeys BY <1>1, <1>2, <1>3 DEF Shape
<1>7. k \in Keys /\ target \in Keys BY <1>1, <1>2, <1>3 DEF Shape
<1>8. ASSUME NEW c \in DOMAIN map
      PROVE  /\ map[c] \notin DOMAIN map
             /\ \/ c \in TopKeys /\ map[c] \in TopKeys
                \/ c \in SubKeys /\ map[c] \in SubKeys
  <2>1. CASE c = k
    <3>1. t[target].parent # k BY <1>1, <1>2, <1>3, KeysAreTwoKinds DEF Shape, Nodes
    <3> QED BY <1>2, <1>4, <1>6, <1>7, <2>1, <3>1, KeysAreTwoKinds
  <2>2. CASE c # k /\ IsCatchAll(c)
    <3>1. map[c] = CatchAll(target) /\ c \in SubKeys /\ k \in TopKeys /\ target \in TopKeys BY <1>4, <2>2
    <3>2. map[c] \in SubKeys /\ IsCatchAll(map[c]) /\ Top(map[c]) = target BY <3>1, TopsHaveCatchAlls
    <3>3. map[c] \in DOMAIN t => t[map[c]].parent = target BY <1>1, <3>2 DEF Shape
    <3> QED BY <1>2, <1>4, <3>1, <3>2, <3>3, KeysAreTwoKinds
  <2>3. CASE c # k /\ ~IsCatchAll(c)
    <3>1. map[c] \in DOMAIN t /\ t[map[c]].parent = target /\ target \in TopKeys /\ c \in SubKeys /\ k \in TopKeys
      BY <1>4, <2>3 DEF RealChildren, Children
    <3>2. map[c] \in SubKeys BY <1>1, <3>1, KeysAreTwoKinds DEF Shape
    <3> QED BY <1>2, <1>4, <3>1, <3>2, KeysAreTwoKinds
  <2> QED BY <2>1, <2>2, <2>3
<1>9. minted \in {rows, Upsert(rows, Restrict(u, DOMAIN u \ DOMAIN t))} BY DEF t, u
<1>10. \A c \in DOMAIN map : \/ map[c] \in DOMAIN u \cup {NoKey}
                             \/ IsCatchAll(map[c]) /\ ~NoneIsLone(t)
  BY <1>5
<1> QED BY <1>4, <1>5, <1>8, <1>9, <1>10 DEF Planned, t, map, u

LEMMA RenameInv == ASSUME IInv, NEW k \in DOMAIN Tree(rows), NEW name \in Names, Rename(k, name) PROVE IInv'
<1> DEFINE t == Tree(rows)
<1>1. CASE MergeTargets(t, k, name) = {}
  <2> DEFINE plan   == Renamed(t, k, name)
             minted == Upsert(rows, Restrict(plan, DOMAIN plan \ DOMAIN t))
  <2>1. /\ Served
        /\ Edit("rename", k, name, minted, Repoint(<< >>, planned), Repoint(<< >>, legs), << >>, plan)
    BY <1>1 DEF Rename
  <2>2. Planned(minted, << >>, plan) BY <1>1, RenameIsPlanned
  <2> HIDE DEF minted, plan
  <2> QED BY <2>1, <2>2, EditInv
<1>2. CASE MergeTargets(t, k, name) # {}
  <2> DEFINE target == CHOOSE c \in MergeTargets(t, k, name) : TRUE
             map    == MergeRemap(t, k, target)
             plan   == Merged(t, k, target)
             minted == Upsert(rows, Restrict(plan, DOMAIN plan \ DOMAIN t))
  <2>1. Served /\ Edit("rename", k, name, minted, Repoint(map, planned), Repoint(map, legs), map, plan)
    BY <1>2 DEF Rename
  <2>2. target \in MergeTargets(t, k, name) BY <1>2
  <2> HIDE DEF target
  <2>3. Planned(minted, map, plan) BY <2>2, MergeIsPlanned
  <2> HIDE DEF minted, map, plan
  <2> QED BY <2>1, <2>3, EditInv
<1> QED BY <1>1, <1>2

-----------------------------------------------------------------------------
(* What a category resolves to, step by step.                              *)

\* What is left of a key: nothing of a catch-all that went because it was alone.
Left(new, k) ==
    IF "stopped" \in lapses /\ k # NoKey /\ k \notin DOMAIN new /\ IsCatchAll(k) THEN NoKey ELSE k

\* ResolutionStep, for a given effect.
Resolves(eff) ==
    \A k \in DOMAIN rows \cap DOMAIN rows' :
        LET now == Resolve(rows', k)
        IN  IF k \in DOMAIN Tree(rows') \ DOMAIN Tree(rows) THEN now = k
            ELSE IF answer'.code = "200" THEN now = Left(rows', Follow(eff, Resolve(rows, k)))
            ELSE now = Resolve(rows, k)

LEMMA ResolutionOfEffect ==
  ASSUME NEW eff, answer'.code = "200" => eff = Effect(Tree(rows), answer'.op, answer'.key, answer'.name),
         Resolves(eff)
  PROVE  ResolutionStep
BY DEF ResolutionStep, Resolves, Left

\* A live row resolves to itself, a retired one to its successor.
LEMMA ResolveOfTable ==
  ASSUME NEW rs, Table(rs), NEW k \in DOMAIN rs
  PROVE  /\ k \in DOMAIN Tree(rs) => Resolve(rs, k) = k
         /\ k \in Retired(rs) => Resolve(rs, k) = rs[k].successor
         /\ k \in DOMAIN Tree(rs) \/ k \in Retired(rs)
         /\ Resolve(rs, k) \in DOMAIN rs \cup {NoKey}
BY DEF Resolve, Table, Retired, Tree

\* Where rows are only written that are live, everything else resolves as before.
LEMMA GrownResolves ==
  ASSUME IInv, NEW w, DOMAIN w \subseteq Keys, \A k \in DOMAIN w : w[k] \in Nodes,
         rows' = Upsert(rows, w), answer'.code # "200" \/ answer'.op \notin {"delete", "rename"}
  PROVE  ResolutionStep
<1> DEFINE new == Upsert(rows, w)
<1>1. Table(rows) BY TreeShapes
<1>2. /\ Table(new) /\ DOMAIN new = DOMAIN rows \cup DOMAIN w
      /\ DOMAIN Tree(new) = DOMAIN Tree(rows) \cup DOMAIN w
      /\ \A k \in DOMAIN rows \ DOMAIN w : new[k] = rows[k]
  BY <1>1, UpsertWrites
<1>3. rows' = new OBVIOUS
<1> HIDE DEF new
<1>4. Resolves(<< >>)
  <2> SUFFICES ASSUME NEW k \in DOMAIN rows
               PROVE  IF k \in DOMAIN Tree(new) \ DOMAIN Tree(rows) THEN Resolve(new, k) = k
                      ELSE IF answer'.code = "200" THEN Resolve(new, k) = Left(new, Follow(<< >>, Resolve(rows, k)))
                      ELSE Resolve(new, k) = Resolve(rows, k)
    BY <1>3 DEF Resolves
  <2>1. Resolve(rows, k) \in DOMAIN new \cup {NoKey} BY <1>1, <1>2, ResolveOfTable
  <2>2. Left(new, Follow(<< >>, Resolve(rows, k))) = Resolve(rows, k) BY <2>1 DEF Left, Follow
  <2>3. CASE k \in DOMAIN w BY <1>1, <1>2, <2>2, <2>3, ResolveOfTable
  <2>4. CASE k \notin DOMAIN w BY <1>1, <1>2, <2>2, <2>4, ResolveOfTable DEF Resolve
  <2> QED BY <2>3, <2>4
<1>5. answer'.code = "200" => Effect(Tree(rows), answer'.op, answer'.key, answer'.name) = << >> BY DEF Effect
<1> QED BY <1>4, <1>5, ResolutionOfEffect

LEMMA UnchangedResolves ==
  ASSUME IInv, rows' = rows, answer'.code # "200" \/ answer'.op \notin {"delete", "rename"}
  PROVE  ResolutionStep
<1>1. Table(rows) BY TreeShapes
<1>2. \A k \in DOMAIN rows : Left(rows, Follow(<< >>, Resolve(rows, k))) = Resolve(rows, k)
  BY <1>1, ResolveOfTable DEF Left, Follow
<1>3. Resolves(<< >>) BY <1>2 DEF Resolves
<1>4. answer'.code = "200" => Effect(Tree(rows), answer'.op, answer'.key, answer'.name) = << >> BY DEF Effect
<1> QED BY <1>3, <1>4, ResolutionOfEffect

\* Where an edit sends a key that had a row, there is a row, unless it is a catch-all
\* that was alone, which takes an edit that stopped.
LEMMA KeptIsLeft ==
  ASSUME IInv, NEW minted, NEW map, NEW u, Planned(minted, map, u),
         NEW final, IsFinal(final, minted, map, u), NEW s \in DOMAIN rows \cup {NoKey}
  PROVE  Kept(final, Follow(map, s)) = Left(final, Follow(map, s))
<1> DEFINE t == Tree(rows)
           x == Follow(map, s)
<1>1. /\ Shape(t) /\ Edited(t, u, DOMAIN map)
      /\ DOMAIN final = DOMAIN u \cup Retired(minted) \cup DOMAIN map
      /\ NoKey \notin DOMAIN final /\ NoKey \notin DOMAIN map
  BY TreeShapes, KeysAreTwoKinds DEF IsFinal, Table, Planned, Shape
<1>2. SUFFICES ASSUME x # NoKey, x \notin DOMAIN final PROVE "stopped" \in lapses /\ IsCatchAll(x)
  BY <1>1 DEF Kept, Left
<1>3. ~NoneIsLone(t) => "stopped" \in lapses BY DEF IInv
<1>4. CASE s \in DOMAIN map BY <1>1, <1>2, <1>3, <1>4 DEF Planned, Follow
<1>5. CASE s \notin DOMAIN map
  <2>1. x = s /\ s \in DOMAIN rows BY <1>2, <1>5 DEF Follow
  <2>2. s \notin Retired(rows) BY <1>1, <1>2, <2>1, MintedTable
  <2>3. s \in DOMAIN t /\ s \notin DOMAIN u BY <1>1, <1>2, <2>1, <2>2, TreeShapes, TreeOfTable
  <2> HIDE DEF t
  <2>4. s \in SubKeys /\ IsCatchAll(s) /\ RealChildren(t, Top(s)) = {} BY <1>1, <1>5, <2>3 DEF Edited
  <2>5. CatchAll(Top(s)) = s /\ Top(s) \in TopKeys BY <2>4, CatchAllsHaveTops, KeysAreTwoKinds
  <2>6. Top(s) \in DOMAIN t BY <1>1, <2>3, <2>4, <2>5, KeysAreTwoKinds DEF Shape
  <2>7. ~NoneIsLone(t) BY <2>3, <2>4, <2>5, <2>6 DEF NoneIsLone
  <2> QED BY <1>3, <2>1, <2>4, <2>7
<1> QED BY <1>4, <1>5

\* An edit that reaches its end sends every key where its mapping says.
LEMMA FinalResolves ==
  ASSUME IInv, NEW minted, NEW map, NEW u, Planned(minted, map, u), DOMAIN map \cap DOMAIN u = {},
         rows' = Replace(Retire(minted, map), u),
         answer'.code = "200", Effect(Tree(rows), answer'.op, answer'.key, answer'.name) = map
  PROVE  ResolutionStep
<1> DEFINE final == Replace(Retire(minted, map), u)
<1>1. IsFinal(final, minted, map, u) BY FinalTable
<1>2. rows' = final OBVIOUS
<1> HIDE DEF final
<1>3. /\ Table(final) /\ DOMAIN final = DOMAIN u \cup Retired(minted) \cup DOMAIN map
      /\ Retired(final) = (Retired(minted) \cup DOMAIN map) \ DOMAIN u
      /\ DOMAIN Tree(final) = DOMAIN u
      /\ \A k \in Retired(final) : final[k].successor = Kept(final, Heir(map, minted, k))
  BY <1>1 DEF IsFinal
<1>4. Table(rows) /\ DOMAIN map \subseteq DOMAIN Tree(rows) BY TreeShapes DEF Planned
<1>5. DOMAIN Tree(rows) = DOMAIN rows \ Retired(rows) /\ Retired(rows) \subseteq DOMAIN rows BY <1>4, TreeOfTable
<1>6. Retired(minted) \subseteq Retired(rows) /\ \A k \in Retired(minted) : minted[k] = rows[k] BY MintedTable
<1>7. ASSUME NEW k \in DOMAIN rows \cap DOMAIN final, k \notin DOMAIN u \ DOMAIN Tree(rows)
      PROVE  Resolve(final, k) = Left(final, Follow(map, Resolve(rows, k)))
  <2>1. Kept(final, Follow(map, Resolve(rows, k))) = Left(final, Follow(map, Resolve(rows, k)))
    BY <1>1, <1>4, KeptIsLeft, ResolveOfTable
  <2>2. CASE k \in DOMAIN u
    <3>1. Resolve(rows, k) = k /\ Resolve(final, k) = k BY <1>3, <1>4, <1>7, <2>2, ResolveOfTable
    <3> QED BY <2>1, <2>2, <3>1 DEF Follow, Kept
  <2>3. CASE k \notin DOMAIN u
    <3>1. k \in Retired(final) BY <1>3, <1>7, <2>3
    <3>2. Resolve(final, k) = Kept(final, Heir(map, minted, k)) BY <1>3, <1>7, <3>1, ResolveOfTable
    <3>3. CASE k \in DOMAIN map
      <4>1. Resolve(rows, k) = k BY <1>4, <1>7, <3>3, ResolveOfTable
      <4> QED BY <2>1, <3>2, <3>3, <4>1 DEF Heir, Follow
    <3>4. CASE k \notin DOMAIN map
      <4>1. k \in Retired(minted) BY <1>3, <3>1, <3>4
      <4>2. Resolve(rows, k) = rows[k].successor /\ minted[k] = rows[k]
        BY <1>4, <1>6, <1>7, <4>1, ResolveOfTable
      <4> QED BY <2>1, <3>2, <3>4, <4>2 DEF Heir
    <3> QED BY <3>3, <3>4
  <2> QED BY <2>2, <2>3
<1>8. ASSUME NEW k \in DOMAIN u PROVE Resolve(final, k) = k BY <1>3, ResolveOfTable
<1>9. Resolves(map) BY <1>2, <1>3, <1>7, <1>8 DEF Resolves
<1> QED BY <1>9, ResolutionOfEffect

\* What an edit, ended, stopped or refused, makes of what resolved before.
LEMMA EditResolves ==
  ASSUME IInv, NEW op, NEW k, NEW name, NEW minted, NEW map, NEW u, Planned(minted, map, u),
         NEW plans, NEW splits, Edit(op, k, name, minted, plans, splits, map, u),
         DOMAIN map \cap DOMAIN u = {}, Effect(Tree(rows), op, k, name) = map
  PROVE  ResolutionStep
<1> DEFINE final == Replace(Retire(minted, map), u)
<1>1. \/ /\ rows' = rows /\ Answers("500", op, k, name)
      \/ /\ rows' = final /\ Answers("200", op, k, name)
      \/ /\ rows' = minted /\ (Answers("half", op, k, name) \/ Answers("hollow", op, k, name))
  BY DEF Edit, Refused
<1>2. \A code : Answers(code, op, k, name) =>
         answer'.code = code /\ answer'.op = op /\ answer'.key = k /\ answer'.name = name
  BY DEF Answers
<1> HIDE DEF final
<1>3. CASE rows' = rows /\ Answers("500", op, k, name) BY <1>2, <1>3, UnchangedResolves
<1>4. CASE rows' = final /\ Answers("200", op, k, name) BY <1>2, <1>4, FinalResolves DEF final
<1>5. CASE rows' = minted /\ (Answers("half", op, k, name) \/ Answers("hollow", op, k, name))
  <2>1. answer'.code # "200" BY <1>2, <1>5
  <2>2. CASE minted = rows BY <1>5, <2>1, <2>2, UnchangedResolves
  <2>3. CASE minted = Upsert(rows, Restrict(u, DOMAIN u \ DOMAIN Tree(rows)))
    <3> DEFINE w == Restrict(u, DOMAIN u \ DOMAIN Tree(rows))
    <3>1. DOMAIN w \subseteq DOMAIN u /\ \A c \in DOMAIN w : w[c] = u[c] BY DEF Restrict
    <3>2. Shape(u) BY DEF Planned, Edited
    <3>3. rows' = Upsert(rows, w) BY <1>5, <2>3
    <3> HIDE DEF w
    <3>4. DOMAIN w \subseteq Keys /\ \A c \in DOMAIN w : w[c] \in Nodes BY <3>1, <3>2 DEF Shape
    <3> QED BY <2>1, <3>3, <3>4, GrownResolves
  <2> QED BY <2>2, <2>3 DEF Planned
<1> QED BY <1>1, <1>3, <1>4, <1>5

LEMMA DeleteResolves == ASSUME IInv, NEW k \in DOMAIN Tree(rows), Delete(k) PROVE ResolutionStep
<1> DEFINE t    == Tree(rows)
           gone == Leaving(t, k)
           map  == Clearing(gone)
           u    == Remaining(t, k)
           plans == Uncategorize(gone, planned)
           splits == Repoint(map, legs)
<1>1. Edit("delete", k, NoKey, rows, plans, splits, map, u) BY DEF Delete
<1>2. Planned(rows, map, u) BY DeleteIsPlanned
<1>3. DOMAIN map \cap DOMAIN u = {} BY DEF Clearing, Leaving
<1>4. Effect(t, "delete", k, NoKey) = map BY DEF Effect
<1> HIDE DEF map, u, plans, splits
<1> QED BY <1>1, <1>2, <1>3, <1>4, EditResolves

LEMMA RenameResolves ==
  ASSUME IInv, NEW k \in DOMAIN Tree(rows), NEW name \in Names, Rename(k, name)
  PROVE  OfCatchAll \/ ResolutionStep
<1> DEFINE t == Tree(rows)
<1>1. CASE MergeTargets(t, k, name) = {}
  <2> DEFINE plan   == Renamed(t, k, name)
             minted == Upsert(rows, Restrict(plan, DOMAIN plan \ DOMAIN t))
             plans  == Repoint(<< >>, planned)
             splits == Repoint(<< >>, legs)
  <2>1. Edit("rename", k, name, minted, plans, splits, << >>, plan) BY <1>1 DEF Rename
  <2>2. Planned(minted, << >>, plan) BY <1>1, RenameIsPlanned
  <2>3. Effect(t, "rename", k, name) = << >> BY <1>1 DEF Effect
  <2>4. DOMAIN << >> \cap DOMAIN plan = {} OBVIOUS
  <2> HIDE DEF minted, plan, plans, splits
  <2> QED BY <2>1, <2>2, <2>3, <2>4, EditResolves
<1>2. CASE MergeTargets(t, k, name) # {}
  <2> DEFINE target == CHOOSE c \in MergeTargets(t, k, name) : TRUE
             map    == MergeRemap(t, k, target)
             plan   == Merged(t, k, target)
             minted == Upsert(rows, Restrict(plan, DOMAIN plan \ DOMAIN t))
             plans  == Repoint(map, planned)
             splits == Repoint(map, legs)
  <2>1. Edit("rename", k, name, minted, plans, splits, map, plan) BY <1>2 DEF Rename
  <2>2. target \in MergeTargets(t, k, name) BY <1>2
  <2>3. Effect(t, "rename", k, name) = map BY <1>2 DEF Effect
  <2> HIDE DEF target
  <2>4. Planned(minted, map, plan) BY <2>2, MergeIsPlanned
  <2>5. ~IsCatchAll(k) => DOMAIN map \cap DOMAIN plan = {} BY <2>2, TreeShapes, MergedShapes
  <2>6. answer'.key = k BY <2>1 DEF Edit, Refused, Answers
  <2>7. k # NoKey BY TreeShapes, KeysAreTwoKinds DEF Shape
  <2> HIDE DEF minted, map, plan, plans, splits
  <2>8. CASE IsCatchAll(k) BY <2>6, <2>7, <2>8 DEF OfCatchAll
  <2>9. CASE ~IsCatchAll(k) BY <2>1, <2>3, <2>4, <2>5, <2>9, EditResolves
  <2> QED BY <2>8, <2>9
<1> QED BY <1>1, <1>2

\* Requests that add categories.
LEMMA AddResolves ==
  ASSUME IInv, NEW k, NEW n, NEW t1, Shape(t1), Add("create", k, n, t1)
  PROVE  ResolutionStep
<1> DEFINE w == Restrict(t1, {c \in DOMAIN t1 : c \notin DOMAIN Tree(rows)})
<1>1. rows' = Upsert(rows, w) /\ answer'.op = "create" BY DEF Add, Answers
<1>2. DOMAIN w \subseteq DOMAIN t1 /\ \A c \in DOMAIN w : w[c] = t1[c] BY DEF Restrict
<1> HIDE DEF w
<1>3. DOMAIN w \subseteq Keys /\ \A c \in DOMAIN w : w[c] \in Nodes BY <1>2 DEF Shape
<1> QED BY <1>1, <1>3, GrownResolves

LEMMA PostCategoryResolves == ASSUME IInv, NEW n \in Names, PostCategory(n) PROVE ResolutionStep
<1> DEFINE t == Tree(rows)
           t1 == With(t, <<n>>, Node(n, NoKey))
<1>1. Shape(t) BY TreeShapes
<1>2. <<n>> \in TopKeys BY DEF TopKeys
<1>3. /\ <<n>> \in Keys \ DOMAIN t /\ ~IsCatchAll(<<n>>) /\ \A c \in Children(t, NoKey) : t[c].name # n
      /\ Add("create", <<n>>, n, Normalize(t1))
  BY <1>2, TopsHaveCatchAlls, KeysAreTwoKinds DEF PostCategory
<1> HIDE DEF t
<1>4. Shape(Normalize(t1)) BY <1>1, <1>2, <1>3, WithShapes, NormalizeShapes
<1> HIDE DEF t1
<1> QED BY <1>3, <1>4, AddResolves

LEMMA PostSubcategoryResolves ==
  ASSUME IInv, NEW p \in Children(Tree(rows), NoKey), NEW n \in Names, PostSubcategory(p, n) PROVE ResolutionStep
<1> DEFINE t == Tree(rows)
           k == <<p[1], n>>
           t1 == With(t, k, Node(n, p))
<1>1. Shape(t) /\ p \in DOMAIN t \cap TopKeys BY TreeShapes DEF Children, Shape
<1>2. k \in SubKeys /\ ~IsCatchAll(k) BY <1>1, NamesAssumption DEF TopKeys, SubKeys, IsCatchAll
<1>3. /\ k \in Keys \ DOMAIN t /\ \A c \in Children(t, p) : t[c].name # n
      /\ Add("create", k, n, Normalize(t1))
  BY <1>2, KeysAreTwoKinds DEF PostSubcategory
<1> HIDE DEF t, k
<1>4. Shape(Normalize(t1)) BY <1>1, <1>2, <1>3, WithShapes, NormalizeShapes
<1> HIDE DEF t1
<1> QED BY <1>3, <1>4, AddResolves

LEMMA ImportResolves ==
  ASSUME IInv, NEW p \in Postings, NEW n \in Names, NEW m \in Names \cup {NoKey}, Import(p, n, m)
  PROVE  ResolutionStep
<1> DEFINE t    == Tree(rows)
           more == Minted(t, n, m).tree
           all  == Normalize(more)
<1>1. rows' = rows \/ rows' = Upsert(rows, all) BY DEF Import
<1>2. answer'.op = "import" BY DEF Import, Answers
<1>3. Shape(more) BY TreeShapes, MintedShapes DEF Import
<1> HIDE DEF more
<1>4. Shape(all) BY <1>3, NormalizeShapes
<1> HIDE DEF all
<1>5. DOMAIN all \subseteq Keys /\ \A k \in DOMAIN all : all[k] \in Nodes BY <1>4 DEF Shape
<1> QED BY <1>1, <1>2, <1>5, GrownResolves, UnchangedResolves

LEMMA MintFromFileResolves ==
  ASSUME IInv, NEW n \in Names, NEW m \in Names \cup {NoKey}, MintFromFile(n, m) PROVE ResolutionStep
<1> DEFINE t == Tree(rows)
           u == Minted(t, n, m).tree
           w == Restrict(u, DOMAIN u \ DOMAIN t)
<1>1. rows' = Upsert(rows, w) BY DEF MintFromFile
<1>2. answer'.op = "file" BY DEF MintFromFile, Answers
<1>3. Shape(u) BY TreeShapes, MintedShapes DEF MintFromFile
<1> HIDE DEF u
<1>4. DOMAIN w \subseteq DOMAIN u /\ \A k \in DOMAIN w : w[k] = u[k] BY DEF Restrict
<1> HIDE DEF w
<1>5. DOMAIN w \subseteq Keys /\ \A k \in DOMAIN w : w[k] \in Nodes BY <1>3, <1>4 DEF Shape
<1> QED BY <1>1, <1>2, <1>5, GrownResolves

LEMMA StepResolves == IInv /\ [Next]_vars => [OfCatchAll \/ ResolutionStep]_vars
<1> SUFFICES ASSUME IInv, Next PROVE OfCatchAll \/ ResolutionStep OBVIOUS
<1>1. CASE FirstContact BY <1>1 DEF FirstContact, ResolutionStep
<1>2. ASSUME NEW n \in Names, PostCategory(n) PROVE ResolutionStep BY <1>2, PostCategoryResolves
<1>3. ASSUME NEW p \in Children(Tree(rows), NoKey), NEW n \in Names, PostSubcategory(p, n) PROVE ResolutionStep
  BY <1>3, PostSubcategoryResolves
<1>4. ASSUME NEW k \in DOMAIN Tree(rows), Delete(k) PROVE ResolutionStep BY <1>4, DeleteResolves
<1>5. ASSUME NEW k \in DOMAIN Tree(rows), NEW n \in Names, Rename(k, n) PROVE OfCatchAll \/ ResolutionStep
  BY <1>5, RenameResolves
<1>6. ASSUME NEW p \in Postings, NEW n \in Names, NEW m \in Names \cup {NoKey}, Import(p, n, m) PROVE ResolutionStep
  BY <1>6, ImportResolves
<1>7. ASSUME NEW n \in Names, NEW m \in Names \cup {NoKey}, MintFromFile(n, m) PROVE ResolutionStep
  BY <1>7, MintFromFileResolves
<1>8. ASSUME NEW pair \in LivePairs, Refer(pair) PROVE ResolutionStep
  <2>1. rows' = rows /\ answer'.op = "refer" BY <1>8 DEF Refer, Answers
  <2> QED BY <2>1, UnchangedResolves
<1> QED BY <1>1, <1>2, <1>3, <1>4, <1>5, <1>6, <1>7, <1>8 DEF Next

-----------------------------------------------------------------------------
(* The theorems.                                                           *)

LEMMA StepInv == IInv /\ [Next]_vars => IInv'
<1> SUFFICES ASSUME IInv, [Next]_vars PROVE IInv' OBVIOUS
<1>1. CASE FirstContact BY <1>1, FirstContactInv
<1>2. ASSUME NEW n \in Names, PostCategory(n) PROVE IInv' BY <1>2, PostCategoryInv
<1>3. ASSUME NEW p \in Children(Tree(rows), NoKey), NEW n \in Names, PostSubcategory(p, n) PROVE IInv'
  BY <1>3, PostSubcategoryInv
<1>4. ASSUME NEW k \in DOMAIN Tree(rows), Delete(k) PROVE IInv' BY <1>4, DeleteInv
<1>5. ASSUME NEW k \in DOMAIN Tree(rows), NEW n \in Names, Rename(k, n) PROVE IInv' BY <1>5, RenameInv
<1>6. ASSUME NEW p \in Postings, NEW n \in Names, NEW m \in Names \cup {NoKey}, Import(p, n, m) PROVE IInv'
  BY <1>6, ImportInv
<1>7. ASSUME NEW n \in Names, NEW m \in Names \cup {NoKey}, MintFromFile(n, m) PROVE IInv' BY <1>7, MintFromFileInv
<1>8. ASSUME NEW pair \in LivePairs, Refer(pair) PROVE IInv' BY <1>8, ReferInv
<1>9. CASE UNCHANGED vars
  BY <1>9 DEF vars, refVars, IInv, TypeOK, Table, NoneNamesTheRetired, Retired, Tree
<1> QED BY <1>1, <1>2, <1>3, <1>4, <1>5, <1>6, <1>7, <1>8, <1>9 DEF Next

\* In every reachable state: typed rows, a well-formed live tree, and, until an edit stops
\* after its first commit, no lone catch-all and nothing that names a retired category.
THEOREM InvHolds == Spec => []IInv
BY InitInv, StepInv, PTL DEF Spec

\* Every row, reference and override has its type: a top-level category and a subcategory
\* of the kinds the foreign keys require.
THEOREM TypeOKHolds == Spec => []TypeOK
<1>1. IInv => TypeOK BY DEF IInv
<1> QED BY InvHolds, <1>1, PTL

\* Renames, merges, deletes, imports and files' categories, in any order and number: as long
\* as every edit reaches its end, no tombstone, budget, pattern, split leg or override names a
\* retired category, so that load_category_redirects needs one hop.
THEOREM NothingNamesTheRetiredHolds == Spec => []NothingNamesTheRetired
BY InvHolds, InvImplies, PTL

\* The live tree is a tree of two levels with unique names among siblings, whatever stops
\* half way; and normalised, as long as nothing has stopped or bypassed the normalisation.
THEOREM LiveTreeIsWholeHolds == Spec => []LiveTreeIsWhole
BY InvHolds, InvImplies, PTL

\* What any posting, override or tombstone resolves to moves only as the last request
\* says: through its merge or delete if it answered 200, not at all if it stopped or was
\* refused.  Edits of catch-alls are not covered.
THEOREM ResolutionFollowsRequestsHolds == Spec => ResolutionFollowsRequests
<1>1. IInv /\ [Next]_vars => [OfCatchAll \/ ResolutionStep]_vars BY StepResolves
<1> HIDE DEF OfCatchAll, ResolutionStep
<1> QED BY InvHolds, <1>1, PTL DEF Spec, ResolutionFollowsRequests

=============================================================================
