---------------------------- MODULE CssTreeProofs ----------------------------
(***************************************************************************)
(* The order of the CSS tree, for every style sheet: any selectors, query  *)
(* lists and @at-root rules, nested to any depth.                          *)
(*                                                                         *)
(* A leaf is put at the visitor's parent.  It comes out last if nothing    *)
(* that has a leaf follows one of the nodes it is put in.  The visitor     *)
(* looks at the innermost of them alone (copyParentAfterSibling); of the   *)
(* others it holds because what goes past them, while a block inside is    *)
(* still to be returned into, leaves them behind.                          *)
(*                                                                         *)
(* Then the media queries an inner @media leaves an outer one with.        *)
(***************************************************************************)
EXTENDS CssTree, FiniteSetTheorems, WellFoundedInduction, TLAPS

(* A node is in those its parent is in, and in its parent.                  *)
WellMade(t) ==
    /\ DOMAIN t \subseteq Nat \ {0} /\ IsFiniteSet(DOMAIN t) /\ Root \in DOMAIN t
    /\ t[Root].above = {}
    /\ \A n \in DOMAIN t :
         /\ t[n].above \subseteq DOMAIN t
         /\ n # Root => Root \in t[n].above
         /\ \A m \in t[n].above :
              /\ m < n /\ t[m].kind \in Parents
              /\ t[m].above = {k \in t[n].above : k < m}

InUse == Returns \cup {parent}

(* What the visitor holds on to is in the tree.                             *)
Held ==
    /\ open \in Seq(Range(open))
    /\ InUse \cup behind \subseteq DOMAIN nodes
    /\ \A n \in InUse : nodes[n].kind \in Parents
    /\ \A r \in {rule} \cup {open[i].rule : i \in DOMAIN open} :
         r = 0 \/ (r \in DOMAIN nodes /\ nodes[r].kind = "style")
    /\ nodes[Root].kind = "root"

(* Of the nodes around a block that will be returned into, the visitor is   *)
(* still in those that have not been left behind; so are the blocks inside. *)
Encloses(q, p) == nodes[q].above \subseteq Up(nodes, p) \cup behind
Nested ==
    /\ \A q \in Returns : Encloses(q, parent)
    /\ \A i, j \in DOMAIN open :
         i < j /\ open[i].parent # 0 /\ open[j].parent # 0 => Encloses(open[i].parent, open[j].parent)

(* No leaf is in what follows n.                                            *)
Clear(n) == \A k, m \in DOMAIN nodes : OneAfter(n, k) /\ IsLeaf(m) => k \notin Up(nodes, m)

(* Around the blocks in use, a leaf can only follow what was left behind.   *)
Spine == \A q \in InUse : \A n \in nodes[q].above : n \in behind \/ Clear(n)

TreeInv == WellMade(nodes) /\ Held /\ Nested /\ Spine /\ SourceOrder
-----------------------------------------------------------------------------
(* Finite sets of numbers                                                   *)

LEMMA MaxIs ==
    ASSUME NEW S \in SUBSET Nat, IsFiniteSet(S), S # {}
    PROVE  Max(S) \in S /\ \A y \in S : Max(S) >= y
<1> DEFINE Over(x) == {y \in S : y > x}
           A == {Over(x) : x \in S}
<1>1. A \subseteq FiniteSubsetsOf(S) /\ A # {}
  <2>1. ASSUME NEW T, T \subseteq S PROVE T \in FiniteSubsetsOf(S)
    BY <2>1, FS_Subset DEF FiniteSubsetsOf
  <2> QED BY <2>1
<1>2. PICK a \in A : \A y \in A : <<y, a>> \notin StrictSubsetOrdering(S)
  <2> HIDE DEF A
  <2> QED BY <1>1, FS_StrictSubsetOrderingWellFounded, WFMin, Zenon
<1>3. PICK x \in S : a = Over(x)
  BY <1>2
<1>4. \A y \in S : x >= y
  <2> SUFFICES ASSUME NEW y \in S, y > x PROVE FALSE
    OBVIOUS
  <2>1. Over(y) \in A
    OBVIOUS
  <2>2. Over(y) \subseteq Over(x)
    <3> SUFFICES ASSUME NEW z \in S, z > y PROVE z > x
      OBVIOUS
    <3> QED
      OBVIOUS
  <2>3. y \in Over(x) /\ y \notin Over(y)
    OBVIOUS
  <2>4. <<Over(y), Over(x)>> \in StrictSubsetOrdering(S)
    BY <2>2, <2>3 DEF StrictSubsetOrdering
  <2> QED
    BY <1>2, <1>3, <2>1, <2>4
<1> QED
  BY <1>4 DEF Max

-----------------------------------------------------------------------------
(* Trees                                                                    *)

LEMMA NewestIs ==
    ASSUME NEW t, WellMade(t)
    PROVE  /\ Newest(t) \in DOMAIN t /\ Newest(t) \in Nat \ {0}
           /\ \A n \in DOMAIN t : n \in Nat \ {0} /\ n <= Newest(t)
<1>1. DOMAIN t \subseteq Nat /\ IsFiniteSet(DOMAIN t) /\ DOMAIN t # {}
  BY DEF WellMade
<1>2. Newest(t) \in DOMAIN t /\ \A n \in DOMAIN t : Newest(t) >= n
  BY <1>1, MaxIs DEF Newest
<1> QED
  BY <1>2 DEF WellMade

(* The nodes a node is in, itself included.                                 *)
LEMMA UpIs ==
    ASSUME NEW t, WellMade(t), NEW n \in DOMAIN t
    PROVE  /\ Up(t, n) \subseteq DOMAIN t /\ Root \in Up(t, n) /\ n \in Up(t, n)
           /\ \A m \in Up(t, n) : /\ m <= n /\ (m = n \/ m \in t[n].above)
                                 /\ t[m].above = {k \in Up(t, n) : k < m}
                                 /\ Up(t, m) \subseteq Up(t, n)
<1>1. /\ t[n].above \subseteq DOMAIN t /\ (n # Root => Root \in t[n].above)
      /\ \A m \in t[n].above : m < n /\ t[m].above = {k \in t[n].above : k < m}
  BY DEF WellMade
<1>2. n \in Nat /\ DOMAIN t \subseteq Nat
  BY DEF WellMade
<1>3. ASSUME NEW m \in Up(t, n)
      PROVE  /\ m <= n /\ (m = n \/ m \in t[n].above)
             /\ t[m].above = {k \in Up(t, n) : k < m}
  <2>1. CASE m = n
    BY <1>1, <1>2, <2>1 DEF Up
  <2>2. CASE m # n
    <3>1. m \in t[n].above /\ m < n
      BY <1>1, <2>2 DEF Up
    <3>2. t[m].above = {k \in t[n].above : k < m}
      BY <1>1, <3>1
    <3>3. m \in Nat /\ ~(n < m)
      BY <1>1, <1>2, <3>1
    <3>4. {k \in t[n].above : k < m} = {k \in {n} \cup t[n].above : k < m}
      BY <3>3
    <3> QED
      BY <1>2, <3>1, <3>2, <3>3, <3>4 DEF Up
  <2> QED
    BY <2>1, <2>2
<1>4. Up(t, n) \subseteq DOMAIN t /\ Root \in Up(t, n) /\ n \in Up(t, n)
  BY <1>1 DEF Up
<1>5. ASSUME NEW m \in Up(t, n) PROVE Up(t, m) \subseteq Up(t, n)
  <2>1. t[m].above \subseteq Up(t, n)
    BY <1>3
  <2> QED
    BY <2>1 DEF Up
<1> QED
  BY <1>3, <1>4, <1>5

(* Of two children of one node, a node is in one at most.                   *)
LEMMA OneWayUp ==
    ASSUME NEW t, WellMade(t), NEW n \in DOMAIN t,
           NEW j \in Up(t, n), NEW k \in Up(t, n), t[j].above = t[k].above
    PROVE  j = k
<1>1. j \in Nat /\ k \in Nat
  BY UpIs DEF WellMade
<1>2. t[j].above = {i \in Up(t, n) : i < j} /\ t[k].above = {i \in Up(t, n) : i < k}
  BY UpIs
<1>3. ~(j < k)
  <2>1. j \notin t[j].above
    BY <1>1, <1>2
  <2> QED
    BY <1>2, <2>1
<1>4. ~(k < j)
  <2>1. ~(k < k) /\ k \notin {i \in Up(t, n) : i < k}
    BY <1>1
  <2> QED
    BY <1>2, <2>1
<1> QED
  BY <1>1, <1>3, <1>4

(* A tree with later nodes.                                                 *)
Grown(t, u) ==
    /\ WellMade(t) /\ WellMade(u) /\ DOMAIN t \subseteq DOMAIN u
    /\ \A n \in DOMAIN t : u[n] = t[n]
    /\ \A n \in DOMAIN u \ DOMAIN t : n > Newest(t)
(* The new ones are no leaves.                                              *)
Leafless(t, u) == Grown(t, u) /\ \A n \in DOMAIN u \ DOMAIN t : u[n].kind \in Parents

LEMMA GrownTwice ==
    ASSUME NEW t, NEW u, NEW v, Grown(t, u), Grown(u, v)
    PROVE  Grown(t, v) /\ (Leafless(t, u) /\ Leafless(u, v) => Leafless(t, v))
<1>1. Newest(t) \in DOMAIN u /\ Newest(t) \in Nat /\ Newest(u) \in Nat /\ Newest(t) <= Newest(u)
  BY NewestIs DEF Grown
<1>2. DOMAIN v \subseteq Nat
  BY DEF Grown, WellMade
<1>3. Grown(t, v)
  BY <1>1, <1>2 DEF Grown
<1> QED
  BY <1>3 DEF Leafless, Grown

LEMMA GrownUp ==
    ASSUME NEW t, NEW u, Grown(t, u), NEW n \in DOMAIN t
    PROVE  Up(u, n) = Up(t, n) /\ u[n] = t[n] /\ Up(t, n) \subseteq DOMAIN t
BY UpIs DEF Grown, Up

LEMMA AddNodeIs ==
    ASSUME NEW t, WellMade(t), NEW node, NEW over \in SUBSET DOMAIN t, Root \in over,
           \A m \in over : t[m].kind \in Parents /\ t[m].above = {k \in over : k < m}
    PROVE  LET u == AddNode(t, node, over)
               n == Newest(t) + 1
           IN  /\ Grown(t, u) /\ DOMAIN u = DOMAIN t \cup {n} /\ Newest(u) = n /\ n \notin DOMAIN t
               /\ u[n].above = over /\ u[n].kind = node.kind
               /\ node.kind \in Parents => Leafless(t, u)
<1> DEFINE u == AddNode(t, node, over)
           n == Newest(t) + 1
<1>1. /\ n \in Nat \ {0} /\ n \notin DOMAIN t
      /\ \A m \in DOMAIN t : m \in Nat \ {0} /\ m < n /\ m <= Newest(t)
      /\ Newest(t) \in Nat /\ n > Newest(t)
  BY NewestIs
<1>2. /\ DOMAIN u = DOMAIN t \cup {n}
      /\ \A m \in DOMAIN t : u[m] = t[m]
      /\ u[n] = Within(over, node)
  BY <1>1 DEF AddNode
<1>3. u[n].above = over /\ u[n].kind = node.kind
  BY <1>2 DEF Within
<1> HIDE DEF u, n
<1>4. IsFiniteSet(DOMAIN u)
  BY <1>2, FS_AddElement DEF WellMade
<1>5. ASSUME NEW m \in DOMAIN u
      PROVE  /\ u[m].above \subseteq DOMAIN u
             /\ m # Root => Root \in u[m].above
             /\ \A k \in u[m].above :
                  /\ k < m /\ u[k].kind \in Parents
                  /\ u[k].above = {j \in u[m].above : j < k}
  <2>1. CASE m \in DOMAIN t
    <3>1. u[m] = t[m] /\ \A k \in t[m].above : u[k] = t[k]
      BY <2>1, <1>2 DEF WellMade
    <3> QED
      BY <2>1, <1>2, <3>1 DEF WellMade
  <2>2. CASE m = n
    BY <2>2, <1>1, <1>2, <1>3
  <2> QED
    BY <2>1, <2>2, <1>2
<1>6. WellMade(u)
  BY <1>1, <1>2, <1>4, <1>5 DEF WellMade
<1>7. Newest(u) = n
  <2>1. Newest(u) \in DOMAIN u /\ \A m \in DOMAIN u : m <= Newest(u)
    BY <1>6, NewestIs
  <2> QED
    BY <2>1, <1>1, <1>2
<1>8. Grown(t, u)
  BY <1>1, <1>2, <1>6 DEF Grown
<1>9. node.kind \in Parents => Leafless(t, u)
  BY <1>8, <1>2, <1>3 DEF Leafless
<1> QED
  BY <1>1, <1>2, <1>3, <1>7, <1>8, <1>9 DEF u, n

LEMMA AddChildIs ==
    ASSUME NEW t, WellMade(t), NEW node, NEW p \in DOMAIN t, t[p].kind \in Parents
    PROVE  LET u == AddChild(t, p, node)
               n == Newest(t) + 1
           IN  /\ Grown(t, u) /\ DOMAIN u = DOMAIN t \cup {n} /\ Newest(u) = n /\ n \notin DOMAIN t
               /\ u[n].above = Up(t, p) /\ u[n].kind = node.kind
               /\ node.kind \in Parents => Leafless(t, u)
<1>1. /\ Up(t, p) \subseteq DOMAIN t /\ Root \in Up(t, p)
      /\ \A m \in Up(t, p) : t[m].kind \in Parents /\ t[m].above = {k \in Up(t, p) : k < m}
  BY UpIs DEF WellMade
<1> QED
  BY <1>1, AddNodeIs DEF AddChild

(* The same, of a node that can have children.                              *)
LEMMA NewBlock ==
    ASSUME NEW t, WellMade(t), NEW node, node.kind \in Parents,
           NEW p \in DOMAIN t, t[p].kind \in Parents, NEW u, u = AddChild(t, p, node)
    PROVE  /\ Leafless(t, u) /\ Newest(u) \in DOMAIN u \ DOMAIN t
           /\ u[Newest(u)].kind = node.kind /\ u[Newest(u)].above = Up(t, p)
<1> DEFINE v == AddChild(t, p, node)
           n == Newest(t) + 1
<1>1. /\ Grown(t, v) /\ DOMAIN v = DOMAIN t \cup {n} /\ Newest(v) = n /\ n \notin DOMAIN t
      /\ v[n].above = Up(t, p) /\ v[n].kind = node.kind
      /\ node.kind \in Parents => Leafless(t, v)
  BY AddChildIs
<1>2. u = v
  OBVIOUS
<1> HIDE DEF v, n
<1> QED
  BY <1>1, <1>2

LEMMA AddCopyIs ==
    ASSUME NEW t, WellMade(t), NEW p \in DOMAIN t, p # Root, t[p].kind \in Parents
    PROVE  LET u == AddCopy(t, p)
               n == Newest(t) + 1
           IN  /\ Leafless(t, u) /\ DOMAIN u = DOMAIN t \cup {n} /\ Newest(u) = n /\ n \notin DOMAIN t
               /\ u[n].above = t[p].above /\ u[n].kind \in Parents
<1>1. /\ t[p].above \subseteq DOMAIN t /\ Root \in t[p].above
      /\ \A m \in t[p].above : t[m].kind \in Parents /\ t[m].above = {k \in t[p].above : k < m}
  BY DEF WellMade
<1> DEFINE node == t[p]
           over == t[p].above
<1>2. /\ over \in SUBSET DOMAIN t /\ Root \in over /\ node.kind \in Parents
      /\ \A m \in over : t[m].kind \in Parents /\ t[m].above = {k \in over : k < m}
  BY <1>1
<1> HIDE DEF node, over
<1> DEFINE u == AddNode(t, node, over)
           n == Newest(t) + 1
<1>3. /\ Grown(t, u) /\ DOMAIN u = DOMAIN t \cup {n} /\ Newest(u) = n /\ n \notin DOMAIN t
      /\ u[n].above = over /\ u[n].kind = node.kind
      /\ node.kind \in Parents => Leafless(t, u)
  BY <1>2, AddNodeIs
<1>4. u = AddCopy(t, p)
  BY DEF AddCopy, node, over
<1> HIDE DEF u
<1> QED
  BY <1>2, <1>3, <1>4 DEF over

(* A leaf of a tree that has grown without any is one of before.            *)
LEMMA OldLeaf ==
    ASSUME NEW t, NEW u, Leafless(t, u), NEW l \in DOMAIN u, u[l].kind \notin Parents
    PROVE  /\ l \in DOMAIN t /\ u[l] = t[l] /\ Up(u, l) = Up(t, l)
           /\ Up(t, l) \subseteq DOMAIN t
<1>1. l \in DOMAIN t
  BY DEF Leafless
<1> QED
  BY <1>1, GrownUp DEF Leafless

(* Nothing comes out of order without leaves.                               *)
LEMMA LeaflessGrowth ==
    ASSUME TreeInv, Leafless(nodes, nodes'), behind \subseteq behind'
    PROVE  /\ SourceOrder'
           /\ \A n \in DOMAIN nodes : Clear(n) => Clear(n)'
           /\ \A n \in DOMAIN nodes' \ DOMAIN nodes : Clear(n)'
<1>1. ASSUME NEW l \in DOMAIN nodes', IsLeaf(l)', NEW k \in Up(nodes', l)
      PROVE  /\ l \in DOMAIN nodes /\ IsLeaf(l) /\ k \in DOMAIN nodes /\ k \in Up(nodes, l)
             /\ nodes'[k] = nodes[k] /\ nodes'[l] = nodes[l]
  BY <1>1, OldLeaf DEF IsLeaf, Leafless, Grown
<1>2. SourceOrder'
  <2> SUFFICES ASSUME NEW k \in DOMAIN nodes', NEW n \in DOMAIN nodes', OneAfter(k, n)',
                      NEW l \in DOMAIN nodes', NEW m \in DOMAIN nodes',
                      IsLeaf(l)', k \in Up(nodes', l), IsLeaf(m)', n \in Up(nodes', m)
               PROVE  l < m \/ nodes'[l].above \cap behind' # {}
    BY DEF SourceOrder
  <2>1. /\ l \in DOMAIN nodes /\ IsLeaf(l) /\ k \in DOMAIN nodes /\ k \in Up(nodes, l)
        /\ nodes'[k] = nodes[k] /\ nodes'[l] = nodes[l]
    BY <1>1
  <2>2. /\ m \in DOMAIN nodes /\ IsLeaf(m) /\ n \in DOMAIN nodes /\ n \in Up(nodes, m)
        /\ nodes'[n] = nodes[n]
    BY <1>1
  <2>3. OneAfter(k, n)
    BY <2>1, <2>2 DEF OneAfter
  <2>4. l < m \/ nodes[l].above \cap behind # {}
    BY <2>1, <2>2, <2>3 DEF TreeInv, SourceOrder
  <2> QED
    BY <2>1, <2>4
<1>3. ASSUME NEW n \in DOMAIN nodes, Clear(n) PROVE Clear(n)'
  <2> SUFFICES ASSUME NEW k \in DOMAIN nodes', NEW m \in DOMAIN nodes', OneAfter(n, k)',
                      IsLeaf(m)', k \in Up(nodes', m)
               PROVE  FALSE
    BY DEF Clear
  <2>1. /\ m \in DOMAIN nodes /\ IsLeaf(m) /\ k \in DOMAIN nodes /\ k \in Up(nodes, m)
        /\ nodes'[k] = nodes[k] /\ nodes'[n] = nodes[n]
    BY <1>1 DEF Leafless, Grown
  <2>2. OneAfter(n, k)
    BY <2>1 DEF OneAfter
  <2> QED
    BY <1>3, <2>1, <2>2 DEF Clear
<1>4. ASSUME NEW n \in DOMAIN nodes' \ DOMAIN nodes PROVE Clear(n)'
  <2> SUFFICES ASSUME NEW k \in DOMAIN nodes', NEW m \in DOMAIN nodes', OneAfter(n, k)',
                      IsLeaf(m)', k \in Up(nodes', m)
               PROVE  FALSE
    BY DEF Clear
  <2>1. k \in DOMAIN nodes /\ n < k
    BY <1>1 DEF OneAfter
  <2>2. n > Newest(nodes) /\ n \in Nat
    BY DEF Leafless, Grown, WellMade
  <2>3. k <= Newest(nodes) /\ k \in Nat /\ Newest(nodes) \in Nat
    BY <2>1, NewestIs DEF TreeInv
  <2> QED
    BY <2>1, <2>2, <2>3
<1> QED
  BY <1>2, <1>3, <1>4

(* What is clear: the style sheet, what is last, what is followed by rules  *)
(* that do not show.                                                        *)
LEMMA ClearNodes ==
    ASSUME WellMade(nodes), NEW n \in DOMAIN nodes
    PROVE  /\ LastSibling(nodes, n) \in DOMAIN nodes
           /\ nodes[LastSibling(nodes, n)].above = nodes[n].above
           /\ Clear(LastSibling(nodes, n))
           /\ ~HasFollowingSibling(nodes, n) => Clear(n)
<1> DEFINE last == LastSibling(nodes, n)
<1>1. DOMAIN nodes \subseteq Nat /\ IsFiniteSet(DOMAIN nodes)
  BY DEF WellMade
<1>2. /\ Siblings(nodes, n) \in SUBSET Nat /\ IsFiniteSet(Siblings(nodes, n))
      /\ n \in Siblings(nodes, n)
  BY <1>1, FS_Subset DEF Siblings
<1>3. last \in Siblings(nodes, n) /\ \A m \in Siblings(nodes, n) : last >= m
  BY <1>2, MaxIs DEF LastSibling
<1>4. last \in DOMAIN nodes /\ nodes[last].above = nodes[n].above
  BY <1>3 DEF Siblings
<1>5. Clear(last)
  <2> SUFFICES ASSUME NEW k \in DOMAIN nodes, OneAfter(last, k) PROVE FALSE
    BY DEF Clear
  <2>1. k \in Siblings(nodes, n) /\ last < k
    BY <1>4 DEF OneAfter, Siblings
  <2> QED
    BY <1>1, <1>3, <1>4, <2>1
<1>6. ASSUME ~HasFollowingSibling(nodes, n) PROVE Clear(n)
  <2> SUFFICES ASSUME NEW k \in DOMAIN nodes, OneAfter(n, k),
                      NEW m \in DOMAIN nodes, IsLeaf(m), k \in Up(nodes, m)
               PROVE  FALSE
    BY DEF Clear
  <2>1. k > n /\ k \in Siblings(nodes, n)
    BY <1>1 DEF OneAfter, Siblings
  <2>2. CASE n = Root
    <3>1. nodes[k].above = {}
      BY <2>2 DEF OneAfter, WellMade
    <3>2. k # Root
      BY <2>1, <2>2, <1>1
    <3> QED
      BY <3>1, <3>2 DEF WellMade
  <2>3. CASE n # Root
    <3>1. Invisible(nodes, k)
      BY <1>6, <2>1, <2>3 DEF HasFollowingSibling
    <3>2. nodes[m].kind \in {"style", "media", "supports", "block"}
      BY <3>1 DEF Invisible
    <3> QED
      BY <3>2 DEF IsLeaf, Parents
  <2> QED
    BY <2>2, <2>3
<1> HIDE DEF last
<1>7. last = LastSibling(nodes, n)
  BY DEF last
<1> QED
  BY <1>4, <1>5, <1>6, <1>7

-----------------------------------------------------------------------------
(* Where a statement goes                                                   *)

LEMMA ParentIs ==
    ASSUME TreeInv
    PROVE  /\ WellMade(nodes) /\ parent \in DOMAIN nodes /\ nodes[parent].kind \in Parents
           /\ parent # 0 /\ 0 \notin DOMAIN nodes
           /\ behind \subseteq DOMAIN nodes
           /\ Root \notin StyleRules
BY DEF TreeInv, WellMade, Held, InUse, StyleRules

(* The node a statement is added to, after what it bubbles through.         *)
LEMMA ThroughIs ==
    ASSUME TreeInv, NEW passed, Root \notin passed
    PROVE  /\ Through(passed) \in Up(nodes, parent) /\ Through(passed) \in DOMAIN nodes
           /\ nodes[Through(passed)].kind \in Parents
           /\ nodes[Through(passed)].above \subseteq nodes[parent].above
<1> DEFINE p == Through(passed)
           S == Up(nodes, parent) \ passed
<1>1. WellMade(nodes) /\ parent \in DOMAIN nodes /\ nodes[parent].kind \in Parents
  BY ParentIs
<1>2. Root \in Up(nodes, parent) /\ Up(nodes, parent) \subseteq DOMAIN nodes
  BY <1>1, UpIs
<1>3. S \in SUBSET Nat /\ IsFiniteSet(S) /\ S # {}
  BY <1>1, <1>2, FS_Subset DEF WellMade
<1>4. p \in S
  BY <1>3, MaxIs DEF Through
<1>5. p \in Up(nodes, parent) /\ p \in DOMAIN nodes
  BY <1>2, <1>4
<1> HIDE DEF p
<1>6. nodes[p].kind \in Parents /\ nodes[p].above \subseteq nodes[parent].above
  BY <1>1, <1>5 DEF Up, WellMade
<1> QED
  BY <1>5, <1>6 DEF p

(* Nothing that has a leaf follows the nodes it will be in, unless they are *)
(* left behind, or what follows is overlooked.                              *)
Placed(x) == x \in behind \/ Clear(x)

LEMMA Landing ==
    ASSUME TreeInv, NEW passed, Root \notin passed, NEW node, node.kind \in Parents
    PROVE  LET u == AddChildThrough(node, passed)
           IN  /\ Leafless(nodes, u) /\ Newest(u) \in DOMAIN u \ DOMAIN nodes
               /\ u[Newest(u)].kind = node.kind
               /\ \A x \in u[Newest(u)].above :
                    \/ x \notin DOMAIN nodes
                    \/ Placed(x)
                    \/ Overlooks(Through(passed)) /\ x = Through(passed)
<1> DEFINE p == Through(passed)
           last == LastSibling(nodes, p)
           u == AddChildThrough(node, passed)
<1>1. /\ p \in DOMAIN nodes /\ nodes[p].kind \in Parents
      /\ nodes[p].above \subseteq nodes[parent].above
  BY ThroughIs
<1>2. WellMade(nodes)
  BY DEF TreeInv
<1>3. /\ last \in DOMAIN nodes /\ nodes[last].above = nodes[p].above /\ Clear(last)
      /\ ~HasFollowingSibling(nodes, p) => Clear(p)
  BY <1>1, <1>2, ClearNodes
<1>4. \A x \in nodes[p].above : Placed(x)
  BY <1>1 DEF TreeInv, Spine, InUse, Placed
<1>5. p = Through(passed) /\ last = LastSibling(nodes, p)
  OBVIOUS
<1>6. u = IF HasFollowingSibling(nodes, p) /\ nodes[last].kind \in Parents
          THEN IF EqualsIgnoringChildren(nodes, p, last)
               THEN AddChild(nodes, last, node)
               ELSE AddChild(AddCopy(nodes, p), Newest(nodes) + 1, node)
          ELSE AddChild(nodes, p, node)
  BY DEF AddChildThrough
<1> HIDE DEF p, last, u
<1>7. CASE u = AddChild(nodes, p, node) /\ (HasFollowingSibling(nodes, p) => nodes[last].kind \notin Parents)
  <2>1. /\ Leafless(nodes, u) /\ Newest(u) \in DOMAIN u \ DOMAIN nodes
        /\ u[Newest(u)].kind = node.kind /\ u[Newest(u)].above = Up(nodes, p)
    BY <1>1, <1>2, <1>7, NewBlock
  <2>2. Placed(p) \/ Overlooks(p)
    BY <1>3, <1>5, <1>7 DEF Placed, Overlooks
  <2> QED
    BY <1>4, <1>5, <2>1, <2>2 DEF Up, u
<1>8. CASE u = AddChild(nodes, last, node) /\ nodes[last].kind \in Parents
  <2>1. /\ Leafless(nodes, u) /\ Newest(u) \in DOMAIN u \ DOMAIN nodes
        /\ u[Newest(u)].kind = node.kind /\ u[Newest(u)].above = Up(nodes, last)
    BY <1>2, <1>3, <1>8, NewBlock
  <2>2. Placed(last)
    BY <1>3 DEF Placed
  <2> QED
    BY <1>3, <1>4, <2>1, <2>2 DEF Up, u
<1>9. CASE u = AddChild(AddCopy(nodes, p), Newest(nodes) + 1, node) /\ HasFollowingSibling(nodes, p)
  <2> DEFINE t == AddCopy(nodes, p)
             c == Newest(nodes) + 1
  <2>1. p # Root
    BY <1>9 DEF HasFollowingSibling
  <2>2. /\ Leafless(nodes, t) /\ c \in DOMAIN t /\ c \notin DOMAIN nodes
        /\ t[c].above = nodes[p].above /\ t[c].kind \in Parents
    BY <1>1, <1>2, <2>1, AddCopyIs
  <2>3. WellMade(t) /\ DOMAIN nodes \subseteq DOMAIN t
    BY <2>2 DEF Leafless, Grown
  <2>4. u = AddChild(t, c, node)
    BY <1>9
  <2> HIDE DEF t, c
  <2>5. /\ Leafless(t, u) /\ Newest(u) \in DOMAIN u \ DOMAIN t
        /\ u[Newest(u)].kind = node.kind /\ u[Newest(u)].above = Up(t, c)
    BY <2>2, <2>3, <2>4, NewBlock
  <2>6. Leafless(nodes, u)
    BY <2>2, <2>5, GrownTwice DEF Leafless
  <2>7. \A x \in Up(t, c) : x \notin DOMAIN nodes \/ Placed(x)
    BY <1>4, <2>2 DEF Up
  <2> QED
    BY <2>3, <2>5, <2>6, <2>7 DEF u
<1> QED
  BY <1>6, <1>7, <1>8, <1>9

(* A block opens, and the visitor goes on in a node that has not been left. *)
LEMMA Opened ==
    ASSUME TreeInv, NEW stmt, NEW saved \in {0, parent}, Opening(stmt, saved)
    PROVE  /\ open' \in Seq(Range(open'))
           /\ Returns' \subseteq Returns \cup {parent}
           /\ \A i \in DOMAIN open' : open'[i].rule \in {rule} \cup {open[j].rule : j \in DOMAIN open}
           /\ \A i, j \in DOMAIN open' : i < j =>
                /\ i \in DOMAIN open /\ open'[i].parent = open[i].parent
                /\ \/ j \in DOMAIN open /\ open'[j].parent = open[j].parent
                   \/ open'[j].parent = saved
<1> DEFINE f == [stmt |-> stmt, parent |-> saved, rule |-> rule, atRoot |-> atRoot,
                 media |-> media, sources |-> sources, flags |-> flags]
           R == Range(open)
<1>1. open \in Seq(R)
  BY DEF TreeInv, Held
<1>2. open' = Append(open, f)
  BY DEF Opening
<1>3. f.parent = saved /\ f.rule = rule
  OBVIOUS
<1> HIDE DEF f, R
<1>4. open \in Seq(R \cup {f}) /\ open' \in Seq(R \cup {f})
  BY <1>1, <1>2
<1>5. /\ Len(open) \in Nat /\ DOMAIN open = 1..Len(open) /\ DOMAIN open' = 1..(Len(open) + 1)
      /\ \A i \in DOMAIN open : open'[i] = open[i]
      /\ open'[Len(open) + 1] = f
  BY <1>1, <1>2, <1>4
<1>6. \A i \in DOMAIN open' : i \in DOMAIN open \/ i = Len(open) + 1
  BY <1>5
<1>7. open' \in Seq(Range(open'))
  <2>1. Len(open') = Len(open) + 1
    BY <1>4, <1>5
  <2>2. open' \in [1..Len(open') -> Range(open')]
    BY <1>4, <1>5, <2>1 DEF Range
  <2> QED
    BY <2>1, <2>2, <1>5
<1>8. Returns' \subseteq Returns \cup {parent}
  BY <1>3, <1>5, <1>6 DEF Returns
<1>9. \A i \in DOMAIN open' : open'[i].rule \in {rule} \cup {open[j].rule : j \in DOMAIN open}
  BY <1>3, <1>5, <1>6
<1>10. ASSUME NEW i \in DOMAIN open', NEW j \in DOMAIN open', i < j
       PROVE  /\ i \in DOMAIN open /\ open'[i].parent = open[i].parent
              /\ \/ j \in DOMAIN open /\ open'[j].parent = open[j].parent
                 \/ open'[j].parent = saved
  BY <1>3, <1>5, <1>6, <1>10
<1> QED
  BY <1>7, <1>8, <1>9, <1>10

(* What the visitor leaves behind keeps the rest of the open blocks nested. *)
LEMMA BlockOpens ==
    ASSUME TreeInv, Leafless(nodes, nodes'),
           NEW unordered \in SUBSET DOMAIN nodes, GoesOn(unordered),
           NEW stmt, NEW saved \in {0, parent}, Opening(stmt, saved),
           parent' \in DOMAIN nodes', nodes'[parent'].kind \in Parents,
           rule' = rule \/ (rule' \in DOMAIN nodes' /\ nodes'[rule'].kind = "style"),
           \A x \in nodes'[parent'].above :
               x \notin DOMAIN nodes \/ Placed(x) \/ x \in unordered
    PROVE  TreeInv'
<1>1. /\ WellMade(nodes) /\ parent \in DOMAIN nodes /\ nodes[parent].kind \in Parents
      /\ parent # 0 /\ 0 \notin DOMAIN nodes /\ behind \subseteq DOMAIN nodes
  BY ParentIs
<1>2. /\ WellMade(nodes') /\ DOMAIN nodes \subseteq DOMAIN nodes'
      /\ \A n \in DOMAIN nodes : nodes'[n] = nodes[n]
  BY DEF Leafless, Grown
<1>3. behind \cup unordered \subseteq behind' /\ behind' \subseteq DOMAIN nodes
  <2>1. Up(nodes, parent) \subseteq DOMAIN nodes
    BY <1>1, UpIs
  <2> QED
    BY <1>1, <2>1 DEF GoesOn
<1>4. /\ open' \in Seq(Range(open'))
      /\ Returns' \subseteq Returns \cup {parent}
      /\ \A i \in DOMAIN open' : open'[i].rule \in {rule} \cup {open[j].rule : j \in DOMAIN open}
      /\ \A i, j \in DOMAIN open' : i < j =>
           /\ i \in DOMAIN open /\ open'[i].parent = open[i].parent
           /\ \/ j \in DOMAIN open /\ open'[j].parent = open[j].parent
              \/ open'[j].parent = saved
  BY Opened
<1>5. Returns \cup {parent} \subseteq DOMAIN nodes /\ \A n \in Returns \cup {parent} : nodes[n].kind \in Parents
  BY DEF TreeInv, Held, InUse
<1>6. Held'
  <2>1. (InUse \cup behind)' \subseteq DOMAIN nodes'
    BY <1>2, <1>3, <1>4, <1>5 DEF InUse
  <2>2. \A n \in InUse' : nodes'[n].kind \in Parents
    BY <1>2, <1>4, <1>5 DEF InUse
  <2>3. \A r \in {rule} \cup {open[i].rule : i \in DOMAIN open} :
           r = 0 \/ (r \in DOMAIN nodes' /\ nodes'[r].kind = "style")
    BY <1>2 DEF TreeInv, Held
  <2>4. \A r \in {rule'} \cup {open'[i].rule : i \in DOMAIN open'} :
           r = 0 \/ (r \in DOMAIN nodes' /\ nodes'[r].kind = "style")
    BY <1>4, <2>3
  <2>5. nodes'[Root].kind = "root"
    BY <1>1, <1>2 DEF TreeInv, Held, WellMade
  <2> QED
    BY <1>4, <2>1, <2>2, <2>4, <2>5 DEF Held
<1>7. ASSUME NEW q \in Returns' PROVE Encloses(q, parent)'
  <2>1. q \in DOMAIN nodes /\ nodes'[q] = nodes[q]
    BY <1>2, <1>4, <1>5
  <2>2. nodes[q].above \subseteq Up(nodes, parent) \cup behind
    BY <1>4 DEF TreeInv, Nested, Encloses, Up
  <2>3. ASSUME NEW x \in nodes[q].above PROVE x \in Up(nodes', parent') \cup behind'
    BY <1>3, <2>2 DEF GoesOn
  <2> QED
    BY <2>1, <2>3 DEF Encloses
<1>8. ASSUME NEW i \in DOMAIN open', NEW j \in DOMAIN open', i < j,
             open'[i].parent # 0, open'[j].parent # 0
      PROVE  nodes'[open'[i].parent].above \subseteq Up(nodes', open'[j].parent) \cup behind'
  <2> DEFINE a == open'[i].parent
             b == open'[j].parent
  <2>1. /\ i \in DOMAIN open /\ a = open[i].parent
        /\ (j \in DOMAIN open /\ b = open[j].parent) \/ b = saved
    BY <1>4, <1>8
  <2>2. a \in Returns
    BY <1>8, <2>1 DEF Returns
  <2>3. Encloses(a, b) /\ b \in Returns \cup {parent}
    <3>1. CASE j \in DOMAIN open /\ b = open[j].parent
      BY <1>8, <2>1, <3>1 DEF TreeInv, Nested, Returns
    <3>2. CASE b = saved
      BY <1>8, <2>2, <3>2 DEF TreeInv, Nested
    <3> QED
      BY <2>1, <3>1, <3>2
  <2>4. a \in DOMAIN nodes /\ b \in DOMAIN nodes
    BY <1>5, <2>2, <2>3
  <2> HIDE DEF a, b
  <2>5. nodes'[a].above = nodes[a].above /\ Up(nodes', b) = Up(nodes, b)
    BY <1>2, <2>4 DEF Up
  <2>6. nodes'[a].above \subseteq Up(nodes', b) \cup behind'
    BY <1>3, <2>3, <2>5 DEF Encloses
  <2>7. a = open'[i].parent /\ b = open'[j].parent
    BY DEF a, b
  <2> QED
    BY <2>6, <2>7
<1>9. Nested'
  BY <1>7, <1>8 DEF Nested, Encloses
<1>10. /\ SourceOrder'
       /\ \A n \in DOMAIN nodes : Clear(n) => Clear(n)'
       /\ \A n \in DOMAIN nodes' \ DOMAIN nodes : Clear(n)'
  BY <1>3, LeaflessGrowth
<1>11. ASSUME NEW q \in InUse', NEW n \in nodes'[q].above
       PROVE  n \in behind' \/ Clear(n)'
  <2>1. nodes'[q].above \subseteq DOMAIN nodes'
    BY <1>2, <1>6 DEF Held, WellMade
  <2>2. n \notin DOMAIN nodes \/ Placed(n) \/ n \in unordered
    <3>1. CASE q = parent'
      BY <1>11, <3>1
    <3>2. CASE q \in Returns \cup {parent}
      <4>1. n \in nodes[q].above
        BY <1>2, <1>5, <1>11, <3>2
      <4> QED
        BY <3>2, <4>1 DEF TreeInv, Spine, InUse, Placed
    <3> QED
      BY <1>4, <3>1, <3>2 DEF InUse
  <2> QED
    BY <1>3, <1>10, <2>1, <2>2 DEF Placed
<1>12. Spine'
  BY <1>11 DEF Spine
<1> QED
  BY <1>2, <1>6, <1>9, <1>10, <1>12 DEF TreeInv
-----------------------------------------------------------------------------
(* Statements that open a block                                             *)

LEMMA Bubbles ==
    ASSUME TreeInv, NEW passed, Root \notin passed, NEW node, node.kind \in Parents,
           nodes' = AddChildThrough(node, passed), parent' = Newest(nodes'),
           rule' = rule \/ (rule' = parent' /\ node.kind = "style"),
           NEW stmt, Opening(stmt, parent), LeavesBehind(passed)
    PROVE  TreeInv'
<1> DEFINE unordered == IF Overlooks(Through(passed)) THEN {Through(passed)} ELSE {}
<1>1. /\ Leafless(nodes, nodes') /\ parent' \in DOMAIN nodes' /\ nodes'[parent'].kind = node.kind
      /\ \A x \in nodes'[parent'].above : x \notin DOMAIN nodes \/ Placed(x) \/ x \in unordered
  BY Landing
<1>2. unordered \in SUBSET DOMAIN nodes
  BY ThroughIs
<1>3. GoesOn(unordered)
  BY DEF LeavesBehind
<1> HIDE DEF unordered
<1> QED
  BY <1>1, <1>2, <1>3, BlockOpens

LEMMA Enclosed ==
    ASSUME TreeInv, NEW passed, Root \notin passed, NEW node, node.kind \in Parents,
           Enclose(node, passed), rule' = rule,
           NEW stmt, Opening(stmt, parent), LeavesBehind(passed)
    PROVE  TreeInv'
<1> DEFINE unordered == IF Overlooks(Through(passed)) THEN {Through(passed)} ELSE {}
           t == AddChildThrough(node, passed)
           q == Newest(t)
<1>1. /\ Leafless(nodes, t) /\ q \in DOMAIN t \ DOMAIN nodes /\ t[q].kind = node.kind
      /\ \A x \in t[q].above : x \notin DOMAIN nodes \/ Placed(x) \/ x \in unordered
  BY Landing
<1>2. unordered \in SUBSET DOMAIN nodes
  BY ThroughIs
<1>3. GoesOn(unordered)
  BY DEF LeavesBehind
<1>4. /\ nodes' = IF StyleRule = 0 THEN t ELSE AddChild(t, q, t[StyleRule])
      /\ parent' = Newest(nodes')
  BY DEF Enclose
<1>5. q = Newest(t)
  OBVIOUS
<1> HIDE DEF unordered, t, q
<1>6. CASE StyleRule = 0
  BY <1>1, <1>2, <1>3, <1>4, <1>5, <1>6, BlockOpens
<1>7. CASE StyleRule # 0
  <2> DEFINE copy == t[StyleRule]
  <2>1. StyleRule \in DOMAIN nodes /\ nodes[StyleRule].kind = "style"
    BY <1>7 DEF StyleRule, TreeInv, Held
  <2>2. copy.kind = "style" /\ copy.kind \in Parents
    BY <1>1, <2>1 DEF Leafless, Grown, Parents
  <2>3. nodes' = AddChild(t, q, copy)
    BY <1>4, <1>7
  <2>4. WellMade(t) /\ q \in DOMAIN t /\ t[q].kind \in Parents
    BY <1>1 DEF Leafless, Grown
  <2> HIDE DEF copy
  <2>5. /\ Leafless(t, nodes') /\ parent' \in DOMAIN nodes' \ DOMAIN t
        /\ nodes'[parent'].kind = "style" /\ nodes'[parent'].above = Up(t, q)
    BY <1>4, <2>2, <2>3, <2>4, NewBlock
  <2>6. Leafless(nodes, nodes')
    BY <1>1, <2>5, GrownTwice DEF Leafless
  <2>7. \A x \in nodes'[parent'].above : x \notin DOMAIN nodes \/ Placed(x) \/ x \in unordered
    BY <1>1, <2>5 DEF Up
  <2>8. "style" \in Parents
    BY DEF Parents
  <2> QED
    BY <1>2, <1>3, <2>5, <2>6, <2>7, <2>8, BlockOpens
<1> QED
  BY <1>6, <1>7

LEMMA NodeIs == \A kind, sel, queries : Node(kind, sel, queries).kind = kind
BY DEF Node

LEMMA StyleRuleKeeps == ASSUME TreeInv, NEW label, VisitStyleRule(label) PROVE TreeInv'
<1> DEFINE sel == IF rule = 0 \/ atRoot THEN <<label>> ELSE Append(nodes[rule].sel, label)
           node == Node("style", sel, <<>>)
<1>1. /\ nodes' = AddChildThrough(node, StyleRules)
      /\ parent' = Newest(nodes') /\ rule' = Newest(nodes')
      /\ Opening([kind |-> "style", arg |-> label], parent)
      /\ LeavesBehind(StyleRules)
  BY DEF VisitStyleRule
<1>2. node.kind = "style" /\ node.kind \in Parents
  BY NodeIs DEF Parents
<1> HIDE DEF sel, node
<1> QED
  BY <1>1, <1>2, ParentIs, Bubbles

LEMMA KeyframeBlockKeeps == ASSUME TreeInv, VisitKeyframeBlock PROVE TreeInv'
<1> DEFINE node == Node("block", <<>>, <<>>)
<1>1. /\ nodes' = AddChildThrough(node, StyleRules)
      /\ parent' = Newest(nodes') /\ rule' = rule
      /\ Opening([kind |-> "block", arg |-> <<>>], parent)
      /\ LeavesBehind(StyleRules)
  BY DEF VisitKeyframeBlock
<1>2. node.kind \in Parents
  BY NodeIs DEF Parents
<1> HIDE DEF node
<1> QED
  BY <1>1, <1>2, ParentIs, Bubbles

LEMMA MediaRuleKeeps == ASSUME TreeInv, NEW queries, VisitMediaRule(queries) PROVE TreeInv'
<1> DEFINE css == MediaRule(queries)
           left == {n \in DOMAIN nodes : /\ nodes[n].kind = "media" /\ css.from # {}
                                         /\ Range(nodes[n].queries) \subseteq css.from}
           node == Node("media", <<>>, css.queries)
           passed == StyleRules \cup left
<1>1. /\ Enclose(node, passed) /\ rule' = rule
      /\ Opening([kind |-> "media", arg |-> queries], parent)
      /\ LeavesBehind(passed)
  BY DEF VisitMediaRule
<1>2. node.kind \in Parents
  BY NodeIs DEF Parents
<1>3. Root \notin passed
  BY ParentIs DEF TreeInv, Held
<1> HIDE DEF node, passed
<1> QED
  BY <1>1, <1>2, <1>3, Enclosed

LEMMA SupportsRuleKeeps == ASSUME TreeInv, VisitSupportsRule PROVE TreeInv'
<1> DEFINE node == Node("supports", <<>>, <<>>)
<1>1. /\ Enclose(node, StyleRules) /\ rule' = rule
      /\ Opening([kind |-> "supports", arg |-> <<>>], parent)
      /\ LeavesBehind(StyleRules)
  BY DEF VisitSupportsRule
<1>2. node.kind \in Parents
  BY NodeIs DEF Parents
<1> HIDE DEF node
<1> QED
  BY <1>1, <1>2, ParentIs, Enclosed

LEMMA AtRuleKeeps ==
    ASSUME TreeInv, NEW name \in {"unknown", "keyframes"}, VisitAtRule(name) PROVE TreeInv'
<1> DEFINE node == Node(name, <<>>, <<>>)
<1>1. /\ IF name = "keyframes"
         THEN nodes' = AddChildThrough(node, StyleRules) /\ parent' = Newest(nodes')
         ELSE Enclose(node, StyleRules)
      /\ rule' = rule
      /\ Opening([kind |-> name, arg |-> <<>>], parent)
      /\ LeavesBehind(StyleRules)
  BY DEF VisitAtRule
<1>2. node.kind \in Parents
  BY NodeIs DEF Parents
<1> HIDE DEF node
<1>3. CASE name = "keyframes"
  BY <1>1, <1>2, <1>3, ParentIs, Bubbles
<1>4. CASE name # "keyframes"
  BY <1>1, <1>2, <1>4, ParentIs, Enclosed
<1> QED
  BY <1>3, <1>4

(* The copies of the nodes an @at-root keeps.                               *)
LEMMA AddCopiesIs ==
    ASSUME WellMade(nodes), NEW root \in DOMAIN nodes, nodes[root].kind \in Parents,
           NEW included \in SUBSET DOMAIN nodes,
           \A n \in included : nodes[n].kind \in Parents
    PROVE  LET u == AddCopies(root, included)
           IN  /\ Leafless(nodes, u)
               /\ included # {} => /\ Newest(u) \in DOMAIN u
                                   /\ u[Newest(u)].kind \in Parents
                                   /\ \A x \in u[Newest(u)].above :
                                        x \notin DOMAIN nodes \/ x \in Up(nodes, root)
<1> DEFINE new == Newest(nodes)
           copies == {new + n : n \in included}
           u == AddCopies(root, included)
<1>1. new \in Nat /\ \A n \in DOMAIN nodes : n \in Nat \ {0} /\ n <= new
  BY NewestIs
<1>2. /\ Up(nodes, root) \subseteq DOMAIN nodes /\ Root \in Up(nodes, root)
      /\ \A m \in Up(nodes, root) : /\ nodes[m].kind \in Parents
                                     /\ nodes[m].above = {k \in Up(nodes, root) : k < m}
  <2>1. \A m \in Up(nodes, root) : nodes[m].kind \in Parents
    BY DEF WellMade, Up
  <2> QED
    BY <2>1, UpIs
<1>3. \A c \in copies : c \in Nat \ {0} /\ c > new /\ c \notin DOMAIN nodes
  BY <1>1
<1>4. IsFiniteSet(copies)
  <2>1. copies \in SUBSET (1..(new + new))
    BY <1>1
  <2>2. IsFiniteSet(1..(new + new))
    BY <1>1, FS_Interval
  <2> QED
    BY <2>1, <2>2, FS_Subset
<1>5. \A c \in copies : nodes[c - new].kind \in Parents
  <2> SUFFICES ASSUME NEW n \in included PROVE nodes[(new + n) - new].kind \in Parents
    OBVIOUS
  <2>1. (new + n) - new = n
    BY <1>1
  <2> QED
    BY <2>1
<1>6. /\ DOMAIN u = DOMAIN nodes \cup copies
      /\ \A n \in DOMAIN nodes : u[n] = nodes[n]
      /\ \A c \in copies : /\ u[c].kind \in Parents
                            /\ u[c].above = Up(nodes, root) \cup {k \in copies : k < c}
  <2>1. u = [m \in DOMAIN nodes \cup copies |->
               IF m \in DOMAIN nodes THEN nodes[m]
               ELSE Within(Up(nodes, root) \cup {k \in copies : k < m}, nodes[m - new])]
    BY DEF AddCopies
  <2> HIDE DEF u, copies, new
  <2> QED
    BY <2>1, <1>3, <1>5 DEF Within
<1>7. included # {} => copies # {}
  OBVIOUS
<1>8. new = Newest(nodes)
  OBVIOUS
<1> HIDE DEF u, copies, new
<1>9. IsFiniteSet(DOMAIN u)
  <2>1. IsFiniteSet(DOMAIN nodes)
    BY DEF WellMade
  <2>2. IsFiniteSet(DOMAIN nodes \cup copies)
    BY <1>4, <2>1, FS_Union, Zenon
  <2> QED
    BY <1>6, <2>2
<1>10. ASSUME NEW m \in DOMAIN u
       PROVE  /\ u[m].above \subseteq DOMAIN u
              /\ m # Root => Root \in u[m].above
              /\ \A k \in u[m].above :
                   /\ k < m /\ u[k].kind \in Parents
                   /\ u[k].above = {j \in u[m].above : j < k}
  <2>1. CASE m \in DOMAIN nodes
    <3>1. u[m] = nodes[m] /\ \A k \in nodes[m].above : u[k] = nodes[k]
      BY <2>1, <1>6 DEF WellMade
    <3> QED
      BY <2>1, <1>6, <3>1 DEF WellMade
  <2>2. CASE m \in copies
    <3>1. u[m].above = Up(nodes, root) \cup {k \in copies : k < m}
      BY <1>6, <2>2
    <3>2. u[m].above \subseteq DOMAIN u /\ Root \in u[m].above
      BY <1>2, <1>6, <3>1
    <3>3. ASSUME NEW k \in Up(nodes, root)
          PROVE  /\ k < m /\ u[k].kind \in Parents
                 /\ u[k].above = {j \in u[m].above : j < k}
      <4>1. k \in Nat /\ k <= new /\ u[k] = nodes[k]
        BY <1>1, <1>2, <1>6
      <4>2. k < m
        BY <1>1, <1>3, <2>2, <4>1
      <4>3. \A j \in copies : ~(j < k)
        BY <1>1, <1>3, <4>1
      <4>4. {j \in u[m].above : j < k} = {j \in Up(nodes, root) : j < k}
        BY <3>1, <4>3
      <4> QED
        BY <1>2, <4>1, <4>2, <4>4
    <3>4. ASSUME NEW k \in copies, k < m
          PROVE  /\ k < m /\ u[k].kind \in Parents
                 /\ u[k].above = {j \in u[m].above : j < k}
      <4>1. u[k].above = Up(nodes, root) \cup {j \in copies : j < k} /\ u[k].kind \in Parents
        BY <1>6
      <4>2. \A j \in Up(nodes, root) : j < k
        BY <1>1, <1>2, <1>3
      <4>3. \A j \in copies : j < k => j < m
        BY <1>3, <2>2, <3>4
      <4>4. {j \in u[m].above : j < k} = Up(nodes, root) \cup {j \in copies : j < k}
        BY <3>1, <4>2, <4>3
      <4> QED
        BY <3>4, <4>1, <4>4
    <3> QED
      BY <3>1, <3>2, <3>3, <3>4
  <2> QED
    BY <1>6, <2>1, <2>2
<1>11. WellMade(u)
  <2>1. DOMAIN u \subseteq Nat \ {0} /\ Root \in DOMAIN u /\ u[Root].above = {}
    BY <1>3, <1>6 DEF WellMade
  <2> QED
    BY <1>9, <1>10, <2>1 DEF WellMade
<1>12. Leafless(nodes, u)
  BY <1>3, <1>6, <1>8, <1>11 DEF Leafless, Grown
<1>13. ASSUME included # {}
       PROVE  /\ Newest(u) \in DOMAIN u
              /\ u[Newest(u)].kind \in Parents
              /\ \A x \in u[Newest(u)].above : x \notin DOMAIN nodes \/ x \in Up(nodes, root)
  <2>1. PICK c \in copies : TRUE
    BY <1>7, <1>13
  <2>2. Newest(u) \in DOMAIN u /\ Newest(u) \in Nat /\ c <= Newest(u)
    BY <1>6, <1>11, NewestIs
  <2>3. Newest(u) \in copies
    BY <1>1, <1>3, <1>6, <2>1, <2>2
  <2> QED
    BY <1>3, <1>6, <2>2, <2>3
<1> QED
  BY <1>12, <1>13 DEF u

LEMMA NothingChanged ==
    ASSUME TreeInv, UNCHANGED <<nodes, parent, rule, behind>>,
           NEW stmt, NEW saved \in {0, parent}, Opening(stmt, saved)
    PROVE  TreeInv'
<1>1. WellMade(nodes) /\ parent \in DOMAIN nodes /\ nodes[parent].kind \in Parents
  BY ParentIs
<1>2. Leafless(nodes, nodes')
  BY <1>1 DEF Leafless, Grown
<1>3. GoesOn({})
  BY DEF GoesOn
<1>4. \A x \in nodes[parent].above : Placed(x)
  BY DEF TreeInv, Spine, InUse, Placed
<1> QED
  BY <1>1, <1>2, <1>3, <1>4, BlockOpens

LEMMA NestedDeclarationsKeep == ASSUME TreeInv, VisitNestedDeclarations PROVE TreeInv'
BY NothingChanged DEF VisitNestedDeclarations

LEMMA AtRootRuleKeeps == ASSUME TreeInv, NEW query, VisitAtRootRule(query) PROVE TreeInv'
<1> DEFINE trim == TrimIncluded(query)
           stmt == [kind |-> "at-root", arg |-> query]
<1>1. CASE /\ trim.root = parent /\ Opening(stmt, 0)
           /\ UNCHANGED <<nodes, parent, rule, behind>>
  BY <1>1, NothingChanged
<1>2. CASE /\ trim.root # parent /\ Opening(stmt, parent) /\ rule' = rule
           /\ nodes' = AddCopies(trim.root, trim.included)
           /\ parent' = IF trim.included = {} THEN trim.root ELSE Newest(nodes')
           /\ GoesOn({})
  <2> DEFINE root == trim.root
             included == trim.included
             up == Up(nodes, parent) \ {Root}
             inTree == {n \in up : \A m \in up : m <= n => ~Excludes(query, m)}
  <2>1. WellMade(nodes) /\ parent \in DOMAIN nodes /\ nodes[parent].kind \in Parents
    BY ParentIs
  <2>2. /\ Up(nodes, parent) \subseteq DOMAIN nodes /\ Root \in Up(nodes, parent)
        /\ DOMAIN nodes \subseteq Nat /\ IsFiniteSet(DOMAIN nodes)
    BY <2>1, UpIs DEF WellMade
  <2>3. root = Max(inTree \cup {Root}) /\ included \subseteq up
    BY DEF TrimIncluded
  <2>4. root \in Up(nodes, parent)
    <3>1. inTree \cup {Root} \subseteq Up(nodes, parent)
      BY <2>2
    <3> HIDE DEF inTree
    <3>2. inTree \cup {Root} \in SUBSET Nat /\ IsFiniteSet(inTree \cup {Root})
      BY <2>2, <3>1, FS_Subset
    <3> QED
      BY <2>3, <3>1, <3>2, MaxIs
  <2>5. \A n \in Up(nodes, parent) : nodes[n].kind \in Parents
    BY <2>1 DEF Up, WellMade
  <2>6. root \in nodes[parent].above /\ Up(nodes, root) \subseteq nodes[parent].above
    <3>1. root \in nodes[parent].above
      BY <1>2, <2>4 DEF Up
    <3> HIDE DEF root
    <3>2. nodes[root].above \subseteq nodes[parent].above
      BY <2>1, <3>1 DEF WellMade
    <3> QED
      BY <3>1, <3>2 DEF Up
  <2>7. \A x \in Up(nodes, root) : Placed(x)
    BY <2>6 DEF TreeInv, Spine, InUse, Placed
  <2>8. /\ nodes' = AddCopies(root, included) /\ Opening(stmt, parent)
        /\ parent' = IF included = {} THEN root ELSE Newest(nodes')
    BY <1>2
  <2>9. /\ root \in DOMAIN nodes /\ nodes[root].kind \in Parents
        /\ included \in SUBSET DOMAIN nodes /\ \A n \in included : nodes[n].kind \in Parents
    BY <2>2, <2>3, <2>4, <2>5
  <2> HIDE DEF root, included, stmt
  <2>10. /\ Leafless(nodes, nodes')
         /\ included # {} => /\ Newest(nodes') \in DOMAIN nodes'
                             /\ nodes'[Newest(nodes')].kind \in Parents
                             /\ \A x \in nodes'[Newest(nodes')].above :
                                  x \notin DOMAIN nodes \/ x \in Up(nodes, root)
    BY <2>1, <2>8, <2>9, AddCopiesIs
  <2>11. /\ parent' \in DOMAIN nodes' /\ nodes'[parent'].kind \in Parents
         /\ \A x \in nodes'[parent'].above : x \notin DOMAIN nodes \/ Placed(x)
    <3>1. CASE included = {}
      <4>1. parent' = root /\ nodes'[root] = nodes[root] /\ root \in DOMAIN nodes'
        BY <2>8, <2>9, <2>10, <3>1 DEF Leafless, Grown
      <4> QED
        BY <2>7, <2>9, <4>1 DEF Up
    <3>2. CASE included # {}
      BY <2>7, <2>8, <2>10, <3>2
    <3> QED
      BY <3>1, <3>2
  <2> QED
    BY <1>2, <2>8, <2>10, <2>11, BlockOpens
<1> QED
  BY <1>1, <1>2 DEF VisitAtRootRule
-----------------------------------------------------------------------------
(* Leaves, and the end of a block                                           *)

LEMMA EmitKeeps ==
    ASSUME TreeInv, NEW kind, kind \notin Parents, Emit(kind) PROVE TreeInv'
<1> DEFINE t == CopyParentAfterSibling
           leaf == Node(kind, <<>>, <<>>)
           z == Newest(t) + 1
<1>1. /\ parent' = (IF NeedsCopy THEN Newest(t) ELSE parent)
      /\ nodes' = AddChild(t, parent', leaf)
      /\ UNCHANGED <<rule, open>>
      /\ GoesOn({})
  BY DEF Emit
<1>2. /\ WellMade(nodes) /\ parent \in DOMAIN nodes /\ nodes[parent].kind \in Parents
      /\ behind \subseteq DOMAIN nodes
  BY ParentIs
<1>3. leaf.kind \notin Parents
  BY NodeIs
<1>4. /\ Leafless(nodes, t) /\ parent' \in DOMAIN t /\ t[parent'].kind \in Parents
      /\ t[parent'].above = nodes[parent].above
      /\ \A k \in DOMAIN t : t[k].above = t[parent'].above => ~(parent' < k)
  <2>1. CASE NeedsCopy
    <3>1. t = AddCopy(nodes, parent) /\ parent' = Newest(t) /\ parent # Root
      BY <1>1, <2>1 DEF CopyParentAfterSibling, NeedsCopy
    <3> HIDE DEF t
    <3>2. /\ Leafless(nodes, t) /\ parent' \in DOMAIN t /\ t[parent'].kind \in Parents
          /\ t[parent'].above = nodes[parent].above
      BY <1>2, <3>1, AddCopyIs
    <3>3. \A k \in DOMAIN t : k \in Nat /\ k <= parent'
      BY <3>1, <3>2, NewestIs DEF Leafless, Grown
    <3> QED
      BY <3>2, <3>3
  <2>2. CASE ~NeedsCopy
    <3>1. t = nodes /\ parent' = parent
      BY <1>1, <2>2 DEF CopyParentAfterSibling
    <3>2. Leafless(nodes, nodes)
      BY <1>2 DEF Leafless, Grown
    <3>3. ASSUME NEW k \in DOMAIN nodes, nodes[k].above = nodes[parent].above PROVE ~(parent < k)
      <4>1. DOMAIN nodes \subseteq Nat /\ IsFiniteSet(DOMAIN nodes)
        BY <1>2 DEF WellMade
      <4>2. CASE parent = Root
        BY <1>2, <3>3, <4>1, <4>2 DEF WellMade
      <4>3. CASE LastSibling(nodes, parent) = parent
        <5>1. /\ Siblings(nodes, parent) \in SUBSET Nat /\ IsFiniteSet(Siblings(nodes, parent))
              /\ k \in Siblings(nodes, parent)
          BY <3>3, <4>1, FS_Subset DEF Siblings
        <5>2. parent >= k
          BY <4>3, <5>1, MaxIs DEF LastSibling
        <5> QED
          BY <1>2, <4>1, <5>2
      <4> QED
        BY <2>2, <4>2, <4>3 DEF NeedsCopy
    <3> QED
      BY <1>2, <3>1, <3>2, <3>3
  <2> QED
    BY <2>1, <2>2
<1>5. z = Newest(t) + 1
  OBVIOUS
<1> HIDE DEF t, leaf, z
<1>6. WellMade(t) /\ DOMAIN nodes \subseteq DOMAIN t /\ \A n \in DOMAIN nodes : t[n] = nodes[n]
  BY <1>4 DEF Leafless, Grown
<1>7. /\ Grown(t, nodes') /\ DOMAIN nodes' = DOMAIN t \cup {z} /\ z \notin DOMAIN t
      /\ nodes'[z].above = Up(t, parent') /\ nodes'[z].kind = leaf.kind
  BY <1>1, <1>4, <1>5, <1>6, AddChildIs
<1>8. /\ WellMade(nodes') /\ \A n \in DOMAIN t : nodes'[n] = t[n]
      /\ \A n \in DOMAIN t : n \in Nat /\ n < z
      /\ z \in Nat
  BY <1>5, <1>6, <1>7, NewestIs DEF Grown
<1>9. \A n \in DOMAIN nodes : n \in DOMAIN nodes' /\ nodes'[n] = nodes[n]
  BY <1>6, <1>7, <1>8
<1>10. Returns' = Returns /\ Returns \subseteq DOMAIN nodes
  BY <1>1 DEF Returns, TreeInv, Held, InUse
<1>11. behind \subseteq behind' /\ behind' \subseteq DOMAIN nodes
  <2>1. Up(nodes, parent) \subseteq DOMAIN nodes
    BY <1>2, UpIs
  <2> QED
    BY <1>1, <1>2, <2>1 DEF GoesOn
<1>12. Up(nodes', parent') = Up(t, parent') /\ Up(t, parent') \subseteq Up(nodes', z)
  BY <1>4, <1>7, <1>8 DEF Up
<1>13. Held'
  <2>1. (InUse \cup behind)' \subseteq DOMAIN nodes'
    BY <1>4, <1>7, <1>9, <1>10, <1>11 DEF InUse
  <2>2. \A n \in InUse' : nodes'[n].kind \in Parents
    BY <1>4, <1>8, <1>9, <1>10 DEF InUse, TreeInv, Held
  <2>3. \A r \in ({rule} \cup {open[i].rule : i \in DOMAIN open})' :
           r = 0 \/ (r \in DOMAIN nodes' /\ nodes'[r].kind = "style")
    BY <1>1, <1>9 DEF TreeInv, Held
  <2>4. nodes'[Root].kind = "root" /\ open' \in Seq(Range(open'))
    BY <1>1, <1>2, <1>9 DEF TreeInv, Held, WellMade
  <2> QED
    BY <2>1, <2>2, <2>3, <2>4 DEF Held
<1>14. ASSUME NEW q \in Returns PROVE nodes[q].above \subseteq Up(nodes', parent') \cup behind'
  <2>1. nodes[q].above \subseteq Up(nodes, parent) \cup behind
    BY DEF TreeInv, Nested, Encloses
  <2>2. ASSUME NEW x \in nodes[q].above PROVE x \in Up(nodes', parent') \cup behind'
    BY <1>1, <1>10, <1>11, <2>1 DEF GoesOn
  <2> QED
    BY <2>2
<1>15. Nested'
  <2>1. \A q \in Returns' : nodes'[q].above \subseteq Up(nodes', parent') \cup behind'
    BY <1>9, <1>10, <1>14
  <2>2. ASSUME NEW i \in DOMAIN open, NEW j \in DOMAIN open,
               i < j, open[i].parent # 0, open[j].parent # 0
        PROVE  nodes'[open[i].parent].above \subseteq Up(nodes', open[j].parent) \cup behind'
    <3>1. nodes[open[i].parent].above \subseteq Up(nodes, open[j].parent) \cup behind
      BY <2>2 DEF TreeInv, Nested, Encloses
    <3>2. open[i].parent \in DOMAIN nodes /\ open[j].parent \in DOMAIN nodes
      BY <1>10, <2>2 DEF Returns
    <3>3. /\ nodes'[open[i].parent].above = nodes[open[i].parent].above
          /\ Up(nodes', open[j].parent) = Up(nodes, open[j].parent)
      BY <1>9, <3>2 DEF Up
    <3> QED
      BY <1>11, <3>1, <3>3
  <2> QED
    BY <1>1, <2>1, <2>2 DEF Nested, Encloses
<1>16. ASSUME NEW l \in DOMAIN nodes', IsLeaf(l)', l # z, NEW k \in Up(nodes', l)
       PROVE  /\ l \in DOMAIN nodes /\ IsLeaf(l) /\ k \in DOMAIN nodes /\ k \in Up(nodes, l)
              /\ nodes'[k] = nodes[k] /\ nodes'[l] = nodes[l]
  <2>1. l \in DOMAIN t /\ t[l].kind \notin Parents /\ Up(nodes', l) = Up(t, l)
    BY <1>7, <1>8, <1>16 DEF IsLeaf, Up
  <2> QED
    BY <1>4, <1>9, <2>1, OldLeaf DEF IsLeaf
<1>17. SourceOrder'
  <2> SUFFICES ASSUME NEW k \in DOMAIN nodes', NEW n \in DOMAIN nodes', OneAfter(k, n)',
                      NEW l \in DOMAIN nodes', NEW m \in DOMAIN nodes',
                      IsLeaf(l)', k \in Up(nodes', l), IsLeaf(m)', n \in Up(nodes', m)
               PROVE  l < m \/ nodes'[l].above \cap behind' # {}
    BY DEF SourceOrder
  <2>1. k < n /\ nodes'[k].above = nodes'[n].above /\ k \in Nat /\ n \in Nat
    BY <1>8 DEF OneAfter, WellMade
  <2>2. CASE l = z /\ m = z
    BY <1>8, <2>1, <2>2, OneWayUp
  <2>3. CASE l # z /\ m = z
    BY <1>7, <1>8, <2>3
  <2>4. CASE l # z /\ m # z
    <3>1. /\ l \in DOMAIN nodes /\ IsLeaf(l) /\ k \in DOMAIN nodes /\ k \in Up(nodes, l)
          /\ nodes'[k] = nodes[k] /\ nodes'[l] = nodes[l]
      BY <1>16, <2>4
    <3>2. /\ m \in DOMAIN nodes /\ IsLeaf(m) /\ n \in DOMAIN nodes /\ n \in Up(nodes, m)
          /\ nodes'[n] = nodes[n]
      BY <1>16, <2>4
    <3>3. OneAfter(k, n)
      BY <2>1, <3>1, <3>2 DEF OneAfter
    <3>4. l < m \/ nodes[l].above \cap behind # {}
      BY <3>1, <3>2, <3>3 DEF TreeInv, SourceOrder
    <3> QED
      BY <1>11, <3>1, <3>4
  <2>5. CASE l = z /\ m # z
    <3>1. /\ m \in DOMAIN nodes /\ IsLeaf(m) /\ n \in DOMAIN nodes /\ n \in Up(nodes, m)
          /\ nodes'[n] = nodes[n] /\ n \in DOMAIN t /\ t[n] = nodes[n]
      BY <1>6, <1>16, <2>5
    <3>2. k # z
      BY <1>8, <2>1, <3>1
    <3>3. k \in Up(t, parent')
      BY <1>7, <2>5, <3>2 DEF Up
    <3>4. k # parent'
      BY <1>4, <1>8, <2>1, <3>1
    <3>5. k \in nodes[parent].above
      BY <1>4, <3>3, <3>4 DEF Up
    <3>6. k \in DOMAIN nodes /\ nodes'[k] = nodes[k]
      BY <1>2, <1>9, <3>5 DEF WellMade
    <3>7. OneAfter(k, n)
      BY <2>1, <3>1, <3>6 DEF OneAfter
    <3>8. k \in behind
      BY <3>1, <3>5, <3>7 DEF TreeInv, Spine, InUse, Clear
    <3>9. k \in nodes'[l].above
      BY <1>7, <2>5, <3>3
    <3> QED
      BY <1>11, <3>8, <3>9
  <2> QED
    BY <2>2, <2>3, <2>4, <2>5
<1>18. ASSUME NEW q \in InUse', NEW n \in nodes'[q].above, n \notin behind'
       PROVE  Clear(n)'
  <2>1. PICK q0 \in InUse : nodes'[q].above = nodes[q0].above
    <3>1. CASE q = parent'
      BY <1>4, <1>8, <3>1 DEF InUse
    <3>2. CASE q \in Returns
      BY <1>9, <1>10, <3>2 DEF InUse
    <3> QED
      BY <1>10, <3>1, <3>2 DEF InUse
  <2>2. Clear(n) /\ n \in DOMAIN nodes
    <3>1. q0 \in DOMAIN nodes
      BY <2>1 DEF TreeInv, Held
    <3> QED
      BY <1>2, <1>11, <1>18, <2>1, <3>1 DEF TreeInv, Spine, WellMade
  <2>3. n \in Up(nodes', z)
    <3>1. n \in Up(nodes', parent')
      <4>1. CASE q = parent'
        BY <4>1 DEF Up
      <4>2. CASE q \in Returns
        BY <1>9, <1>10, <1>14, <1>18, <4>2
      <4> QED
        BY <1>10, <4>1, <4>2 DEF InUse
    <3> QED
      BY <1>12, <3>1
  <2> SUFFICES ASSUME NEW k \in DOMAIN nodes', NEW m \in DOMAIN nodes', OneAfter(n, k)',
                      IsLeaf(m)', k \in Up(nodes', m)
               PROVE  FALSE
    BY DEF Clear
  <2>4. n < k /\ nodes'[n].above = nodes'[k].above /\ n \in Nat /\ k \in Nat
    BY <1>8, <1>9, <2>2 DEF OneAfter, WellMade
  <2>5. CASE m = z
    <3>1. z \in DOMAIN nodes'
      BY <1>7
    <3> QED
      BY <1>8, <2>3, <2>4, <2>5, <3>1, OneWayUp
  <2>6. CASE m # z
    <3>1. /\ m \in DOMAIN nodes /\ IsLeaf(m) /\ k \in DOMAIN nodes /\ k \in Up(nodes, m)
          /\ nodes'[k] = nodes[k]
      BY <1>16, <2>6
    <3>2. OneAfter(n, k)
      BY <1>9, <2>2, <2>4, <3>1 DEF OneAfter
    <3> QED
      BY <2>2, <3>1, <3>2 DEF Clear
  <2> QED
    BY <2>5, <2>6
<1>19. Spine'
  BY <1>18 DEF Spine
<1> QED
  BY <1>8, <1>13, <1>15, <1>17, <1>19 DEF TreeInv

LEMMA CloseKeeps == ASSUME TreeInv, Close PROVE TreeInv'
<1> DEFINE f == Last(open)
           R == Range(open)
<1>1. /\ open # <<>> /\ open' = Front(open) /\ UNCHANGED <<nodes, behind>>
      /\ parent' = (IF f.parent = 0 THEN parent ELSE f.parent)
      /\ rule' = f.rule
  BY DEF Close
<1>2. open \in Seq(R)
  BY DEF TreeInv, Held
<1>3. f = open[Len(open)]
  BY DEF Last
<1> HIDE DEF f, R
<1>4. /\ Len(open) \in Nat \ {0} /\ DOMAIN open = 1..Len(open)
      /\ open' = [i \in 1..(Len(open) - 1) |-> open[i]]
  BY <1>1, <1>2 DEF Front
<1>5. /\ DOMAIN open' = 1..(Len(open) - 1)
      /\ \A i \in DOMAIN open' : i \in DOMAIN open /\ open'[i] = open[i]
      /\ Len(open) \in DOMAIN open
  BY <1>4
<1>6. open' \in Seq(Range(open'))
  <2>1. open' \in [1..(Len(open) - 1) -> Range(open')] /\ Len(open) - 1 \in Nat
    BY <1>4, <1>5 DEF Range
  <2> QED
    BY <2>1
<1>7. Returns' \subseteq Returns /\ (f.parent # 0 => f.parent \in Returns) /\ parent' \in InUse
  BY <1>1, <1>3, <1>5 DEF Returns, InUse
<1>8. InUse' \subseteq InUse
  BY <1>7 DEF InUse
<1>9. Held'
  <2>1. \A r \in ({rule} \cup {open[i].rule : i \in DOMAIN open})' :
           r \in {rule} \cup {open[i].rule : i \in DOMAIN open}
    BY <1>1, <1>3, <1>5
  <2> QED
    BY <1>1, <1>6, <1>8, <2>1 DEF TreeInv, Held
<1>10. ASSUME NEW q \in Returns' PROVE nodes[q].above \subseteq Up(nodes, parent') \cup behind
  <2>1. CASE f.parent = 0
    BY <1>1, <1>7, <2>1 DEF TreeInv, Nested, Encloses
  <2>2. CASE f.parent # 0
    <3>1. PICK i \in DOMAIN open' : q = open'[i].parent /\ open'[i].parent # 0
      BY DEF Returns
    <3>2. i \in DOMAIN open /\ open[i].parent = q /\ q # 0 /\ i < Len(open)
      BY <1>4, <1>5, <3>1
    <3>3. open[Len(open)].parent # 0 /\ parent' = open[Len(open)].parent
      BY <1>1, <1>3, <2>2
    <3> QED
      BY <1>5, <3>2, <3>3 DEF TreeInv, Nested, Encloses
  <2> QED
    BY <2>1, <2>2
<1>11. Nested'
  <2>1. ASSUME NEW i \in DOMAIN open', NEW j \in DOMAIN open', i < j,
               open'[i].parent # 0, open'[j].parent # 0
        PROVE  nodes[open'[i].parent].above \subseteq Up(nodes, open'[j].parent) \cup behind
    BY <1>5, <2>1 DEF TreeInv, Nested, Encloses
  <2> QED
    BY <1>1, <1>10, <2>1 DEF Nested, Encloses
<1>12. Spine' /\ SourceOrder'
  BY <1>1, <1>8 DEF TreeInv, Spine, SourceOrder, Clear, OneAfter, IsLeaf
<1> QED
  BY <1>1, <1>9, <1>11, <1>12 DEF TreeInv
-----------------------------------------------------------------------------
LEMMA InitTree == Init => TreeInv
<1> SUFFICES ASSUME Init PROVE TreeInv
  OBVIOUS
<1>1. /\ nodes = [n \in {Root} |-> Node("root", <<>>, <<>>)]
      /\ parent = Root /\ rule = 0 /\ open = <<>> /\ behind = {} /\ Root = 1
  BY DEF Init, Root
<1>2. DOMAIN nodes = {1} /\ nodes[1].kind = "root" /\ nodes[1].above = {}
  BY <1>1 DEF Node
<1>3. IsFiniteSet({1})
  BY FS_Singleton
<1>4. WellMade(nodes)
  BY <1>1, <1>2, <1>3 DEF WellMade
<1>5. Returns = {} /\ InUse = {1}
  BY <1>1 DEF Returns, InUse
<1>6. Held
  <2>1. open \in Seq(Range(open)) /\ DOMAIN open = {}
    BY <1>1
  <2>2. "root" \in Parents
    BY DEF Parents
  <2> QED
    BY <1>1, <1>2, <1>5, <2>1, <2>2 DEF Held
<1>7. Nested
  BY <1>1, <1>5 DEF Nested
<1>8. Spine
  BY <1>2, <1>5 DEF Spine
<1>9. SourceOrder
  <2>1. \A k, n \in DOMAIN nodes : ~OneAfter(k, n)
    BY <1>2 DEF OneAfter
  <2> QED
    BY <2>1 DEF SourceOrder
<1> QED
  BY <1>4, <1>6, <1>7, <1>8, <1>9 DEF TreeInv

LEMMA TreeInductive == TreeInv /\ [Next]_vars => TreeInv'
<1> SUFFICES ASSUME TreeInv, [Next]_vars PROVE TreeInv'
  OBVIOUS
<1>1. ASSUME NEW l \in Labels, VisitStyleRule(l) PROVE TreeInv'
  BY <1>1, StyleRuleKeeps
<1>2. CASE VisitKeyframeBlock
  BY <1>2, KeyframeBlockKeeps
<1>3. ASSUME NEW q \in MediaLists, VisitMediaRule(q) PROVE TreeInv'
  BY <1>3, MediaRuleKeeps
<1>4. CASE VisitSupportsRule
  BY <1>4, SupportsRuleKeeps
<1>5. ASSUME NEW name \in {"unknown", "keyframes"}, VisitAtRule(name) PROVE TreeInv'
  BY <1>5, AtRuleKeeps
<1>6. ASSUME NEW q \in AtRootQueries, VisitAtRootRule(q) PROVE TreeInv'
  BY <1>6, AtRootRuleKeeps
<1>7. CASE VisitDeclaration
  BY <1>7, EmitKeeps DEF VisitDeclaration, Parents
<1>8. CASE VisitNestedDeclarations
  BY <1>8, NestedDeclarationsKeep
<1>9. CASE VisitLoudComment
  BY <1>9, EmitKeeps DEF VisitLoudComment, Parents
<1>10. CASE Close
  BY <1>10, CloseKeeps
<1>11. CASE UNCHANGED vars
  BY <1>11 DEF vars, visitor, TreeInv, WellMade, Held, Nested, Encloses, Spine, Clear, SourceOrder,
              OneAfter, IsLeaf, InUse, Returns, Up
<1> QED
  BY <1>1, <1>2, <1>3, <1>4, <1>5, <1>6, <1>7, <1>8, <1>9, <1>10, <1>11 DEF Next

(* In the CSS of every style sheet, declarations and comments come out in   *)
(* the order they were evaluated, whatever rules were left, copied or       *)
(* merged between them, except in nodes the visitor went past while a block *)
(* in them was open (copyParentAfterSibling, addChildThrough).              *)
THEOREM LeavesInOrder == Spec => []SourceOrder
<1>1. TreeInv => SourceOrder
  BY DEF TreeInv
<1> QED
  BY <1>1, InitTree, TreeInductive, PTL DEF Spec
-----------------------------------------------------------------------------
(* Where nothing is left behind                                             *)

(* No @at-root is open, and no @media that was merged into one around it.   *)
Plain == sources = {} /\ \A i \in DOMAIN open : open[i].stmt.kind # "at-root"

Rules(t) == {n \in DOMAIN t : t[n].kind = "style"}
IsLast(t, n) == \A k \in DOMAIN t : n < k => t[k].above # t[n].above

(* Nothing that can have children is in a style rule.  The at-rules around  *)
(* the open blocks are around the visitor, and nothing follows them.        *)
Flat(t) == \A n \in DOMAIN t : t[n].kind \in Parents => t[n].above \cap Rules(t) = {}
Inner(q, p) == Up(nodes, q) \subseteq Up(nodes, p) \cup Rules(nodes)
Straight ==
    /\ \A q \in Returns : Inner(q, parent)
    /\ \A i, j \in DOMAIN open :
         i < j /\ open[i].parent # 0 /\ open[j].parent # 0 => Inner(open[i].parent, open[j].parent)
Tip == \A n \in Up(nodes, parent) \ Rules(nodes) : IsLast(nodes, n)

PlainInv == TreeInv /\ Flat(nodes) /\ Straight /\ Tip /\ behind = {}

LEMMA NotAbove == ASSUME NEW t, WellMade(t), NEW n \in DOMAIN t PROVE n \notin t[n].above
BY DEF WellMade

(* A node put into a spine without style rules is a spine.                  *)
LEMMA SpineGrows ==
    ASSUME NEW t, WellMade(t), Flat(t), NEW x \in DOMAIN t \ Rules(t), t[x].kind \in Parents,
           \A n \in Up(t, x) \ Rules(t) : IsLast(t, n),
           NEW node, NEW u, u = AddChild(t, x, node)
    PROVE  /\ Grown(t, u) /\ Flat(u)
           /\ Newest(u) \in DOMAIN u \ DOMAIN t /\ u[Newest(u)].kind = node.kind
           /\ Up(t, x) \subseteq Up(u, Newest(u))
           /\ \A n \in Up(u, Newest(u)) \ Rules(u) : IsLast(u, n)
<1> DEFINE z == Newest(t) + 1
<1>1. /\ Grown(t, u) /\ DOMAIN u = DOMAIN t \cup {z} /\ Newest(u) = z /\ z \notin DOMAIN t
      /\ u[z].above = Up(t, x) /\ u[z].kind = node.kind
  BY AddChildIs
<1> HIDE DEF z
<1>2. /\ WellMade(u) /\ \A n \in DOMAIN t : u[n] = t[n]
      /\ \A n \in DOMAIN t : t[n].above \subseteq DOMAIN t
      /\ DOMAIN u \subseteq Nat /\ \A n \in DOMAIN t : n < z
  BY <1>1, NewestIs DEF Grown, WellMade
<1>3. \A n \in DOMAIN t : n \in Rules(u) <=> n \in Rules(t)
  BY <1>1, <1>2 DEF Rules
<1>4. Up(t, x) \cap Rules(t) = {} /\ Up(t, x) \subseteq DOMAIN t
  BY UpIs DEF Up, Flat
<1>5. Flat(u)
  <2> SUFFICES ASSUME NEW n \in DOMAIN u, u[n].kind \in Parents PROVE u[n].above \cap Rules(u) = {}
    BY DEF Flat
  <2>1. CASE n \in DOMAIN t
    BY <1>2, <1>3, <2>1 DEF Flat
  <2>2. CASE n = z
    BY <1>1, <1>3, <1>4, <2>2
  <2> QED
    BY <1>1, <2>1, <2>2
<1>6. Up(u, z) = {z} \cup Up(t, x)
  BY <1>1 DEF Up
<1>7. ASSUME NEW n \in Up(u, z) PROVE IsLast(u, n)
  <2>1. CASE n = z
    BY <1>1, <1>2, <2>1 DEF IsLast
  <2>2. CASE n \in Up(t, x)
    <3>1. n \in DOMAIN t /\ IsLast(t, n) /\ u[n] = t[n]
      BY <1>2, <1>4, <2>2
    <3>2. u[z].above # u[n].above
      BY <1>1, <2>2, <3>1, NotAbove
    <3> QED
      BY <1>1, <1>2, <3>1, <3>2 DEF IsLast
  <2> QED
    BY <1>6, <2>1, <2>2
<1> QED
  BY <1>1, <1>5, <1>6, <1>7

(* Of a spine a block leaves style rules only, which nothing in use is in.  *)
LEMMA PlainOpens ==
    ASSUME PlainInv, TreeInv', Grown(nodes, nodes'), Flat(nodes'), GoesOn({}),
           NEW stmt, NEW saved \in {0, parent}, Opening(stmt, saved),
           Up(nodes, parent) \subseteq Up(nodes', parent') \cup Rules(nodes), Tip'
    PROVE  PlainInv'
<1>1. TreeInv /\ Flat(nodes) /\ Straight /\ behind = {}
  BY DEF PlainInv
<1>2. /\ Returns' \subseteq Returns \cup {parent}
      /\ \A i, j \in DOMAIN open' : i < j =>
           /\ i \in DOMAIN open /\ open'[i].parent = open[i].parent
           /\ \/ j \in DOMAIN open /\ open'[j].parent = open[j].parent
              \/ open'[j].parent = saved
  BY <1>1, Opened
<1>3. Returns \cup {parent} \subseteq DOMAIN nodes /\ \A n \in Returns \cup {parent} : nodes[n].kind \in Parents
  BY <1>1 DEF TreeInv, Held, InUse
<1>4. behind' = {}
  <2>1. ASSUME NEW n \in Up(nodes, parent) \ Up(nodes', parent'), NEW q \in Returns', n \in nodes[q].above
        PROVE  FALSE
    BY <1>1, <1>2, <1>3, <2>1 DEF Flat
  <2> QED
    BY <1>1, <2>1 DEF GoesOn
<1>5. \A q \in Returns \cup {parent} : Up(nodes', q) = Up(nodes, q)
  BY <1>3 DEF Grown, Up
<1>6. Rules(nodes) \subseteq Rules(nodes')
  BY DEF Rules, Grown
<1>7. \A q \in Returns' : Up(nodes', q) \subseteq Up(nodes', parent') \cup Rules(nodes')
  BY <1>1, <1>2, <1>5, <1>6 DEF Straight, Inner
<1>8. ASSUME NEW i \in DOMAIN open', NEW j \in DOMAIN open', i < j,
             open'[i].parent # 0, open'[j].parent # 0
      PROVE  Up(nodes', open'[i].parent) \subseteq Up(nodes', open'[j].parent) \cup Rules(nodes')
  <2> DEFINE a == open'[i].parent
             b == open'[j].parent
  <2>1. /\ i \in DOMAIN open /\ a = open[i].parent /\ a \in Returns
        /\ (j \in DOMAIN open /\ b = open[j].parent) \/ b = saved
    BY <1>2, <1>8 DEF Returns
  <2>2. CASE j \in DOMAIN open /\ b = open[j].parent
    <3>1. b \in Returns /\ Inner(a, b)
      BY <1>1, <1>8, <2>1, <2>2 DEF Straight, Returns
    <3> HIDE DEF a, b
    <3> QED
      BY <1>5, <1>6, <2>1, <3>1 DEF Inner, a, b
  <2>3. CASE b = saved
    <3>1. b = parent /\ Inner(a, parent)
      BY <1>1, <1>8, <2>1, <2>3 DEF Straight
    <3> HIDE DEF a, b
    <3> QED
      BY <1>5, <1>6, <2>1, <3>1 DEF Inner, a, b
  <2> QED
    BY <2>1, <2>2, <2>3
<1>9. Straight'
  BY <1>7, <1>8 DEF Straight, Inner
<1> QED
  BY <1>4, <1>9 DEF PlainInv

(* Past style rules alone, a statement goes to a node that is last.         *)
LEMMA PlainLanding ==
    ASSUME PlainInv, NEW node
    PROVE  LET p == Through(StyleRules)
           IN  /\ p \in DOMAIN nodes \ Rules(nodes) /\ nodes[p].kind \in Parents
               /\ Up(nodes, parent) \subseteq Up(nodes, p) \cup Rules(nodes)
               /\ \A n \in Up(nodes, p) \ Rules(nodes) : IsLast(nodes, n)
               /\ AddChildThrough(node, StyleRules) = AddChild(nodes, p, node)
               /\ ~Overlooks(p)
<1> DEFINE p == Through(StyleRules)
           S == Up(nodes, parent) \ StyleRules
<1>1. TreeInv /\ Tip /\ WellMade(nodes) /\ parent \in DOMAIN nodes /\ Root \notin StyleRules
  BY ParentIs DEF PlainInv
<1>2. /\ Up(nodes, parent) \subseteq DOMAIN nodes /\ Root \in Up(nodes, parent)
      /\ DOMAIN nodes \subseteq Nat /\ IsFiniteSet(DOMAIN nodes)
  BY <1>1, UpIs DEF WellMade
<1>3. S \in SUBSET Nat /\ IsFiniteSet(S) /\ S # {}
  BY <1>1, <1>2, FS_Subset
<1>4. p \in S /\ \A n \in S : p >= n
  BY <1>3, MaxIs DEF Through
<1>5. Rules(nodes) = StyleRules
  BY DEF Rules, StyleRules
<1>6. nodes[p].kind \in Parents /\ p \in DOMAIN nodes
  BY <1>1, ThroughIs
<1>7. p = Through(StyleRules)
  OBVIOUS
<1> HIDE DEF p
<1>8. /\ nodes[p].above = {k \in Up(nodes, parent) : k < p}
      /\ Up(nodes, p) \subseteq Up(nodes, parent)
  BY <1>1, <1>4, UpIs
<1>9. Up(nodes, parent) \subseteq Up(nodes, p) \cup Rules(nodes)
  <2> SUFFICES ASSUME NEW n \in S PROVE n \in Up(nodes, p)
    BY <1>5
  <2>1. n = p \/ n < p
    BY <1>3, <1>4
  <2> QED
    BY <1>8, <2>1 DEF Up
<1>10. \A n \in Up(nodes, p) \ Rules(nodes) : IsLast(nodes, n)
  BY <1>1, <1>8 DEF Tip
<1>11. IsLast(nodes, p)
  BY <1>4, <1>5, <1>10 DEF Up
<1>12. ~HasFollowingSibling(nodes, p)
  BY <1>2, <1>4, <1>11 DEF HasFollowingSibling, Siblings, IsLast
<1> QED
  BY <1>4, <1>5, <1>6, <1>7, <1>9, <1>10, <1>12 DEF AddChildThrough, Overlooks, p

LEMMA PlainBubbles ==
    ASSUME PlainInv, TreeInv', NEW node, LeavesBehind(StyleRules),
           NEW stmt, NEW saved \in {0, parent}, Opening(stmt, saved),
           \/ /\ nodes' = AddChildThrough(node, StyleRules)
              /\ parent' = Newest(nodes')
           \/ Enclose(node, StyleRules) /\ node.kind # "style" /\ node.kind \in Parents
    PROVE  PlainInv'
<1> DEFINE p == Through(StyleRules)
           t == AddChildThrough(node, StyleRules)
<1>1. /\ p \in DOMAIN nodes \ Rules(nodes) /\ nodes[p].kind \in Parents
      /\ Up(nodes, parent) \subseteq Up(nodes, p) \cup Rules(nodes)
      /\ \A n \in Up(nodes, p) \ Rules(nodes) : IsLast(nodes, n)
      /\ t = AddChild(nodes, p, node)
      /\ ~Overlooks(p)
  BY PlainLanding
<1>2. GoesOn({})
  BY <1>1 DEF LeavesBehind
<1>3. \/ nodes' = t /\ parent' = Newest(nodes')
      \/ /\ nodes' = IF StyleRule = 0 THEN t ELSE AddChild(t, Newest(t), t[StyleRule])
         /\ parent' = Newest(nodes')
         /\ node.kind # "style" /\ node.kind \in Parents
  BY DEF Enclose
<1> HIDE DEF p, t
<1>4. WellMade(nodes) /\ Flat(nodes)
  BY DEF PlainInv, TreeInv
<1>5. /\ Grown(nodes, t) /\ Flat(t)
      /\ Newest(t) \in DOMAIN t \ DOMAIN nodes /\ t[Newest(t)].kind = node.kind
      /\ Up(nodes, p) \subseteq Up(t, Newest(t))
      /\ \A n \in Up(t, Newest(t)) \ Rules(t) : IsLast(t, n)
  BY <1>1, <1>4, SpineGrows
<1>6. CASE nodes' = t /\ parent' = Newest(nodes')
  <2>1. Up(nodes, parent) \subseteq Up(nodes', parent') \cup Rules(nodes)
    BY <1>1, <1>5, <1>6
  <2>2. Tip'
    BY <1>5, <1>6 DEF Tip
  <2> QED
    BY <1>2, <1>5, <1>6, <2>1, <2>2, PlainOpens
<1>7. CASE /\ nodes' = AddChild(t, Newest(t), t[StyleRule]) /\ parent' = Newest(nodes')
           /\ node.kind # "style" /\ node.kind \in Parents
  <2>1. WellMade(t) /\ Newest(t) \in DOMAIN t \ Rules(t) /\ t[Newest(t)].kind \in Parents
    BY <1>5, <1>7 DEF Grown, Rules
  <2>2. /\ Grown(t, nodes') /\ Flat(nodes')
        /\ Up(t, Newest(t)) \subseteq Up(nodes', parent')
        /\ \A n \in Up(nodes', parent') \ Rules(nodes') : IsLast(nodes', n)
    BY <1>5, <1>7, <2>1, SpineGrows
  <2>3. Grown(nodes, nodes')
    BY <1>5, <2>2, GrownTwice
  <2>4. Up(nodes, parent) \subseteq Up(nodes', parent') \cup Rules(nodes)
    BY <1>1, <1>5, <2>2
  <2>5. Tip'
    BY <2>2 DEF Tip
  <2> QED
    BY <1>2, <2>2, <2>3, <2>4, <2>5, PlainOpens
<1> QED
  BY <1>3, <1>6, <1>7

LEMMA PlainEmit ==
    ASSUME PlainInv, TreeInv', NEW kind, kind \notin Parents, Emit(kind) PROVE PlainInv'
<1> DEFINE t == CopyParentAfterSibling
           leaf == Node(kind, <<>>, <<>>)
           z == Newest(t) + 1
<1>1. /\ parent' = (IF NeedsCopy THEN Newest(t) ELSE parent)
      /\ nodes' = AddChild(t, parent', leaf)
      /\ UNCHANGED <<rule, open>>
      /\ GoesOn({})
      /\ t = IF NeedsCopy THEN AddCopy(nodes, parent) ELSE nodes
  BY DEF Emit, CopyParentAfterSibling
<1>2. /\ TreeInv /\ Flat(nodes) /\ Straight /\ Tip /\ behind = {}
      /\ WellMade(nodes) /\ parent \in DOMAIN nodes /\ nodes[parent].kind \in Parents
  BY ParentIs DEF PlainInv
<1>3. leaf.kind \notin Parents /\ z = Newest(t) + 1
  BY NodeIs
<1> HIDE DEF t, leaf, z
<1>4. /\ Grown(nodes, t) /\ parent' \in DOMAIN t /\ t[parent'].kind \in Parents
      /\ t[parent'].above = nodes[parent].above
      /\ Flat(t)
      /\ \/ t = nodes /\ parent' = parent
         \/ /\ parent \in Rules(nodes) /\ t[parent'].kind = "style"
            /\ DOMAIN t = DOMAIN nodes \cup {parent'} /\ parent' \notin DOMAIN nodes
  <2>1. CASE ~NeedsCopy
    BY <1>1, <1>2, <2>1 DEF Grown
  <2>2. CASE NeedsCopy
    <3> DEFINE c == Newest(nodes) + 1
               old == nodes[parent]
    <3>1. t = AddNode(nodes, old, old.above) /\ t = AddCopy(nodes, parent) /\ parent' = Newest(t) /\ parent # Root
      BY <1>1, <2>2 DEF AddCopy, NeedsCopy
    <3>2. /\ Leafless(nodes, t) /\ DOMAIN t = DOMAIN nodes \cup {c} /\ Newest(t) = c /\ c \notin DOMAIN nodes
          /\ t[c].above = nodes[parent].above /\ t[c].kind \in Parents
      BY <1>2, <3>1, AddCopyIs
    <3>3. t[c].kind = nodes[parent].kind
      BY <3>1, <3>2 DEF AddNode, Within
    <3>4. parent \in Rules(nodes)
      <4>1. DOMAIN nodes \subseteq Nat /\ IsFiniteSet(DOMAIN nodes)
        BY <1>2 DEF WellMade
      <4>2. /\ Siblings(nodes, parent) \in SUBSET Nat /\ IsFiniteSet(Siblings(nodes, parent))
            /\ parent \in Siblings(nodes, parent)
        BY <1>2, <4>1, FS_Subset DEF Siblings
      <4>3. /\ LastSibling(nodes, parent) \in Siblings(nodes, parent)
            /\ LastSibling(nodes, parent) >= parent /\ LastSibling(nodes, parent) # parent
        BY <2>2, <4>2, MaxIs DEF LastSibling, NeedsCopy
      <4>4. ~IsLast(nodes, parent)
        BY <4>2, <4>3 DEF IsLast, Siblings
      <4> QED
        BY <1>2, <4>4 DEF Tip, Up
    <3>5. nodes[parent].kind = "style"
      BY <3>4 DEF Rules
    <3> HIDE DEF c, old
    <3>6. /\ Grown(nodes, t) /\ \A n \in DOMAIN nodes : t[n] = nodes[n] /\ nodes[n].above \subseteq DOMAIN nodes
      BY <1>2, <3>2 DEF Leafless, Grown, WellMade
    <3>7. Flat(t)
      <4> SUFFICES ASSUME NEW n \in DOMAIN t, t[n].kind \in Parents PROVE t[n].above \cap Rules(t) = {}
        BY DEF Flat
      <4>1. \E m \in DOMAIN nodes : t[n].above = nodes[m].above /\ nodes[m].kind \in Parents
        BY <1>2, <3>2, <3>6
      <4>2. t[n].above \subseteq DOMAIN nodes /\ t[n].above \cap Rules(nodes) = {}
        BY <1>2, <3>6, <4>1 DEF Flat
      <4> QED
        BY <3>6, <4>2 DEF Rules
    <3> QED
      BY <3>1, <3>2, <3>3, <3>4, <3>5, <3>6, <3>7
  <2> QED
    BY <2>1, <2>2
<1>5. /\ WellMade(t) /\ \A n \in DOMAIN nodes : n \in DOMAIN t /\ t[n] = nodes[n]
  BY <1>4 DEF Grown
<1>6. /\ Grown(t, nodes') /\ DOMAIN nodes' = DOMAIN t \cup {z} /\ z \notin DOMAIN t
      /\ nodes'[z].above = Up(t, parent') /\ nodes'[z].kind = leaf.kind
  <2>1. parent' \in DOMAIN t /\ t[parent'].kind \in Parents
    BY <1>4
  <2>2. nodes' = AddChild(t, parent', leaf)
    BY <1>1
  <2> QED
    BY <1>3, <1>5, <2>1, <2>2, AddChildIs
<1>7. /\ \A n \in DOMAIN t : nodes'[n] = t[n]
      /\ \A n \in DOMAIN t : t[n].above \subseteq DOMAIN t
      /\ \A n \in DOMAIN nodes : nodes'[n] = nodes[n]
  BY <1>5, <1>6 DEF Grown, WellMade
<1>8. Up(nodes', parent') = {parent'} \cup nodes[parent].above /\ nodes'[parent'] = t[parent']
  BY <1>4, <1>7 DEF Up
<1>9. Rules(nodes) \subseteq Rules(nodes') /\ Rules(nodes') \subseteq Rules(t)
  <2>1. "style" \in Parents
    BY DEF Parents
  <2> QED
    BY <1>3, <1>5, <1>6, <1>7, <2>1 DEF Rules
<1>10. Flat(nodes')
  <2> SUFFICES ASSUME NEW n \in DOMAIN nodes', nodes'[n].kind \in Parents
               PROVE  nodes'[n].above \cap Rules(nodes') = {}
    BY DEF Flat
  <2> QED
    BY <1>3, <1>4, <1>6, <1>7, <1>9 DEF Flat
<1>11. Up(nodes, parent) \subseteq Up(nodes', parent') \cup Rules(nodes)
  BY <1>4, <1>8 DEF Up
<1>12. Returns' = Returns /\ Returns \subseteq DOMAIN nodes /\ \A n \in Returns : nodes[n].kind \in Parents
  BY <1>1, <1>2 DEF Returns, TreeInv, Held, InUse
<1>13. behind' = {}
  <2>1. ASSUME NEW n \in Up(nodes, parent) \ Up(nodes', parent'), NEW q \in Returns', n \in nodes[q].above
        PROVE  FALSE
    BY <1>2, <1>11, <1>12, <2>1 DEF Flat
  <2> QED
    BY <1>1, <1>2, <2>1 DEF GoesOn
<1>14. \A q \in Returns : Up(nodes', q) = Up(nodes, q)
  BY <1>7, <1>12 DEF Up
<1>15. Straight'
  <2>1. \A q \in Returns' : Up(nodes', q) \subseteq Up(nodes', parent') \cup Rules(nodes')
    BY <1>2, <1>9, <1>11, <1>12, <1>14 DEF Straight, Inner
  <2>2. ASSUME NEW i \in DOMAIN open, NEW j \in DOMAIN open,
               i < j, open[i].parent # 0, open[j].parent # 0
        PROVE  Up(nodes', open[i].parent) \subseteq Up(nodes', open[j].parent) \cup Rules(nodes')
    <3>1. open[i].parent \in Returns /\ open[j].parent \in Returns
      BY <2>2 DEF Returns
    <3>2. Up(nodes, open[i].parent) \subseteq Up(nodes, open[j].parent) \cup Rules(nodes)
      BY <1>2, <2>2 DEF Straight, Inner
    <3> QED
      BY <1>9, <1>14, <3>1, <3>2
  <2> QED
    BY <1>1, <2>1, <2>2 DEF Straight, Inner
<1>16. Tip'
  <2> SUFFICES ASSUME NEW n \in Up(nodes', parent') \ Rules(nodes') PROVE IsLast(nodes', n)
    BY DEF Tip
  <2>1. n \in Up(nodes, parent) \ Rules(nodes) /\ n \in DOMAIN nodes
    <3>1. CASE n = parent'
      <4>1. t = nodes /\ parent' = parent
        BY <1>4, <1>6, <1>8, <3>1 DEF Rules
      <4> QED
        BY <1>2, <1>9, <3>1, <4>1 DEF Up
    <3>2. CASE n \in nodes[parent].above
      BY <1>2, <1>9, <3>2 DEF Up, WellMade
    <3> QED
      BY <1>8, <3>1, <3>2
  <2>2. IsLast(nodes, n) /\ nodes'[n] = nodes[n] /\ n \notin nodes[n].above
    BY <1>2, <1>7, <2>1, NotAbove DEF Tip
  <2>3. n \in nodes'[z].above
    BY <1>4, <1>6, <1>8, <2>1 DEF Up
  <2>4. ASSUME NEW k \in DOMAIN t \ DOMAIN nodes PROVE n \in nodes'[k].above
    <3>1. k = parent' /\ n # parent'
      BY <1>4, <2>1, <2>4
    <3> QED
      BY <1>4, <1>8, <3>1 DEF Up
  <2> QED
    BY <1>6, <1>7, <2>2, <2>3, <2>4 DEF IsLast
<1> QED
  BY <1>10, <1>13, <1>15, <1>16 DEF PlainInv

LEMMA PlainClose == ASSUME PlainInv, TreeInv', Close PROVE PlainInv'
<1> DEFINE f == Last(open)
           R == Range(open)
<1>1. /\ open # <<>> /\ open' = Front(open) /\ UNCHANGED <<nodes, behind>>
      /\ parent' = (IF f.parent = 0 THEN parent ELSE f.parent)
  BY DEF Close
<1>2. open \in Seq(R)
  BY DEF PlainInv, TreeInv, Held
<1>3. f = open[Len(open)]
  BY DEF Last
<1> HIDE DEF f, R
<1>4. /\ Len(open) \in Nat \ {0} /\ DOMAIN open = 1..Len(open)
      /\ open' = [i \in 1..(Len(open) - 1) |-> open[i]]
  BY <1>1, <1>2 DEF Front
<1>5. /\ \A i \in DOMAIN open' : i \in DOMAIN open /\ open'[i] = open[i] /\ i < Len(open)
      /\ Len(open) \in DOMAIN open
  BY <1>4
<1>6. Returns' \subseteq Returns /\ (f.parent # 0 => f.parent \in Returns)
  BY <1>1, <1>3, <1>5 DEF Returns
<1>7. ASSUME NEW q \in Returns' PROVE Up(nodes, q) \subseteq Up(nodes, parent') \cup Rules(nodes)
  <2>1. CASE f.parent = 0
    BY <1>1, <1>6, <2>1 DEF PlainInv, Straight, Inner
  <2>2. CASE f.parent # 0
    <3>1. PICK i \in DOMAIN open' : q = open'[i].parent /\ open'[i].parent # 0
      BY DEF Returns
    <3>2. i \in DOMAIN open /\ open[i].parent = q /\ q # 0 /\ i < Len(open)
      BY <1>5, <3>1
    <3>3. open[Len(open)].parent # 0 /\ parent' = open[Len(open)].parent
      BY <1>1, <1>3, <2>2
    <3> QED
      BY <1>5, <3>2, <3>3 DEF PlainInv, Straight, Inner
  <2> QED
    BY <2>1, <2>2
<1>8. Straight'
  <2>1. ASSUME NEW i \in DOMAIN open', NEW j \in DOMAIN open', i < j,
               open'[i].parent # 0, open'[j].parent # 0
        PROVE  Up(nodes, open'[i].parent) \subseteq Up(nodes, open'[j].parent) \cup Rules(nodes)
    BY <1>5, <2>1 DEF PlainInv, Straight, Inner
  <2> QED
    BY <1>1, <1>7, <2>1 DEF Straight, Inner
<1>9. Up(nodes, parent') \subseteq Up(nodes, parent) \cup Rules(nodes)
  BY <1>1, <1>6 DEF PlainInv, Straight, Inner
<1>10. Tip'
  BY <1>1, <1>9 DEF PlainInv, Tip
<1> QED
  BY <1>1, <1>8, <1>10 DEF PlainInv

LEMMA PlainInductive == PlainInv /\ Plain' /\ [Next]_vars => PlainInv'
<1> SUFFICES ASSUME PlainInv, Plain', [Next]_vars PROVE PlainInv'
  OBVIOUS
<1>1. TreeInv /\ TreeInv'
  BY TreeInductive DEF PlainInv
<1>2. ASSUME NEW l \in Labels, VisitStyleRule(l) PROVE PlainInv'
  BY <1>1, <1>2, PlainBubbles DEF VisitStyleRule
<1>3. CASE VisitKeyframeBlock
  BY <1>1, <1>3, PlainBubbles DEF VisitKeyframeBlock
<1>4. ASSUME NEW q \in MediaLists, VisitMediaRule(q) PROVE PlainInv'
  <2> DEFINE css == MediaRule(q)
             left == {n \in DOMAIN nodes : /\ nodes[n].kind = "media" /\ css.from # {}
                                           /\ Range(nodes[n].queries) \subseteq css.from}
             node == Node("media", <<>>, css.queries)
             stmt == [kind |-> "media", arg |-> q]
  <2>1. /\ Enclose(node, StyleRules \cup left) /\ Opening(stmt, parent)
        /\ LeavesBehind(StyleRules \cup left) /\ sources' = css.from
    BY <1>4 DEF VisitMediaRule
  <2>2. StyleRules \cup left = StyleRules
    BY <2>1 DEF Plain
  <2>3. node.kind # "style" /\ node.kind \in Parents
    BY NodeIs DEF Parents
  <2> HIDE DEF node, left, stmt
  <2> QED
    BY <1>1, <2>1, <2>2, <2>3, PlainBubbles
<1>5. CASE VisitSupportsRule
  <2> DEFINE node == Node("supports", <<>>, <<>>)
  <2>1. /\ Enclose(node, StyleRules) /\ Opening([kind |-> "supports", arg |-> <<>>], parent)
        /\ LeavesBehind(StyleRules)
    BY <1>5 DEF VisitSupportsRule
  <2>2. node.kind # "style" /\ node.kind \in Parents
    BY NodeIs DEF Parents
  <2> HIDE DEF node
  <2> QED
    BY <1>1, <2>1, <2>2, PlainBubbles
<1>6. ASSUME NEW name \in {"unknown", "keyframes"}, VisitAtRule(name) PROVE PlainInv'
  <2> DEFINE node == Node(name, <<>>, <<>>)
  <2>1. /\ IF name = "keyframes"
           THEN nodes' = AddChildThrough(node, StyleRules) /\ parent' = Newest(nodes')
           ELSE Enclose(node, StyleRules)
        /\ Opening([kind |-> name, arg |-> <<>>], parent)
        /\ LeavesBehind(StyleRules)
    BY <1>6 DEF VisitAtRule
  <2>2. node.kind # "style" /\ node.kind \in Parents
    BY NodeIs DEF Parents
  <2> HIDE DEF node
  <2> QED
    BY <1>1, <2>1, <2>2, PlainBubbles
<1>7. ASSUME NEW q \in AtRootQueries, VisitAtRootRule(q) PROVE FALSE
  <2> DEFINE stmt == [kind |-> "at-root", arg |-> q]
             R == Range(open)
  <2>1. PICK saved : Opening(stmt, saved)
    BY <1>7 DEF VisitAtRootRule
  <2>2. PICK f : open' = Append(open, f) /\ f.stmt = stmt
    BY <2>1 DEF Opening
  <2>3. open \in Seq(R)
    BY <1>1 DEF TreeInv, Held
  <2>4. stmt.kind = "at-root"
    OBVIOUS
  <2> HIDE DEF stmt, R
  <2>5. open \in Seq(R \cup {f})
    BY <2>3
  <2>6. Len(open) + 1 \in DOMAIN open' /\ open'[Len(open) + 1] = f
    BY <2>2, <2>5
  <2> QED
    BY <2>2, <2>4, <2>6 DEF Plain
<1>8. CASE VisitDeclaration
  BY <1>1, <1>8, PlainEmit DEF VisitDeclaration, Parents
<1>9. CASE VisitNestedDeclarations
  <2> DEFINE stmt == [kind |-> "nested", arg |-> <<>>]
  <2>1. UNCHANGED <<nodes, parent, rule, behind>> /\ Opening(stmt, 0)
    BY <1>9 DEF VisitNestedDeclarations
  <2>2. Grown(nodes, nodes') /\ GoesOn({}) /\ Flat(nodes') /\ Tip'
    BY <1>1, <2>1 DEF Grown, GoesOn, PlainInv, TreeInv, Tip
  <2> HIDE DEF stmt
  <2> QED
    BY <1>1, <2>1, <2>2, PlainOpens
<1>10. CASE VisitLoudComment
  BY <1>1, <1>10, PlainEmit DEF VisitLoudComment, Parents
<1>11. CASE Close
  BY <1>1, <1>11, PlainClose
<1>12. CASE UNCHANGED vars
  BY <1>1, <1>12 DEF vars, visitor, PlainInv, Straight, Inner, Tip, Returns
<1> QED
  BY <1>2, <1>3, <1>4, <1>5, <1>6, <1>7, <1>8, <1>9, <1>10, <1>11, <1>12 DEF Next

LEMMA InitPlain == Init => PlainInv
<1> SUFFICES ASSUME Init PROVE PlainInv
  OBVIOUS
<1>1. TreeInv
  BY InitTree
<1>2. /\ nodes = [n \in {1} |-> Node("root", <<>>, <<>>)] /\ parent = 1 /\ open = <<>> /\ behind = {}
  BY DEF Init, Root
<1>3. DOMAIN nodes = {1} /\ nodes[1].above = {}
  BY <1>2 DEF Node
<1>4. Flat(nodes)
  BY <1>3 DEF Flat
<1>5. Straight
  BY <1>2 DEF Straight, Returns
<1>6. Tip
  BY <1>2, <1>3 DEF Tip, Up, IsLast
<1> QED
  BY <1>1, <1>2, <1>4, <1>5, <1>6 DEF PlainInv

(* Of two children of a node, what is in the first was emitted first, with  *)
(* no exception.                                                            *)
InOrder ==
    \A k, n \in DOMAIN nodes : OneAfter(k, n) =>
        \A l, m \in DOMAIN nodes :
            /\ IsLeaf(l) /\ k \in Up(nodes, l)
            /\ IsLeaf(m) /\ n \in Up(nodes, m)
            => l < m

(* In a style sheet without @at-root in which no @media is merged into one  *)
(* around it, copyParentAfterSibling does what it is for: no node is left   *)
(* behind, and everything comes out in the order it was evaluated.          *)
THEOREM PlainSheetsInOrder == Spec /\ []Plain => [](NothingBehind /\ InOrder)
<1>1. PlainInv => NothingBehind /\ InOrder
  BY DEF PlainInv, TreeInv, SourceOrder, NothingBehind, InOrder
<1>2. PlainInv /\ Plain' /\ [Next]_vars => PlainInv'
  BY PlainInductive
<1> QED
  BY <1>1, <1>2, InitPlain, PTL DEF Spec
-----------------------------------------------------------------------------
(* What @media rules are merged into: Merge, for any queries and devices.   *)

(* What every query is: its conditions are a sequence, and what is negated   *)
(* is a type.                                                               *)
WellFormed(q) ==
    /\ q = Query(q.modifier, q.type, q.conj, q.conditions)
    /\ q.conj \in BOOLEAN
    /\ q.conditions \in Seq(Range(q.conditions))
    /\ q.modifier = "not" => q.type # ""

Holds(conditions, d) == Range(conditions) \subseteq d.features
OfType(type, d) == type \in {"", "all"} \/ type = d.type

LEMMA RangeOfBoth ==
    ASSUME NEW S, NEW s \in Seq(S), NEW T, NEW t \in Seq(T)
    PROVE  Range(s \o t) = Range(s) \cup Range(t)
<1> s \o t \in Seq(S \cup T) /\ s \in Seq(S \cup T) /\ t \in Seq(S \cup T)
  OBVIOUS
<1>1. \A i \in 1..Len(s) : i \in 1..Len(s \o t) /\ (s \o t)[i] = s[i]
  OBVIOUS
<1>2. \A i \in 1..Len(t) : Len(s) + i \in 1..Len(s \o t) /\ (s \o t)[Len(s) + i] = t[i]
  OBVIOUS
<1>3. \A i \in 1..Len(s \o t) : \/ i \in 1..Len(s) /\ (s \o t)[i] = s[i]
                                \/ i - Len(s) \in 1..Len(t) /\ (s \o t)[i] = t[i - Len(s)]
  OBVIOUS
<1>4. DOMAIN s = 1..Len(s) /\ DOMAIN t = 1..Len(t) /\ DOMAIN (s \o t) = 1..Len(s \o t)
  OBVIOUS
<1>5. Range(s) \subseteq Range(s \o t)
  BY <1>1, <1>4 DEF Range
<1>6. Range(t) \subseteq Range(s \o t)
  BY <1>2, <1>4 DEF Range
<1>7. Range(s \o t) \subseteq Range(s) \cup Range(t)
  BY <1>3, <1>4 DEF Range
<1> QED BY <1>5, <1>6, <1>7

LEMMA BothIsASequence ==
    ASSUME NEW s, s \in Seq(Range(s)), NEW t, t \in Seq(Range(t))
    PROVE  s \o t \in Seq(Range(s \o t))
<1>1. s \o t \in Seq(Range(s) \cup Range(t))
  <2> DEFINE S == Range(s) T == Range(t)
  <2>1. s \in Seq(S) /\ t \in Seq(T)
    OBVIOUS
  <2> HIDE DEF S, T
  <2>2. s \o t \in Seq(S \cup T)
    BY <2>1
  <2> QED BY <2>2 DEF S, T
<1>2. Range(s \o t) = Range(s) \cup Range(t)
  BY RangeOfBoth
<1> QED BY <1>1, <1>2

LEMMA HoldsOfBoth ==
    ASSUME NEW q, NEW o, WellFormed(q), WellFormed(o), NEW d
    PROVE  Holds(q.conditions \o o.conditions, d)
             <=> Holds(q.conditions, d) /\ Holds(o.conditions, d)
<1> q.conditions \in Seq(Range(q.conditions)) /\ o.conditions \in Seq(Range(o.conditions))
  BY DEF WellFormed
<1> QED BY RangeOfBoth DEF Holds

LEMMA MatchingConjunction ==
    ASSUME NEW q, q.conj = TRUE, NEW d
    PROVE  Matches(q, d) <=> ((OfType(q.type, d) /\ Holds(q.conditions, d)) # (q.modifier = "not"))
<1> DEFINE holds == {c \in Range(q.conditions) : c \in d.features}
<1>1. holds = Range(q.conditions) <=> Holds(q.conditions, d)
  BY DEF Holds
<1>2. (MatchesAllTypes(q) \/ q.type = d.type) <=> OfType(q.type, d)
  BY DEF MatchesAllTypes, OfType
<1> HIDE DEF holds
<1>3. Matches(q, d) <=> (((MatchesAllTypes(q) \/ q.type = d.type)
                          /\ IF q.conj THEN holds = Range(q.conditions) ELSE holds # {})
                         # (q.modifier = "not"))
  BY Zenon DEF Matches, holds
<1>4. Matches(q, d) <=> (((MatchesAllTypes(q) \/ q.type = d.type) /\ holds = Range(q.conditions))
                         # (q.modifier = "not"))
  BY <1>3, Zenon
<1> QED BY <1>1, <1>2, <1>4

LEMMA MatchingSuccess ==
    ASSUME NEW modifier, NEW type, NEW conditions, NEW d
    PROVE  Matches(Success(modifier, type, conditions).query, d)
             <=> ((OfType(type, d) /\ Holds(conditions, d)) # (modifier = "not"))
<1> DEFINE q == Success(modifier, type, conditions).query
<1>1. /\ q.conj = TRUE /\ q.type = type /\ q.conditions = conditions /\ q.modifier = modifier
  BY DEF Success, Query
<1> HIDE DEF q
<1>2. Matches(q, d) <=> ((OfType(type, d) /\ Holds(conditions, d)) # (modifier = "not"))
  BY <1>1, MatchingConjunction, Zenon
<1> QED BY <1>2 DEF q

LEMMA Results ==
    /\ Empty.result = "empty" /\ Unrepresentable.result = "unrepresentable"
    /\ \A m, t, c : Success(m, t, c).result = "query"
BY DEF Empty, Unrepresentable, Success

LEMMA MatchingPositive ==
    ASSUME NEW m, m # "not", NEW t, NEW c, NEW d
    PROVE  /\ Success(m, t, c).result = "query"
           /\ Matches(Success(m, t, c).query, d) <=> OfType(t, d) /\ Holds(c, d)
<1>1. Success(m, t, c).result = "query"
  BY Results
<1>2. Matches(Success(m, t, c).query, d) <=> OfType(t, d) /\ Holds(c, d)
  BY MatchingSuccess
<1> QED BY <1>1, <1>2

(* What a merge of q and o into r promises of a device.                     *)
Meets(r, q, o, d) ==
    /\ r.result = "query" => (Matches(r.query, d) <=> Matches(q, d) /\ Matches(o, d))
    /\ r.result = "empty" => ~(Matches(q, d) /\ Matches(o, d))

LEMMA MixedMeets ==
    ASSUME NEW q, NEW o, WellFormed(q), WellFormed(o), q.conj, o.conj,
           q.modifier = "not", o.modifier # "not",
           NEW d, d.type \notin {"", "all"}
    PROVE  Meets(MergeMixed(q, o), q, o, d)
<1>1. /\ Matches(q, d) <=> ~(OfType(q.type, d) /\ Holds(q.conditions, d))
      /\ Matches(o, d) <=> OfType(o.type, d) /\ Holds(o.conditions, d)
  <2>1. q.conj = TRUE /\ o.conj = TRUE
    BY DEF WellFormed
  <2> QED BY <2>1, MatchingConjunction, Zenon
<1>2. CASE q.type = o.type
  <2>1. CASE AllContained(q.conditions, o.conditions)
    <3>1. Holds(o.conditions, d) => Holds(q.conditions, d)
      BY <2>1 DEF Holds, AllContained
    <3>2. MergeMixed(q, o) = Empty
      BY <1>2, <2>1 DEF MergeMixed
    <3> QED BY <1>1, <1>2, <3>1, <3>2, Results DEF Meets
  <2>2. CASE ~AllContained(q.conditions, o.conditions)
    <3>1. MergeMixed(q, o) = Unrepresentable
      BY <1>2, <2>2 DEF MergeMixed
    <3> QED BY <3>1, Results DEF Meets
  <2> QED BY <2>1, <2>2
<1>3. CASE q.type # o.type
  <2>1. CASE MatchesAllTypes(q) \/ MatchesAllTypes(o)
    <3>1. MergeMixed(q, o) = Unrepresentable
      BY <1>3, <2>1 DEF MergeMixed
    <3> QED BY <3>1, Results DEF Meets
  <2>2. CASE ~(MatchesAllTypes(q) \/ MatchesAllTypes(o))
    <3>1. MergeMixed(q, o) = Success(o.modifier, o.type, o.conditions)
      BY <1>3, <2>2 DEF MergeMixed
    <3>3. OfType(o.type, d) => ~OfType(q.type, d)
      BY <1>3, <2>2 DEF OfType, MatchesAllTypes
    <3>4. /\ MergeMixed(q, o).result = "query"
          /\ Matches(MergeMixed(q, o).query, d) <=> OfType(o.type, d) /\ Holds(o.conditions, d)
      <4> DEFINE r == Success(o.modifier, o.type, o.conditions)
      <4>1. /\ r.result = "query"
            /\ Matches(r.query, d) <=> OfType(o.type, d) /\ Holds(o.conditions, d)
        BY MatchingPositive
      <4> HIDE DEF r
      <4>2. MergeMixed(q, o) = r
        BY <3>1 DEF r
      <4> QED BY <4>1, <4>2
    <3> QED BY <1>1, <3>3, <3>4 DEF Meets
  <2> QED BY <2>1, <2>2
<1> QED BY <1>2, <1>3

\* if neither is negated it is enough that the merged query has the types both have
LEMMA CommonTypeMeets ==
    ASSUME NEW q, NEW o, WellFormed(q), WellFormed(o), q.conj, o.conj,
           q.modifier # "not", o.modifier # "not", NEW d,
           NEW m, m # "not", NEW t, OfType(t, d) <=> OfType(q.type, d) /\ OfType(o.type, d)
    PROVE  Meets(Success(m, t, q.conditions \o o.conditions), q, o, d)
<1> DEFINE both == q.conditions \o o.conditions
<1>1. /\ Matches(q, d) <=> OfType(q.type, d) /\ Holds(q.conditions, d)
      /\ Matches(o, d) <=> OfType(o.type, d) /\ Holds(o.conditions, d)
  <2>1. q.conj = TRUE /\ o.conj = TRUE
    BY DEF WellFormed
  <2> QED BY <2>1, MatchingConjunction, Zenon
<1>2. Holds(both, d) <=> Holds(q.conditions, d) /\ Holds(o.conditions, d)
  BY HoldsOfBoth
<1> HIDE DEF both
<1>3. /\ Success(m, t, both).result = "query"
      /\ Matches(Success(m, t, both).query, d) <=> OfType(t, d) /\ Holds(both, d)
  BY MatchingPositive
<1>4. Meets(Success(m, t, both), q, o, d)
  BY <1>1, <1>2, <1>3 DEF Meets
<1> QED BY <1>4 DEF both

LEMMA PositiveMeets ==
    ASSUME NEW q, NEW o, WellFormed(q), WellFormed(o), q.conj, o.conj,
           q.modifier # "not", o.modifier # "not",
           NEW d, d.type \notin {"", "all"}
    PROVE  Meets(MergePositive(q, o), q, o, d)
<1> DEFINE both == q.conditions \o o.conditions
<1>1. CASE MatchesAllTypes(q)
  <2> DEFINE t == IF MatchesAllTypes(o) /\ q.type = "" THEN "" ELSE o.type
  <2>1. MergePositive(q, o) = Success(o.modifier, t, both)
    BY <1>1 DEF MergePositive
  <2>2. OfType(t, d) <=> OfType(q.type, d) /\ OfType(o.type, d)
    BY <1>1 DEF OfType, MatchesAllTypes
  <2> HIDE DEF t
  <2> QED BY <2>1, <2>2, CommonTypeMeets
<1>2. CASE ~MatchesAllTypes(q) /\ MatchesAllTypes(o)
  <2>1. MergePositive(q, o) = Success(q.modifier, q.type, both)
    BY <1>2 DEF MergePositive
  <2>2. OfType(q.type, d) <=> OfType(q.type, d) /\ OfType(o.type, d)
    BY <1>2 DEF OfType, MatchesAllTypes
  <2> QED BY <2>1, <2>2, CommonTypeMeets
<1>3. CASE ~MatchesAllTypes(q) /\ ~MatchesAllTypes(o) /\ q.type # o.type
  <2>1. MergePositive(q, o) = Empty
    BY <1>3 DEF MergePositive
  <2>2. ~(OfType(q.type, d) /\ OfType(o.type, d))
    BY <1>3 DEF OfType, MatchesAllTypes
  <2>3. q.conj = TRUE /\ o.conj = TRUE
    BY DEF WellFormed
  <2>4. ~(Matches(q, d) /\ Matches(o, d))
    BY <2>2, <2>3, MatchingConjunction
  <2> QED BY <2>1, <2>4, Results DEF Meets
<1>4. CASE ~MatchesAllTypes(q) /\ ~MatchesAllTypes(o) /\ q.type = o.type
  <2> DEFINE m == IF q.modifier # "" THEN q.modifier ELSE o.modifier
  <2>1. MergePositive(q, o) = Success(m, q.type, both)
    BY <1>4 DEF MergePositive
  <2>2. m # "not"
    OBVIOUS
  <2> HIDE DEF m
  <2> QED BY <1>4, <2>1, <2>2, CommonTypeMeets
<1> QED BY <1>1, <1>2, <1>3, <1>4

LEMMA NegatedCovers ==
    ASSUME NEW q, NEW o, WellFormed(q), WellFormed(o), q.conj, o.conj,
           q.modifier = "not", o.modifier = "not", NEW d,
           Matches(q, d), Matches(o, d)
    PROVE  LET r == MergeNegated(q, o)
           IN  r.result = "unrepresentable" \/ (r.result = "query" /\ Matches(r.query, d))
<1> DEFINE longer  == IF Len(q.conditions) > Len(o.conditions) THEN q ELSE o
           shorter == IF longer = q THEN o ELSE q
           r == MergeNegated(q, o)
<1>1. /\ ~(OfType(q.type, d) /\ Holds(q.conditions, d))
      /\ ~(OfType(o.type, d) /\ Holds(o.conditions, d))
  <2>1. q.conj = TRUE /\ o.conj = TRUE
    BY DEF WellFormed
  <2> QED BY <2>1, MatchingConjunction, Zenon
<1>2. longer \in {q, o}
  OBVIOUS
<1>3. r = IF q.type # o.type \/ ~AllContained(shorter.conditions, longer.conditions)
          THEN Unrepresentable ELSE Success("not", q.type, longer.conditions)
  BY DEF MergeNegated
<1> HIDE DEF longer, shorter, r
<1>4. CASE q.type # o.type \/ ~AllContained(shorter.conditions, longer.conditions)
  <2>1. r = Unrepresentable
    BY <1>3, <1>4
  <2> QED BY <2>1, Results DEF r
<1>5. CASE ~(q.type # o.type \/ ~AllContained(shorter.conditions, longer.conditions))
  <2>1. r = Success("not", q.type, longer.conditions)
    BY <1>3, <1>5
  <2>2. Matches(r.query, d) <=> ~(OfType(q.type, d) /\ Holds(longer.conditions, d))
    BY <2>1, MatchingSuccess
  <2>3. r.result = "query"
    BY <2>1, Results
  <2> QED BY <1>1, <1>2, <1>5, <2>2, <2>3 DEF r
<1> QED BY <1>4, <1>5

\* so that it can be merged again
LEMMA MergedIsWellFormed ==
    ASSUME NEW q, NEW o, WellFormed(q), WellFormed(o), Merge(q, o).result = "query"
    PROVE  WellFormed(Merge(q, o).query)
<1>1. ASSUME NEW m, NEW t, NEW c, c \in Seq(Range(c)), m = "not" => t # ""
      PROVE  WellFormed(Success(m, t, c).query)
  BY <1>1 DEF WellFormed, Success, Query
<1> DEFINE both == q.conditions \o o.conditions
<1>2. both \in Seq(Range(both))
  <2>1. /\ q.conditions \in Seq(Range(q.conditions))
        /\ o.conditions \in Seq(Range(o.conditions))
    BY DEF WellFormed
  <2> QED BY <2>1, BothIsASequence
<1>3. /\ q.conditions \in Seq(Range(q.conditions)) /\ (q.modifier = "not" => q.type # "")
      /\ o.conditions \in Seq(Range(o.conditions)) /\ (o.modifier = "not" => o.type # "")
  BY DEF WellFormed
<1> HIDE DEF both
<1>4. ASSUME NEW p, WellFormed(p), NEW n, MergeMixed(n, p).result = "query"
      PROVE  WellFormed(MergeMixed(n, p).query)
  <2>1. MergeMixed(n, p) \in {Empty, Unrepresentable,
                              Success(p.modifier, p.type, p.conditions)}
    BY DEF MergeMixed
  <2>2. MergeMixed(n, p) = Success(p.modifier, p.type, p.conditions)
    BY <1>4, <2>1, Results
  <2>3. p.conditions \in Seq(Range(p.conditions)) /\ (p.modifier = "not" => p.type # "")
    BY <1>4 DEF WellFormed
  <2> QED BY <1>1, <2>2, <2>3
<1>5. CASE Merge(q, o) = Success("", "", both)
  BY <1>1, <1>2, <1>5
<1>6. CASE Merge(q, o) \in {MergeMixed(q, o), MergeMixed(o, q)}
  BY <1>4, <1>6
<1>7. CASE Merge(q, o) = MergeNegated(q, o) /\ q.modifier = "not"
  <2>1. MergeNegated(q, o) = Unrepresentable
          \/ \E p \in {q, o} : MergeNegated(q, o) = Success("not", q.type, p.conditions)
    BY DEF MergeNegated
  <2>2. PICK p \in {q, o} : MergeNegated(q, o) = Success("not", q.type, p.conditions)
    BY <1>7, <2>1, Results
  <2>3. p.conditions \in Seq(Range(p.conditions)) /\ q.type # ""
    <3>1. q.type # ""
      BY <1>3, <1>7
    <3>2. p = q \/ p = o
      OBVIOUS
    <3>3. p.conditions \in Seq(Range(p.conditions))
      BY <1>3, <3>2, Zenon
    <3> QED BY <3>1, <3>3
  <2>4. WellFormed(Success("not", q.type, p.conditions).query)
    BY <1>1, <2>3
  <2> QED BY <1>7, <2>2, <2>4
<1>8. CASE Merge(q, o) = MergePositive(q, o) /\ q.modifier # "not" /\ o.modifier # "not"
  <2>1. MergePositive(q, o) = Empty
          \/ \E m \in {q.modifier, o.modifier}, t \in {"", q.type, o.type} :
               MergePositive(q, o) = Success(m, t, both)
    BY DEF MergePositive, both
  <2>2. PICK m \in {q.modifier, o.modifier}, t \in {"", q.type, o.type} :
               MergePositive(q, o) = Success(m, t, both)
    BY <1>8, <2>1, Results
  <2>3. m # "not"
    BY <1>8
  <2> QED BY <1>1, <1>2, <1>8, <2>2, <2>3
<1>9. CASE Merge(q, o) = Unrepresentable
  BY <1>9, Results
<1> QED
  <2>1. \/ q.modifier = "not" /\ o.modifier = "not"
        \/ q.modifier # "not" /\ o.modifier # "not"
        \/ Merge(q, o) \in {Unrepresentable, Success("", "", both), MergeMixed(q, o), MergeMixed(o, q)}
    BY DEF Merge, both
  <2>2. \/ Merge(q, o) \in {Unrepresentable, Success("", "", both), MergeMixed(q, o), MergeMixed(o, q)}
        \/ (q.modifier = "not" /\ Merge(q, o) = MergeNegated(q, o))
        \/ (q.modifier # "not" /\ Merge(q, o) = MergePositive(q, o))
    BY DEF Merge, both
  <2> QED BY <1>5, <1>6, <1>7, <1>8, <1>9, <2>1, <2>2

(* An inner @media that leaves an outer one applies where it would have     *)
(* within (Merge, value/css_media_query.go): a merged query matches a       *)
(* device exactly if both of its parts do, and parts that merge to none     *)
(* match no device together, whatever their types and conditions.  Two      *)
(* negated queries merge to one that may match more, and never to none.     *)
(* What comes out can be merged again.                                      *)
THEOREM MergeKeepsMeaning ==
    ASSUME NEW q, NEW o, WellFormed(q), WellFormed(o),
           NEW d, d.type \notin {"", "all"}
    PROVE  LET r == Merge(q, o)
               Both == Matches(q, d) /\ Matches(o, d)
           IN  /\ r.result = "query" /\ Both => Matches(r.query, d)
               /\ r.result = "query" /\ Matches(r.query, d) =>
                    Both \/ (q.modifier = "not" /\ o.modifier = "not")
               /\ r.result = "empty" => ~Both
               /\ r.result = "query" => WellFormed(r.query)
<1> DEFINE negated == q.modifier = "not" /\ o.modifier = "not"
<1>0. Merge(q, o).result = "query" => WellFormed(Merge(q, o).query)
  BY MergedIsWellFormed
<1>1. CASE ~q.conj \/ ~o.conj
  <2>1. Merge(q, o) = Unrepresentable
    BY <1>1 DEF Merge
  <2> QED BY <2>1, Results
<1>2. ASSUME q.conj, o.conj, ~negated
      PROVE  Meets(Merge(q, o), q, o, d)
  <2>1. CASE q.type = "" /\ o.type = ""
    <3>1. q.modifier # "not" /\ o.modifier # "not"
      BY <2>1 DEF WellFormed
    <3>2. Merge(q, o) = Success("", "", q.conditions \o o.conditions)
      BY <1>2, <2>1 DEF Merge
    <3>3. OfType("", d) <=> OfType(q.type, d) /\ OfType(o.type, d)
      BY <2>1 DEF OfType
    <3> QED BY <1>2, <3>1, <3>2, <3>3, CommonTypeMeets
  <2>2. CASE ~(q.type = "" /\ o.type = "") /\ q.modifier = "not"
    <3>1. Merge(q, o) = MergeMixed(q, o)
      BY <1>2, <2>2 DEF Merge
    <3> QED BY <1>2, <2>2, <3>1, MixedMeets
  <2>3. CASE ~(q.type = "" /\ o.type = "") /\ o.modifier = "not"
    <3>1. Merge(q, o) = MergeMixed(o, q)
      BY <1>2, <2>3 DEF Merge
    <3>2. Meets(MergeMixed(o, q), o, q, d)
      BY <1>2, <2>3, MixedMeets
    <3> QED BY <3>1, <3>2 DEF Meets
  <2>4. CASE ~(q.type = "" /\ o.type = "") /\ q.modifier # "not" /\ o.modifier # "not"
    <3>1. Merge(q, o) = MergePositive(q, o)
      BY <1>2, <2>4 DEF Merge
    <3> QED BY <1>2, <2>4, <3>1, PositiveMeets
  <2> QED BY <2>1, <2>2, <2>3, <2>4
<1>3. CASE q.conj /\ o.conj /\ ~negated
  BY <1>0, <1>2, <1>3 DEF Meets
<1>4. CASE q.conj /\ o.conj /\ negated
  <2>1. Merge(q, o) = MergeNegated(q, o)
    BY <1>4 DEF Merge, WellFormed
  <2>2. MergeNegated(q, o).result \in {"unrepresentable", "query"}
    BY Results DEF MergeNegated
  <2> QED BY <1>0, <1>4, <2>1, <2>2, NegatedCovers
<1> QED BY <1>1, <1>3, <1>4
=============================================================================
