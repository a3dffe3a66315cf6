--------------------------- MODULE CssOrderProofs ---------------------------
(***************************************************************************)
(* Whatever the stylesheets hold, the CSS of a compilation is in order: no *)
(* plain CSS @import after a rule, and, where all files are loaded as      *)
(* modules, each rule of each of them once and after those it depends on   *)
(* (eval/evaluate_statement.go: combineCss and what collects its nodes).   *)
(*                                                                         *)
(* First the sequences; then combineCss on its own, a depth first search;  *)
(* then what the frames and modules hold at each step.                     *)
(***************************************************************************)
EXTENDS ModuleLoadingProofs

-----------------------------------------------------------------------------
(* What the stylesheets hold while the evaluator runs.  In a frame: the     *)
(* block of @imports and comments at the start of the root, no rule in it   *)
(* and no @import after it.                                                 *)
Of(kinds) == [kind : kinds, file : Files, at : Nat]
Nodes     == Of({"import", "comment", "rule"})
Remarks   == Of({"comment"})
Commenting(comments) == \A u \in DOMAIN comments : comments[u] \in Seq(Remarks)
Sheet(f, known) ==
    /\ {"root", "endOfImports", "outOfOrder", "comments", "upstream"} \subseteq DOMAIN f
    /\ f.root \in Seq(Nodes) /\ f.endOfImports \in 0..Len(f.root)
    /\ \A k \in 1..Len(f.root) :
          IF k <= f.endOfImports THEN f.root[k].kind # "rule" ELSE f.root[k].kind # "import"
    /\ f.outOfOrder \in Seq(Of({"import"}))
    /\ Commenting(f.comments)
    /\ f.upstream \in Seq(known)

(* In a module: no @import after a rule.                                    *)
ImportsFirst(s) == \A j, k \in 1..Len(s) : s[j].kind = "rule" /\ s[k].kind = "import" => k < j
Bound(mod, known) ==
    /\ {"css", "comments", "upstream", "hasCss"} \subseteq DOMAIN mod
    /\ mod.css \in Seq(Nodes) /\ ImportsFirst(mod.css)
    /\ Commenting(mod.comments)
    /\ mod.upstream \in Seq(known)
Kept(mods)    == IsFiniteSet(DOMAIN mods) /\ \A u \in DOMAIN mods : Bound(mods[u], DOMAIN mods)
Laid(s, mods) == Kept(mods) /\ \A k \in 1..Len(s) : Sheet(s[k], DOMAIN mods)

(* The rules of a file in a sequence of nodes: each place of a set once; one *)
(* file's rules before another's.                                           *)
RulesIn(s, m) == {k \in 1..Len(s) : s[k].kind = "rule" /\ s[k].file = m}
Each(s, m, places) ==
    /\ {s[k].at : k \in RulesIn(s, m)} = places
    /\ \A j, k \in RulesIn(s, m) : s[j].at = s[k].at => j = k
Own(s, m) == \A k \in 1..Len(s) : s[k].kind = "rule" => s[k].file = m
Before(s, x, u) == \A j \in RulesIn(s, x), k \in RulesIn(s, u) : j < k

(* Where every file is loaded as a module: each frame has the rules passed,  *)
(* each module all of its own; a module depends on earlier ones, and only    *)
(* the entry point on the stack is nobody's upstream.                       *)
RulesOf(prog, m)  == {k \in 1..Len(prog[m]) : prog[m][k].op = "rule"}
Modular(prog)     == \A f \in Files : \A k \in 1..Len(prog[f]) : prog[f][k].op \notin {"import", "loadcss"}
Upstream(mod)     == {mod.upstream[i] : i \in 1..Len(mod.upstream)}
Written(prog, f)  == Own(f.root, f.file) /\ Each(f.root, f.file, {p \in RulesOf(prog, f.file) : p < f.pc})
Whole(prog, mods, u) ==
    /\ Own(mods[u].css, u) /\ Each(mods[u].css, u, RulesOf(prog, u))
    /\ mods[u].css # <<>> => mods[u].hasCss
    /\ \A x \in Upstream(mods[u]) : mods[x].hasCss => mods[u].hasCss
Ranked(mods, n, r) ==
    /\ r \in [DOMAIN mods -> 0..n]
    /\ \A u \in DOMAIN mods : r[u] < n
    /\ \A u \in DOMAIN mods : \A x \in Upstream(mods[u]) : r[x] < r[u]
Modules(prog, mods) ==
    /\ DOMAIN mods \subseteq Files
    /\ \A u \in DOMAIN mods : Whole(prog, mods, u)
    /\ \E n \in Nat : \E r \in [DOMAIN mods -> 0..n] : Ranked(mods, n, r)
Frames(prog, s, mods) ==
    /\ s[1].file = Entry /\ \A k \in 2..Len(s) : s[k].by = "load"
    /\ \A k \in 1..Len(s) - 1 : s[k].pc <= Len(prog[s[k].file])
    /\ \A k \in 1..Len(s) : s[k].file \notin DOMAIN mods /\ Written(prog, s[k])
    /\ \A x \in DOMAIN mods : \/ \E u \in DOMAIN mods : x \in Upstream(mods[u])
                              \/ \E k \in 1..Len(s) : x \in Upstream(s[k])
Whence(prog, s, mods) == Modular(prog) => Modules(prog, mods) /\ Frames(prog, s, mods)

CssInv ==
    /\ status = "running" => Laid(stack, modules) /\ Whence(program, stack, modules)
    /\ CssInOrder
-----------------------------------------------------------------------------
(* Induction on the naturals in the form the provers take: a set.           *)
LEMMA NatSet ==
    ASSUME NEW S, 0 \in S, \A n \in Nat : n \in S => n + 1 \in S
    PROVE  Nat \subseteq S
<1> DEFINE T == {0..n : n \in Nat \ S}
<1>1. SUFFICES ASSUME Nat \ S # {} PROVE FALSE
  OBVIOUS
<1>2. T \subseteq FiniteSubsetsOf(Nat) /\ T # {}
  <2>1. ASSUME NEW n \in Nat PROVE 0..n \in FiniteSubsetsOf(Nat)
    <3>1. IsFiniteSet(0..n)
      BY FS_Interval
    <3> QED
      BY <3>1 DEF FiniteSubsetsOf
  <2> QED
    BY <2>1, <1>1
<1>3. PICK x \in T : \A y \in T : <<y, x>> \notin StrictSubsetOrdering(Nat)
  <2> HIDE DEF T
  <2> QED
    BY <1>2, FS_StrictSubsetOrderingWellFounded, WFMin, Zenon
<1>4. PICK n \in Nat \ S : x = 0..n
  BY <1>3
<1>5. n - 1 \in Nat
  BY <1>4
<1>6. n - 1 \in S
  <2>1. SUFFICES ASSUME n - 1 \notin S PROVE FALSE
    OBVIOUS
  <2>2. 0..(n - 1) \in T
    BY <2>1, <1>5
  <2>3. <<0..(n - 1), x>> \in StrictSubsetOrdering(Nat)
    BY <1>4, <1>5 DEF StrictSubsetOrdering
  <2> QED
    BY <2>2, <2>3, <1>3
<1> QED
  BY <1>4, <1>5, <1>6

LEMMA Greatest ==
    ASSUME NEW n \in Nat, NEW S \in SUBSET (0..n), S # {}
    PROVE  \E x \in S : \A y \in S : x >= y
<1> DEFINE G(k) == \A T \in SUBSET (0..k) : T # {} => \E x \in T : \A y \in T : x >= y
           N    == {k \in Nat : G(k)}
<1>1. 0 \in N
  <2>1. ASSUME NEW T \in SUBSET (0..0), T # {}
        PROVE  \E x \in T : \A y \in T : x >= y
    <3>1. \A y \in T : y = 0
      OBVIOUS
    <3>2. PICK x \in T : TRUE
      BY <2>1
    <3>3. \A y \in T : x >= y
      BY <3>1, <3>2
    <3> QED
      BY <3>2, <3>3
  <2> QED
    BY <2>1
<1>2. ASSUME NEW k \in Nat, k \in N PROVE k + 1 \in N
  <2>1. ASSUME NEW T \in SUBSET (0..(k + 1)), T # {}
        PROVE  \E x \in T : \A y \in T : x >= y
    <3>1. CASE k + 1 \in T
      BY <3>1
    <3>2. CASE k + 1 \notin T
      <4>1. T \in SUBSET (0..k)
        BY <3>2
      <4> QED
        BY <4>1, <2>1, <1>2
    <3> QED
      BY <3>1, <3>2
  <2> QED
    BY <2>1
<1>3. n \in N
  <2> HIDE DEF N
  <2> QED
    BY <1>1, <1>2, NatSet
<1> QED
  BY <1>3

-----------------------------------------------------------------------------
(* Sequences *)

LEMMA ConcatIs ==
    ASSUME NEW S, NEW s \in Seq(S), NEW t \in Seq(S)
    PROVE  /\ s \o t \in Seq(S)
           /\ Len(s) \in Nat /\ Len(t) \in Nat /\ Len(s \o t) = Len(s) + Len(t)
           /\ \A k \in 1..Len(s) : (s \o t)[k] = s[k]
           /\ \A k \in 1..Len(t) : (s \o t)[Len(s) + k] = t[k]
           /\ \A k \in 1..Len(s \o t) :
                 k \in 1..Len(s) \/ (k - Len(s) \in 1..Len(t) /\ (s \o t)[k] = t[k - Len(s)])
<1>1. Len(s) \in Nat /\ Len(t) \in Nat
  OBVIOUS
<1>2. /\ s \o t \in Seq(S) /\ Len(s \o t) = Len(s) + Len(t)
      /\ \A k \in 1..Len(s) + Len(t) : (s \o t)[k] = IF k <= Len(s) THEN s[k] ELSE t[k - Len(s)]
  BY ConcatProperties
<1> QED
  BY <1>1, <1>2

LEMMA SliceIs ==
    ASSUME NEW S, NEW s \in Seq(S), NEW k \in 0..Len(s)
    PROVE  /\ Len(s) \in Nat
           /\ SubSeq(s, 1, k) \in Seq(S) /\ Len(SubSeq(s, 1, k)) = k
           /\ \A i \in 1..k : SubSeq(s, 1, k)[i] = s[i]
           /\ SubSeq(s, k + 1, Len(s)) \in Seq(S) /\ Len(SubSeq(s, k + 1, Len(s))) = Len(s) - k
           /\ \A i \in 1..(Len(s) - k) : SubSeq(s, k + 1, Len(s))[i] = s[k + i]
<1>1. Len(s) \in Nat /\ k \in Int /\ k + 1 \in Int /\ Len(s) \in Int
  OBVIOUS
<1>2. \A i \in 1..k : s[i] \in S
  BY <1>1
<1>3. \A i \in (k + 1)..Len(s) : s[i] \in S
  BY <1>1
<1>4. /\ SubSeq(s, 1, k) \in Seq(S) /\ Len(SubSeq(s, 1, k)) = IF 1 <= k THEN k - 1 + 1 ELSE 0
      /\ \A i \in 1..k - 1 + 1 : SubSeq(s, 1, k)[i] = s[1 + i - 1]
  BY <1>1, <1>2, SubSeqProperties
<1>5. /\ SubSeq(s, k + 1, Len(s)) \in Seq(S)
      /\ Len(SubSeq(s, k + 1, Len(s))) = IF k + 1 <= Len(s) THEN Len(s) - (k + 1) + 1 ELSE 0
      /\ \A i \in 1..Len(s) - (k + 1) + 1 : SubSeq(s, k + 1, Len(s))[i] = s[k + 1 + i - 1]
  BY <1>1, <1>3, SubSeqProperties
<1>6. \A i \in 1..k : SubSeq(s, 1, k)[i] = s[i]
  BY <1>1, <1>4
<1>7. \A i \in 1..(Len(s) - k) : SubSeq(s, k + 1, Len(s))[i] = s[k + i]
  BY <1>1, <1>5
<1> QED
  BY <1>1, <1>4, <1>5, <1>6, <1>7
-----------------------------------------------------------------------------
(* The folds of the model, as the steps they take.                          *)
(* The comments of a root, one after the other.                             *)
LEMMA CommentsAre ==
    ASSUME NEW nodes, Len(nodes) \in Nat
    PROVE  \E acc :
             /\ acc[0] = <<>> /\ CommentsIn(nodes) = acc[Len(nodes)]
             /\ \A k \in 1..Len(nodes) :
                   acc[k] = IF nodes[k].kind = "comment" THEN Append(acc[k - 1], nodes[k]) ELSE acc[k - 1]
<1> DEFINE base    == <<>>
           n       == Len(nodes)
           Op(a, k) == IF nodes[k].kind = "comment" THEN Append(a, nodes[k]) ELSE a
           G(i, g) == [k \in 0..i |-> IF k = 0 THEN base
                                      ELSE CHOOSE r \in {Op(a, k) : a \in {g[k - 1]}} : TRUE]
           S       == {i \in Nat : \E g : g = G(i, g)}
           acc     == CHOOSE g : g = G(n, g)
<1>1. CommentsIn(nodes) = acc[n]
  BY DEF CommentsIn, Fold
<1> HIDE DEF Op, base
<1>2. ASSUME NEW x, NEW k PROVE (CHOOSE r \in {Op(a, k) : a \in {x}} : TRUE) = Op(x, k)
  <2>1. {Op(a, k) : a \in {x}} = {Op(x, k)}
    OBVIOUS
  <2> QED
    BY <2>1
<1>3. \A i, g : G(i, g) = [k \in 0..i |-> IF k = 0 THEN base ELSE Op(g[k - 1], k)]
  BY <1>2
<1> HIDE DEF G
<1>4. 0 \in S
  <2>1. [k \in 0..0 |-> base] = G(0, [k \in 0..0 |-> base])
    BY <1>3
  <2> QED
    BY <2>1
<1>5. ASSUME NEW i \in Nat, i \in S PROVE i + 1 \in S
  <2>1. PICK g : g = [k \in 0..i |-> IF k = 0 THEN base ELSE Op(g[k - 1], k)]
    BY <1>3, <1>5
  <2> DEFINE h == [k \in 0..(i + 1) |-> IF k = i + 1 THEN Op(g[i], i + 1) ELSE g[k]]
  <2>2. ASSUME NEW k \in 0..(i + 1) PROVE h[k] = IF k = 0 THEN base ELSE Op(h[k - 1], k)
    <3>1. CASE k = i + 1
      BY <3>1
    <3>2. CASE k # i + 1
      <4>1. k \in 0..i /\ h[k] = g[k] /\ (k # 0 => h[k - 1] = g[k - 1])
        BY <3>2
      <4>2. g[k] = IF k = 0 THEN base ELSE Op(g[k - 1], k)
        BY <2>1, <4>1
      <4> QED
        BY <4>1, <4>2
    <3> QED
      BY <3>1, <3>2
  <2>3. h = [k \in 0..(i + 1) |-> IF k = 0 THEN base ELSE Op(h[k - 1], k)]
    BY <2>2
  <2> HIDE DEF h
  <2>4. h = G(i + 1, h) /\ i + 1 \in Nat
    BY <1>3, <2>3
  <2> QED
    BY <2>4
<1>6. n \in S
  <2> HIDE DEF S
  <2> QED
    BY <1>4, <1>5, NatSet
<1>7. acc = G(n, acc)
  BY <1>6
<1> HIDE DEF acc
<1>8. acc = [k \in 0..n |-> IF k = 0 THEN base ELSE Op(acc[k - 1], k)]
  BY <1>3, <1>7
<1>9. acc[0] = base /\ \A k \in 1..n : acc[k] = Op(acc[k - 1], k)
  BY <1>8
<1> QED
  BY <1>1, <1>9 DEF Op, base

(* A combined stylesheet, copied into a frame.                              *)
VisitNode(f, n) ==
    CASE n.kind = "import"  -> AddImport(f, n)
      [] n.kind = "comment" -> AddComment(f, n)
      [] n.kind = "rule"    -> AddChild(f, n)
LEMMA CombinedAre ==
    ASSUME NEW f, NEW nodes, Len(nodes) \in Nat
    PROVE  \E acc :
             /\ acc[0] = f /\ CombinedCss(f, nodes) = acc[Len(nodes)]
             /\ \A k \in 1..Len(nodes) :
                   acc[k] = VisitNode(acc[k - 1], nodes[k])
<1> DEFINE base    == f
           n       == Len(nodes)
           Op(a, k) == VisitNode(a, nodes[k])
           G(i, g) == [k \in 0..i |-> IF k = 0 THEN base
                                      ELSE CHOOSE r \in {Op(a, k) : a \in {g[k - 1]}} : TRUE]
           S       == {i \in Nat : \E g : g = G(i, g)}
           acc     == CHOOSE g : g = G(n, g)
<1>1. CombinedCss(f, nodes) = acc[n]
  BY DEF CombinedCss, Fold, VisitNode
<1> HIDE DEF Op, base
<1>2. ASSUME NEW x, NEW k PROVE (CHOOSE r \in {Op(a, k) : a \in {x}} : TRUE) = Op(x, k)
  <2>1. {Op(a, k) : a \in {x}} = {Op(x, k)}
    OBVIOUS
  <2> QED
    BY <2>1
<1>3. \A i, g : G(i, g) = [k \in 0..i |-> IF k = 0 THEN base ELSE Op(g[k - 1], k)]
  BY <1>2
<1> HIDE DEF G
<1>4. 0 \in S
  <2>1. [k \in 0..0 |-> base] = G(0, [k \in 0..0 |-> base])
    BY <1>3
  <2> QED
    BY <2>1
<1>5. ASSUME NEW i \in Nat, i \in S PROVE i + 1 \in S
  <2>1. PICK g : g = [k \in 0..i |-> IF k = 0 THEN base ELSE Op(g[k - 1], k)]
    BY <1>3, <1>5
  <2> DEFINE h == [k \in 0..(i + 1) |-> IF k = i + 1 THEN Op(g[i], i + 1) ELSE g[k]]
  <2>2. ASSUME NEW k \in 0..(i + 1) PROVE h[k] = IF k = 0 THEN base ELSE Op(h[k - 1], k)
    <3>1. CASE k = i + 1
      BY <3>1
    <3>2. CASE k # i + 1
      <4>1. k \in 0..i /\ h[k] = g[k] /\ (k # 0 => h[k - 1] = g[k - 1])
        BY <3>2
      <4>2. g[k] = IF k = 0 THEN base ELSE Op(g[k - 1], k)
        BY <2>1, <4>1
      <4> QED
        BY <4>1, <4>2
    <3> QED
      BY <3>1, <3>2
  <2>3. h = [k \in 0..(i + 1) |-> IF k = 0 THEN base ELSE Op(h[k - 1], k)]
    BY <2>2
  <2> HIDE DEF h
  <2>4. h = G(i + 1, h) /\ i + 1 \in Nat
    BY <1>3, <2>3
  <2> QED
    BY <2>4
<1>6. n \in S
  <2> HIDE DEF S
  <2> QED
    BY <1>4, <1>5, NatSet
<1>7. acc = G(n, acc)
  BY <1>6
<1> HIDE DEF acc
<1>8. acc = [k \in 0..n |-> IF k = 0 THEN base ELSE Op(acc[k - 1], k)]
  BY <1>3, <1>7
<1>9. acc[0] = base /\ \A k \in 1..n : acc[k] = Op(acc[k - 1], k)
  BY <1>8
<1> QED
  BY <1>1, <1>9 DEF Op, base

(* An imported one.                                                         *)
LEMMA ImportedAre ==
    ASSUME NEW f, NEW nodes, Len(nodes) \in Nat
    PROVE  \E acc :
             /\ acc[0] = f /\ ImportedCss(f, nodes) = acc[Len(nodes)]
             /\ \A k \in 1..Len(nodes) :
                   acc[k] = IF nodes[k].kind = "import" THEN AddImport(acc[k - 1], nodes[k])
                            ELSE AddChild(acc[k - 1], nodes[k])
<1> DEFINE base    == f
           n       == Len(nodes)
           Op(a, k) == IF nodes[k].kind = "import" THEN AddImport(a, nodes[k]) ELSE AddChild(a, nodes[k])
           G(i, g) == [k \in 0..i |-> IF k = 0 THEN base
                                      ELSE CHOOSE r \in {Op(a, k) : a \in {g[k - 1]}} : TRUE]
           S       == {i \in Nat : \E g : g = G(i, g)}
           acc     == CHOOSE g : g = G(n, g)
<1>1. ImportedCss(f, nodes) = acc[n]
  BY DEF ImportedCss, Fold
<1> HIDE DEF Op, base
<1>2. ASSUME NEW x, NEW k PROVE (CHOOSE r \in {Op(a, k) : a \in {x}} : TRUE) = Op(x, k)
  <2>1. {Op(a, k) : a \in {x}} = {Op(x, k)}
    OBVIOUS
  <2> QED
    BY <2>1
<1>3. \A i, g : G(i, g) = [k \in 0..i |-> IF k = 0 THEN base ELSE Op(g[k - 1], k)]
  BY <1>2
<1> HIDE DEF G
<1>4. 0 \in S
  <2>1. [k \in 0..0 |-> base] = G(0, [k \in 0..0 |-> base])
    BY <1>3
  <2> QED
    BY <2>1
<1>5. ASSUME NEW i \in Nat, i \in S PROVE i + 1 \in S
  <2>1. PICK g : g = [k \in 0..i |-> IF k = 0 THEN base ELSE Op(g[k - 1], k)]
    BY <1>3, <1>5
  <2> DEFINE h == [k \in 0..(i + 1) |-> IF k = i + 1 THEN Op(g[i], i + 1) ELSE g[k]]
  <2>2. ASSUME NEW k \in 0..(i + 1) PROVE h[k] = IF k = 0 THEN base ELSE Op(h[k - 1], k)
    <3>1. CASE k = i + 1
      BY <3>1
    <3>2. CASE k # i + 1
      <4>1. k \in 0..i /\ h[k] = g[k] /\ (k # 0 => h[k - 1] = g[k - 1])
        BY <3>2
      <4>2. g[k] = IF k = 0 THEN base ELSE Op(g[k - 1], k)
        BY <2>1, <4>1
      <4> QED
        BY <4>1, <4>2
    <3> QED
      BY <3>1, <3>2
  <2>3. h = [k \in 0..(i + 1) |-> IF k = 0 THEN base ELSE Op(h[k - 1], k)]
    BY <2>2
  <2> HIDE DEF h
  <2>4. h = G(i + 1, h) /\ i + 1 \in Nat
    BY <1>3, <2>3
  <2> QED
    BY <2>4
<1>6. n \in S
  <2> HIDE DEF S
  <2> QED
    BY <1>4, <1>5, NatSet
<1>7. acc = G(n, acc)
  BY <1>6
<1> HIDE DEF acc
<1>8. acc = [k \in 0..n |-> IF k = 0 THEN base ELSE Op(acc[k - 1], k)]
  BY <1>3, <1>7
<1>9. acc[0] = base /\ \A k \in 1..n : acc[k] = Op(acc[k - 1], k)
  BY <1>8
<1> QED
  BY <1>1, <1>9 DEF Op, base

(* The depth first search of combineCss. *)
Start(url) == [todo |-> <<Visit(url, <<>>)>>, seen |-> {}, imports |-> <<>>, css |-> <<>>]
LEMMA SearchIs ==
    ASSUME NEW mods, NEW url, Cardinality(Tasks(mods)) \in Nat
    PROVE  LET n == Cardinality(Tasks(mods)) + 1
           IN  \E acc :
                 /\ acc[0] = Start(url)
                 /\ CombineCss(mods, url) = acc[n].imports \o acc[n].css
                 /\ \A k \in 1..n : acc[k] = CombineStep(mods, acc[k - 1])
<1> DEFINE base    == Start(url)
           n       == Cardinality(Tasks(mods)) + 1
           Op(a, k) == CombineStep(mods, a)
           G(i, g) == [k \in 0..i |-> IF k = 0 THEN base
                                      ELSE CHOOSE r \in {Op(a, k) : a \in {g[k - 1]}} : TRUE]
           S       == {i \in Nat : \E g : g = G(i, g)}
           acc     == CHOOSE g : g = G(n, g)
<1>0. n \in Nat /\ Len([k \in 1..n |-> k]) = n
  OBVIOUS
<1>1. CombineCss(mods, url) = acc[n].imports \o acc[n].css
  <2>1. CombineCss(mods, url) =
          LET w == Fold(LAMBDA w, k : CombineStep(mods, w), base, [k \in 1..n |-> k])
          IN  w.imports \o w.css
    BY DEF CombineCss, Start
  <2>2. Fold(LAMBDA w, k : CombineStep(mods, w), base, [k \in 1..n |-> k]) = acc[n]
    BY <1>0 DEF Fold
  <2> QED
    BY <2>1, <2>2
<1> HIDE DEF Op, base, n
<1>2. ASSUME NEW x, NEW k PROVE (CHOOSE r \in {Op(a, k) : a \in {x}} : TRUE) = Op(x, k)
  <2>1. {Op(a, k) : a \in {x}} = {Op(x, k)}
    OBVIOUS
  <2> QED
    BY <2>1
<1>3. \A i, g : G(i, g) = [k \in 0..i |-> IF k = 0 THEN base ELSE Op(g[k - 1], k)]
  BY <1>2
<1> HIDE DEF G
<1>4. 0 \in S
  <2>1. [k \in 0..0 |-> base] = G(0, [k \in 0..0 |-> base])
    BY <1>3
  <2> QED
    BY <2>1
<1>5. ASSUME NEW i \in Nat, i \in S PROVE i + 1 \in S
  <2>1. PICK g : g = [k \in 0..i |-> IF k = 0 THEN base ELSE Op(g[k - 1], k)]
    BY <1>3, <1>5
  <2> DEFINE h == [k \in 0..(i + 1) |-> IF k = i + 1 THEN Op(g[i], i + 1) ELSE g[k]]
  <2>2. ASSUME NEW k \in 0..(i + 1) PROVE h[k] = IF k = 0 THEN base ELSE Op(h[k - 1], k)
    <3>1. CASE k = i + 1
      BY <3>1
    <3>2. CASE k # i + 1
      <4>1. k \in 0..i /\ h[k] = g[k] /\ (k # 0 => h[k - 1] = g[k - 1])
        BY <3>2
      <4>2. g[k] = IF k = 0 THEN base ELSE Op(g[k - 1], k)
        BY <2>1, <4>1
      <4> QED
        BY <4>1, <4>2
    <3> QED
      BY <3>1, <3>2
  <2>3. h = [k \in 0..(i + 1) |-> IF k = 0 THEN base ELSE Op(h[k - 1], k)]
    BY <2>2
  <2> HIDE DEF h
  <2>4. h = G(i + 1, h) /\ i + 1 \in Nat
    BY <1>3, <2>3
  <2> QED
    BY <2>4
<1>6. n \in S
  <2> HIDE DEF S
  <2> QED
    BY <1>0, <1>4, <1>5, NatSet
<1>7. acc = G(n, acc)
  BY <1>6
<1> HIDE DEF acc
<1>8. acc = [k \in 0..n |-> IF k = 0 THEN base ELSE Op(acc[k - 1], k)]
  BY <1>3, <1>7
<1>9. acc[0] = base /\ \A k \in 1..n : acc[k] = Op(acc[k - 1], k)
  BY <1>0, <1>8
<1> QED
  BY <1>1, <1>9 DEF Op, base, n

-----------------------------------------------------------------------------
(* combineCss, whatever the modules are: what it collects as imports holds  *)
(* no rule, and the rest no @import.                                        *)
Opening == Of({"import", "comment"})
Closing == Of({"comment", "rule"})
Calls(mods) == [task : {"visit", "emit"}, url : DOMAIN mods, comments : Seq(Remarks)]
Walk(mods, w) ==
    /\ DOMAIN w = {"todo", "seen", "imports", "css"}
    /\ w.todo \in Seq(Calls(mods)) /\ w.seen \subseteq DOMAIN mods
    /\ w.imports \in Seq(Opening) /\ w.css \in Seq(Closing)

LEMMA Kinds ==
    /\ Seq(Remarks) \subseteq Seq(Opening) /\ Seq(Remarks) \subseteq Seq(Closing)
    /\ Seq(Remarks) \subseteq Seq(Nodes) /\ Seq(Opening) \subseteq Seq(Nodes)
    /\ Seq(Closing) \subseteq Seq(Nodes)
    /\ \A n \in Opening : n.kind # "rule"
    /\ \A n \in Closing : n.kind # "import"
    /\ \A n \in Remarks : n.kind = "comment"
<1>1. /\ Remarks \subseteq Opening /\ Remarks \subseteq Closing
      /\ Opening \subseteq Nodes /\ Closing \subseteq Nodes /\ Remarks \subseteq Nodes
  BY DEF Remarks, Opening, Closing, Nodes, Of
<1>2. /\ \A n \in Opening : n.kind # "rule"
      /\ \A n \in Closing : n.kind # "import"
      /\ \A n \in Remarks : n.kind = "comment"
  BY DEF Remarks, Opening, Closing, Of
<1>3. \A S, T : S \subseteq T => Seq(S) \subseteq Seq(T)
  OBVIOUS
<1> QED
  BY <1>1, <1>2, <1>3

LEMMA TasksFinite ==
    ASSUME NEW mods, Kept(mods)
    PROVE  IsFiniteSet(Tasks(mods)) /\ Cardinality(Tasks(mods)) \in Nat
<1> DEFINE D    == DOMAIN mods
           F(u) == {u} \X (1..Len(mods[u].upstream) + 1)
           S    == {F(u) : u \in D}
           f    == [u \in D |-> F(u)]
<1>1. ASSUME NEW u \in D PROVE IsFiniteSet(F(u))
  <2>1. 1 \in Int /\ Len(mods[u].upstream) + 1 \in Int
    BY DEF Kept, Bound
  <2>2. IsFiniteSet(1..Len(mods[u].upstream) + 1) /\ IsFiniteSet({u})
    BY <2>1, FS_Interval, FS_Singleton
  <2> QED
    BY <2>2, FS_Product
<1> HIDE DEF F
<1>2. f \in Surjection(D, S)
  BY DEF Surjection
<1>3. IsFiniteSet(S)
  BY <1>2, FS_Surjection DEF Kept
<1>4. IsFiniteSet(UNION S)
  BY <1>1, <1>3, FS_UNION
<1>5. UNION S = Tasks(mods)
  BY DEF Tasks, F
<1> QED
  BY <1>4, <1>5, FS_CardinalityType

LEMMA SplitCss ==
    ASSUME NEW css \in Seq(Nodes), ImportsFirst(css)
    PROVE  LET n == IndexAfterImports(css)
           IN  /\ n \in 0..Len(css) /\ \A i \in 1..n : css[i].kind # "rule"
               /\ SubSeq(css, 1, n) \in Seq(Opening)
               /\ SubSeq(css, n + 1, Len(css)) \in Seq(Closing)
<1> DEFINE lead == {i \in 1..Len(css) : css[i].kind = "import" /\ \A j \in 1..i : css[j].kind # "rule"}
           n    == IndexAfterImports(css)
           s    == SubSeq(css, 1, n)
           t    == SubSeq(css, n + 1, Len(css))
<1>1. Len(css) \in Nat /\ \A i \in 1..Len(css) : css[i] \in Nodes
  OBVIOUS
<1>2. lead \in SUBSET (0..Len(css))
  BY <1>1
<1>3. /\ n = IF lead = {} THEN 0 ELSE CHOOSE x \in lead : \A y \in lead : x >= y
  BY DEF IndexAfterImports, Max
<1>4. IF lead = {} THEN n = 0 ELSE n \in lead /\ \A y \in lead : n >= y
  <2> HIDE DEF lead, n
  <2> QED
    BY <1>1, <1>2, <1>3, Greatest
<1>5. n \in 0..Len(css)
  BY <1>1, <1>4
<1>6. \A i \in 1..n : css[i].kind # "rule"
  BY <1>4
<1>7. ASSUME NEW i \in (n + 1)..Len(css) PROVE css[i].kind # "import"
  <2>1. SUFFICES ASSUME css[i].kind = "import" PROVE FALSE
    OBVIOUS
  <2>2. i \in 1..Len(css)
    BY <1>1, <1>5
  <2>3. \A j \in 1..i : css[j].kind # "rule"
    BY <1>1, <2>1, <2>2 DEF ImportsFirst
  <2>4. i \in lead
    BY <2>1, <2>2, <2>3
  <2> HIDE DEF lead, n
  <2> QED
    BY <1>1, <1>4, <1>5, <2>4
<1> HIDE DEF n
<1>8. /\ s \in Seq(Nodes) /\ Len(s) = n /\ \A i \in 1..n : s[i] = css[i]
      /\ t \in Seq(Nodes) /\ Len(t) = Len(css) - n
      /\ \A i \in 1..(Len(css) - n) : t[i] = css[n + i]
  BY <1>5, SliceIs
<1> HIDE DEF s, t
<1>9. ASSUME NEW i \in 1..n PROVE s[i] \in Opening
  BY <1>1, <1>5, <1>6, <1>8 DEF Nodes, Opening, Of
<1>10. ASSUME NEW i \in 1..(Len(css) - n) PROVE t[i] \in Closing
  <2>1. n + i \in (n + 1)..Len(css) /\ n + i \in 1..Len(css)
    BY <1>1, <1>5
  <2> QED
    BY <1>1, <1>7, <1>8, <2>1 DEF Nodes, Closing, Of
<1>11. s \in Seq(Opening)
  BY <1>5, <1>8, <1>9
<1>12. t \in Seq(Closing)
  BY <1>1, <1>5, <1>8, <1>10
<1> QED
  BY <1>5, <1>6, <1>11, <1>12 DEF n, s, t

(* A step of the search: what is left to do, what is seen, and what is put  *)
(* behind the imports and behind the rest.                                  *)
Emits(mods, w, v) ==
    LET css == mods[Head(w.todo).url].css
        n   == IndexAfterImports(css)
    IN  /\ Head(w.todo).task = "emit"
        /\ v.todo = Tail(w.todo) /\ v.seen = w.seen
        /\ v.imports = w.imports \o SubSeq(css, 1, n)
        /\ v.css = w.css \o SubSeq(css, n + 1, Len(css))
Visits(mods, w, v) ==
    /\ Head(w.todo).task = "visit"
    /\ \E a, b \in Seq(Remarks) : v.imports = w.imports \o a /\ v.css = w.css \o b
    /\ \/ ~mods[Head(w.todo).url].hasCss /\ v.todo = Tail(w.todo) /\ v.seen = w.seen
       \/ Head(w.todo).url \in w.seen /\ v.todo = Tail(w.todo) /\ v.seen = w.seen
       \/ /\ mods[Head(w.todo).url].hasCss /\ Head(w.todo).url \notin w.seen
          /\ v.todo = VisitModule(mods, Head(w.todo).url) \o Tail(w.todo)
          /\ v.seen = w.seen \cup {Head(w.todo).url}

LEMMA StepIs ==
    ASSUME NEW mods, NEW w, Walk(mods, w), w.todo # <<>>
    PROVE  /\ Head(w.todo) \in Calls(mods) /\ Tail(w.todo) \in Seq(Calls(mods))
           /\ DOMAIN CombineStep(mods, w) = DOMAIN w
           /\ Emits(mods, w, CombineStep(mods, w)) \/ Visits(mods, w, CombineStep(mods, w))
<1> DEFINE t    == Head(w.todo)
           rest == [w EXCEPT !.todo = Tail(@)]
           css  == mods[t.url].css
           n    == IndexAfterImports(css)
           said == Commented(rest, t.comments)
           v    == CombineStep(mods, w)
<1>1. /\ w.todo \in Seq(Calls(mods)) /\ w.imports \in Seq(Opening) /\ w.css \in Seq(Closing)
      /\ DOMAIN w = {"todo", "seen", "imports", "css"}
  BY DEF Walk
<1>2. t \in Calls(mods) /\ Tail(w.todo) \in Seq(Calls(mods))
  BY <1>1
<1>3. t.task \in {"emit", "visit"} /\ t.comments \in Seq(Remarks)
  BY <1>2 DEF Calls
<1>4. v = IF t.task = "emit"
          THEN [rest EXCEPT !.imports = @ \o SubSeq(css, 1, n), !.css = @ \o SubSeq(css, n + 1, Len(css))]
          ELSE IF ~mods[t.url].hasCss THEN rest
          ELSE IF t.url \in w.seen THEN said
          ELSE [said EXCEPT !.seen = @ \cup {t.url}, !.todo = VisitModule(mods, t.url) \o @]
  BY DEF CombineStep
<1>5. /\ DOMAIN rest = DOMAIN w /\ rest.todo = Tail(w.todo) /\ rest.seen = w.seen
      /\ rest.imports = w.imports /\ rest.css = w.css
  BY <1>1
<1> HIDE DEF t, rest, css, n, v
<1>6. w.imports \o <<>> = w.imports /\ w.css \o <<>> = w.css /\ <<>> \in Seq(Remarks)
  BY <1>1
<1>7. /\ DOMAIN said = DOMAIN w /\ said.todo = Tail(w.todo) /\ said.seen = w.seen
      /\ \E a, b \in Seq(Remarks) : said.imports = w.imports \o a /\ said.css = w.css \o b
  <2>1. CASE rest.css = <<>>
    <3>1. said = [rest EXCEPT !.imports = @ \o t.comments]
      BY <2>1 DEF Commented
    <3>2. /\ DOMAIN said = DOMAIN w /\ said.todo = Tail(w.todo) /\ said.seen = w.seen
          /\ said.imports = w.imports \o t.comments /\ said.css = w.css
      BY <1>1, <1>5, <3>1
    <3> QED
      BY <1>3, <1>6, <3>2
  <2>2. CASE rest.css # <<>>
    <3>1. said = [rest EXCEPT !.css = @ \o t.comments]
      BY <2>2 DEF Commented
    <3>2. /\ DOMAIN said = DOMAIN w /\ said.todo = Tail(w.todo) /\ said.seen = w.seen
          /\ said.imports = w.imports /\ said.css = w.css \o t.comments
      BY <1>1, <1>5, <3>1
    <3> QED
      BY <1>3, <1>6, <3>2
  <2> QED
    BY <2>1, <2>2
<1> HIDE DEF said
<1>8. ASSUME t.task = "emit" PROVE Emits(mods, w, v)
  <2>1. v = [rest EXCEPT !.imports = @ \o SubSeq(css, 1, n), !.css = @ \o SubSeq(css, n + 1, Len(css))]
    BY <1>4, <1>8
  <2>2. /\ v.todo = Tail(w.todo) /\ v.seen = w.seen
        /\ v.imports = w.imports \o SubSeq(css, 1, n)
        /\ v.css = w.css \o SubSeq(css, n + 1, Len(css))
    BY <1>1, <1>5, <2>1
  <2> QED
    BY <1>2, <1>8, <2>2 DEF Emits, t, css, n, v
<1>9. ASSUME t.task = "visit" /\ ~mods[t.url].hasCss
      PROVE  Visits(mods, w, v)
  <2>1. v = rest
    BY <1>4, <1>9
  <2> QED
    BY <1>2, <1>5, <1>6, <1>9, <2>1 DEF Visits, t, v
<1>10. ASSUME t.task = "visit" /\ mods[t.url].hasCss /\ t.url \in w.seen
      PROVE  Visits(mods, w, v)
  <2>1. v = said
    BY <1>4, <1>10
  <2> QED
    BY <1>2, <1>7, <1>10, <2>1 DEF Visits, t, v
<1>11. ASSUME t.task = "visit" /\ mods[t.url].hasCss /\ t.url \notin w.seen
      PROVE  Visits(mods, w, v)
  <2>1. v = [said EXCEPT !.seen = @ \cup {t.url}, !.todo = VisitModule(mods, t.url) \o @]
    BY <1>4, <1>11
  <2>2. /\ v.todo = VisitModule(mods, t.url) \o Tail(w.todo) /\ v.seen = w.seen \cup {t.url}
        /\ v.imports = said.imports /\ v.css = said.css
    BY <1>1, <1>7, <2>1
  <2> QED
    BY <1>2, <1>7, <1>11, <2>2 DEF Visits, t, v
<1>12. DOMAIN v = DOMAIN w
  BY <1>4, <1>5, <1>7
<1> QED
  BY <1>2, <1>3, <1>8, <1>9, <1>10, <1>11, <1>12 DEF t, v

(* What the visit of a module leaves to do: its upstream modules, then itself. *)
LEMMA VisitIs ==
    ASSUME NEW mods, Kept(mods), NEW u \in DOMAIN mods
    PROVE  LET t == VisitModule(mods, u)
               n == Len(mods[u].upstream)
           IN  /\ n \in Nat /\ t \in Seq(Calls(mods)) /\ Len(t) = n + 1
               /\ \A k \in 1..n : t[k].task = "visit" /\ t[k].url = mods[u].upstream[k]
               /\ t[n + 1].task = "emit" /\ t[n + 1].url = u
<1> DEFINE t == VisitModule(mods, u)
           n == Len(mods[u].upstream)
           c(k) == CommentsOf(mods[u], mods[u].upstream[k])
<1>1. n \in Nat /\ \A k \in 1..n : mods[u].upstream[k] \in DOMAIN mods
  BY DEF Kept, Bound
<1>2. t = [k \in 1..n + 1 |-> IF k > n THEN Emit(u) ELSE Visit(mods[u].upstream[k], c(k))]
  BY DEF VisitModule
<1>3. \A k \in 1..n : c(k) \in Seq(Remarks)
  <2>1. <<>> \in Seq(Remarks)
    OBVIOUS
  <2> QED
    BY <1>1, <2>1 DEF CommentsOf, Kept, Bound, Commenting
<1> HIDE DEF t, c, n
<1>4. ASSUME NEW k \in 1..n
      PROVE  t[k] \in Calls(mods) /\ t[k].task = "visit" /\ t[k].url = mods[u].upstream[k]
  <2>1. t[k] = Visit(mods[u].upstream[k], c(k))
    BY <1>1, <1>2
  <2> QED
    BY <1>1, <1>3, <2>1 DEF Visit, Calls
<1>5. t[n + 1] \in Calls(mods) /\ t[n + 1].task = "emit" /\ t[n + 1].url = u
  <2>1. t[n + 1] = Emit(u)
    BY <1>1, <1>2
  <2>2. <<>> \in Seq(Remarks)
    OBVIOUS
  <2> QED
    BY <2>1, <2>2 DEF Emit, Calls
<1>6. n + 1 \in Nat /\ DOMAIN t = 1..n + 1 /\ t = [k \in 1..n + 1 |-> t[k]]
  BY <1>1, <1>2
<1>7. \A k \in 1..n + 1 : t[k] \in Calls(mods)
  BY <1>1, <1>4, <1>5
<1>8. t \in Seq(Calls(mods)) /\ Len(t) = n + 1
  BY <1>6, <1>7
<1> QED
  BY <1>1, <1>4, <1>5, <1>8 DEF t, n

LEMMA StepWalks ==
    ASSUME NEW mods, Kept(mods), NEW w, Walk(mods, w)
    PROVE  Walk(mods, CombineStep(mods, w))
<1> DEFINE v == CombineStep(mods, w)
           t == Head(w.todo)
<1>1. CASE w.todo = <<>>
  BY <1>1 DEF CombineStep
<1>2. CASE w.todo # <<>>
  <2>1. /\ t \in Calls(mods) /\ Tail(w.todo) \in Seq(Calls(mods)) /\ DOMAIN v = DOMAIN w
        /\ Emits(mods, w, v) \/ Visits(mods, w, v)
    BY <1>2, StepIs
  <2>2. t.url \in DOMAIN mods
    BY <2>1 DEF Calls
  <2> HIDE DEF v
  <2>3. CASE Emits(mods, w, v)
    <3> DEFINE css == mods[t.url].css
               n   == IndexAfterImports(css)
    <3>1. SubSeq(css, 1, n) \in Seq(Opening) /\ SubSeq(css, n + 1, Len(css)) \in Seq(Closing)
      BY <2>2, SplitCss DEF Kept, Bound
    <3>2. /\ v.todo = Tail(w.todo) /\ v.seen = w.seen
          /\ v.imports = w.imports \o SubSeq(css, 1, n)
          /\ v.css = w.css \o SubSeq(css, n + 1, Len(css))
      BY <2>3 DEF Emits
    <3> HIDE DEF css, n
    <3>3. v.imports \in Seq(Opening) /\ v.css \in Seq(Closing)
      BY <3>1, <3>2, ConcatIs DEF Walk
    <3> QED
      BY <2>1, <3>2, <3>3 DEF Walk, v
  <2>4. CASE Visits(mods, w, v)
    <3>1. PICK a, b \in Seq(Remarks) : v.imports = w.imports \o a /\ v.css = w.css \o b
      BY <2>4 DEF Visits
    <3>2. a \in Seq(Opening) /\ b \in Seq(Closing)
      BY Kinds
    <3>3. v.imports \in Seq(Opening) /\ v.css \in Seq(Closing)
      BY <3>1, <3>2, ConcatIs DEF Walk
    <3>4. VisitModule(mods, t.url) \o Tail(w.todo) \in Seq(Calls(mods))
      BY <2>1, <2>2, VisitIs, ConcatIs
    <3>5. v.todo \in Seq(Calls(mods)) /\ v.seen \subseteq DOMAIN mods
      BY <2>1, <2>2, <2>4, <3>4 DEF Visits, Walk
    <3> QED
      BY <2>1, <3>3, <3>5 DEF Walk, v
  <2> QED
    BY <2>1, <2>3, <2>4
<1> QED
  BY <1>1, <1>2

LEMMA StartWalks ==
    ASSUME NEW mods, NEW url \in DOMAIN mods
    PROVE  Walk(mods, Start(url))
<1>1. /\ <<>> \in Seq(Remarks) /\ <<>> \in Seq(Opening) /\ <<>> \in Seq(Closing)
  OBVIOUS
<1>2. Visit(url, <<>>) \in Calls(mods)
  BY <1>1 DEF Visit, Calls
<1>3. <<Visit(url, <<>>)>> \in Seq(Calls(mods))
  BY <1>2
<1> HIDE DEF Calls
<1> QED
  BY <1>1, <1>3 DEF Start, Walk

(* The combined CSS is a sequence of nodes, its @imports before its rules. *)
LEMMA CombinedIs ==
    ASSUME NEW mods, Kept(mods), NEW url \in DOMAIN mods
    PROVE  CombineCss(mods, url) \in Seq(Nodes) /\ ImportsFirst(CombineCss(mods, url))
<1> DEFINE n == Cardinality(Tasks(mods)) + 1
<1>1. n \in Nat /\ Cardinality(Tasks(mods)) \in Nat
  BY TasksFinite
<1>2. PICK acc : /\ acc[0] = Start(url)
                 /\ CombineCss(mods, url) = acc[n].imports \o acc[n].css
                 /\ \A k \in 1..n : acc[k] = CombineStep(mods, acc[k - 1])
  BY <1>1, SearchIs
<1> HIDE DEF n
<1> DEFINE S == {k \in Nat : k <= n => Walk(mods, acc[k])}
<1>3. 0 \in S
  BY <1>2, StartWalks
<1>4. ASSUME NEW k \in Nat, k \in S PROVE k + 1 \in S
  <2>1. SUFFICES ASSUME k + 1 <= n PROVE Walk(mods, acc[k + 1])
    BY <1>4
  <2>2. Walk(mods, acc[k]) /\ acc[k + 1] = CombineStep(mods, acc[k])
    <3>1. k + 1 \in 1..n /\ k + 1 - 1 = k /\ k <= n
      BY <1>1, <2>1
    <3> QED
      BY <1>2, <1>4, <3>1
  <2> QED
    BY <2>2, StepWalks
<1>5. n \in S
  <2> HIDE DEF S
  <2> QED
    BY <1>1, <1>3, <1>4, NatSet
<1>6. Walk(mods, acc[n])
  BY <1>1, <1>5
<1> DEFINE s == acc[n].imports
           t == acc[n].css
<1>7. s \in Seq(Opening) /\ t \in Seq(Closing)
  BY <1>6 DEF Walk
<1> HIDE DEF s, t
<1>8. s \in Seq(Nodes) /\ t \in Seq(Nodes)
  BY <1>7, Kinds
<1>9. s \o t \in Seq(Nodes)
  BY <1>8, ConcatIs
<1>10. /\ \A k \in 1..Len(s) : (s \o t)[k] = s[k]
       /\ \A k \in 1..Len(s \o t) :
             k \in 1..Len(s) \/ (k - Len(s) \in 1..Len(t) /\ (s \o t)[k] = t[k - Len(s)])
       /\ Len(s) \in Nat /\ Len(t) \in Nat /\ Len(s \o t) = Len(s) + Len(t)
  BY <1>8, ConcatIs
<1>11. /\ \A k \in 1..Len(s) : s[k].kind # "rule"
       /\ \A k \in 1..Len(t) : t[k].kind # "import"
  <2>1. (\A k \in 1..Len(s) : s[k] \in Opening) /\ (\A k \in 1..Len(t) : t[k] \in Closing)
    BY <1>7
  <2> QED
    BY <2>1, Kinds
<1>12. ImportsFirst(s \o t)
  BY <1>10, <1>11 DEF ImportsFirst
<1> QED
  BY <1>2, <1>9, <1>12 DEF s, t

-----------------------------------------------------------------------------
(* combineCss where every module has its own rules and depends on earlier   *)
(* ones.  What is left to do is in the order of the ranks below each emit;  *)
(* an upstream module with CSS of a module seen has been emitted, or is to  *)
(* be looked at before that one is.                                         *)
Pending(w) == {w.todo[p].url : p \in {p \in 1..Len(w.todo) : w.todo[p].task = "emit"}}
Emitted(w) == w.seen \ Pending(w)
Descends(w, r) ==
    /\ Pending(w) \subseteq w.seen
    /\ \A q \in 1..Len(w.todo) : w.todo[q].task = "emit" =>
          \A p \in 1..Len(w.todo) : p < q => r[w.todo[p].url] < r[w.todo[q].url]
Awaits(w, x, u) ==
    \E q \in 1..Len(w.todo) : /\ w.todo[q].task = "emit" /\ w.todo[q].url = u
                              /\ \E p \in 1..Len(w.todo) : p < q /\ w.todo[p].url = x
Covers(mods, w, root) ==
    /\ \A u \in w.seen : \A x \in Upstream(mods[u]) :
          mods[x].hasCss => x \in Emitted(w) \/ Awaits(w, x, u)
    /\ mods[root].hasCss => root \in w.seen \/ \E p \in 1..Len(w.todo) : w.todo[p].url = root
Gathers(prog, mods, w) ==
    /\ \A m \in DOMAIN mods : Each(w.css, m, IF m \in Emitted(w) THEN RulesOf(prog, m) ELSE {})
    /\ \A u \in Emitted(w) : \A x \in Upstream(mods[u]) : Before(w.css, x, u)

(* The positions of what is left to do, before a step and after it.         *)
LEMMA TailIs ==
    ASSUME NEW S, NEW s \in Seq(S), s # <<>>
    PROVE  /\ Len(s) \in Nat \ {0} /\ Len(Tail(s)) = Len(s) - 1 /\ Head(s) = s[1]
           /\ \A p \in 1..Len(s) - 1 : Tail(s)[p] = s[p + 1]
           /\ \A p \in 1..Len(s) : p = 1 \/ (p - 1 \in 1..Len(s) - 1 /\ Tail(s)[p - 1] = s[p])
<1>1. Len(s) \in Nat \ {0}
  OBVIOUS
<1>2. Len(Tail(s)) = Len(s) - 1 /\ Head(s) = s[1] /\ \A p \in 1..Len(s) - 1 : Tail(s)[p] = s[p + 1]
  OBVIOUS
<1> QED
  BY <1>1, <1>2

(* One task less. *)
LEMMA Dropped ==
    ASSUME NEW mods, NEW w, Walk(mods, w), w.todo # <<>>, NEW v, v.todo = Tail(w.todo)
    PROVE  /\ Len(w.todo) \in Nat \ {0} /\ Len(v.todo) = Len(w.todo) - 1
           /\ \A p \in 1..Len(v.todo) : p + 1 \in 1..Len(w.todo) /\ v.todo[p] = w.todo[p + 1]
           /\ \A p \in 1..Len(w.todo) :
                 p = 1 \/ (p - 1 \in 1..Len(v.todo) /\ v.todo[p - 1] = w.todo[p])
           /\ Head(w.todo) = w.todo[1] /\ 1 \in 1..Len(w.todo)
<1>1. w.todo \in Seq(Calls(mods))
  BY DEF Walk
<1>2. /\ Len(w.todo) \in Nat \ {0} /\ Len(Tail(w.todo)) = Len(w.todo) - 1
      /\ Head(w.todo) = w.todo[1]
      /\ \A p \in 1..Len(w.todo) - 1 : Tail(w.todo)[p] = w.todo[p + 1]
      /\ \A p \in 1..Len(w.todo) :
            p = 1 \/ (p - 1 \in 1..Len(w.todo) - 1 /\ Tail(w.todo)[p - 1] = w.todo[p])
  BY <1>1, TailIs
<1> QED
  BY <1>2

(* The visit of a module: its upstream modules and itself before the rest. *)
SpreadOut(s, t, up, h) ==
    LET n == Len(up)
        k == Len(s)
    IN  /\ n \in Nat /\ k \in Nat \ {0} /\ Len(t) = n + k
        /\ \A p \in 1..n : t[p].task = "visit" /\ t[p].url = up[p]
        /\ t[n + 1].task = "emit" /\ t[n + 1].url = h
        /\ \A p \in 2..k : t[n + p] = s[p]
        /\ \A p \in 1..Len(t) : p \in 1..n + 1 \/ p - n \in 2..k
        /\ Head(s) = s[1] /\ 1 \in 1..k
LEMMA Spread ==
    ASSUME NEW mods, Kept(mods), NEW w, Walk(mods, w), w.todo # <<>>, NEW h \in DOMAIN mods,
           NEW v, v.todo = VisitModule(mods, h) \o Tail(w.todo)
    PROVE  SpreadOut(w.todo, v.todo, mods[h].upstream, h)
<1> DEFINE a == VisitModule(mods, h)
           b == Tail(w.todo)
           n == Len(mods[h].upstream)
           t == v.todo
           k == Len(w.todo)
<1>1. /\ n \in Nat /\ a \in Seq(Calls(mods)) /\ Len(a) = n + 1
      /\ \A q \in 1..n : a[q].task = "visit" /\ a[q].url = mods[h].upstream[q]
      /\ a[n + 1].task = "emit" /\ a[n + 1].url = h
  BY VisitIs
<1>2. /\ w.todo \in Seq(Calls(mods)) /\ Len(w.todo) \in Nat \ {0} /\ Len(b) = Len(w.todo) - 1
      /\ b \in Seq(Calls(mods)) /\ Head(w.todo) = w.todo[1]
      /\ \A p \in 1..Len(w.todo) - 1 : b[p] = w.todo[p + 1]
  BY TailIs DEF Walk
<1> HIDE DEF a, b, n
<1>3. t = a \o b
  BY DEF a, b
<1> HIDE DEF t, k
<1>4. Len(a) = n + 1 /\ Len(b) = k - 1 /\ k \in Nat \ {0} /\ n \in Nat
  BY <1>1, <1>2 DEF k
<1>5. /\ Len(t) = Len(a) + Len(b)
      /\ \A i \in 1..Len(a) : t[i] = a[i]
      /\ \A i \in 1..Len(b) : t[Len(a) + i] = b[i]
  <2>1. a \in Seq(Calls(mods)) /\ b \in Seq(Calls(mods))
    BY <1>1, <1>2
  <2>2. /\ Len(a \o b) = Len(a) + Len(b)
        /\ \A i \in 1..Len(a) : (a \o b)[i] = a[i]
        /\ \A i \in 1..Len(b) : (a \o b)[Len(a) + i] = b[i]
    BY <2>1, ConcatIs
  <2> QED
    BY <1>3, <2>2, Zenon
<1>6. Len(t) = n + k
  BY <1>4, <1>5
<1>7. ASSUME NEW p \in 2..k PROVE t[n + p] = w.todo[p]
  <2>1. p - 1 \in 1..Len(b) /\ Len(a) + (p - 1) = n + p /\ p - 1 + 1 = p
    BY <1>4
  <2>2. b[p - 1] = w.todo[p]
    BY <1>2, <1>4, <2>1 DEF k
  <2> QED
    BY <1>5, <2>1, <2>2
<1>8. \A p \in 1..Len(t) : p \in 1..n + 1 \/ p - n \in 2..k
  BY <1>4, <1>6
<1>9. \A p \in 1..n + 1 : t[p] = a[p]
  BY <1>4, <1>5
<1>10. /\ \A p \in 1..n : t[p].task = "visit" /\ t[p].url = mods[h].upstream[p]
       /\ t[n + 1].task = "emit" /\ t[n + 1].url = h
  <2>1. n + 1 \in 1..n + 1 /\ \A p \in 1..n : p \in 1..n + 1
    BY <1>4
  <2> QED
    BY <1>1, <1>9, <2>1
<1>11. 1 \in 1..k
  BY <1>4
<1> QED
  BY <1>2, <1>4, <1>6, <1>7, <1>8, <1>10, <1>11 DEF SpreadOut, n, t, k

Falls(mods, r) ==
    /\ r \in [DOMAIN mods -> Nat]
    /\ \A u \in DOMAIN mods : \A x \in Upstream(mods[u]) : r[x] < r[u]

LEMMA WalkIs ==
    ASSUME NEW mods, NEW w, Walk(mods, w)
    PROVE  /\ Len(w.todo) \in Nat
           /\ \A p \in 1..Len(w.todo) :
                 w.todo[p].url \in DOMAIN mods /\ w.todo[p].task \in {"visit", "emit"}
<1>1. w.todo \in Seq(Calls(mods))
  BY DEF Walk
<1>2. Len(w.todo) \in Nat /\ \A p \in 1..Len(w.todo) : w.todo[p] \in Calls(mods)
  BY <1>1
<1> QED
  BY <1>2 DEF Calls

LEMMA UpstreamIs ==
    ASSUME NEW mods, Kept(mods), NEW u \in DOMAIN mods
    PROVE  Upstream(mods[u]) \subseteq DOMAIN mods
BY DEF Kept, Bound, Upstream

(* An emit: the module is emitted from now on, and was not before. *)
LEMMA EmitSearch ==
    ASSUME NEW mods, Kept(mods), NEW w, Walk(mods, w), w.todo # <<>>, NEW v, Emits(mods, w, v),
           NEW r, Falls(mods, r), Descends(w, r), NEW root, Covers(mods, w, root)
    PROVE  LET h == Head(w.todo).url
           IN  /\ Descends(v, r) /\ Covers(mods, v, root)
               /\ h \in w.seen \ Emitted(w) /\ Emitted(v) = Emitted(w) \cup {h}
<1> DEFINE h == Head(w.todo).url
<1>1. v.todo = Tail(w.todo) /\ v.seen = w.seen /\ Head(w.todo).task = "emit"
  BY DEF Emits
<1>2. /\ Len(w.todo) \in Nat \ {0} /\ Len(v.todo) = Len(w.todo) - 1
      /\ \A p \in 1..Len(v.todo) : p + 1 \in 1..Len(w.todo) /\ v.todo[p] = w.todo[p + 1]
      /\ \A p \in 1..Len(w.todo) : p = 1 \/ (p - 1 \in 1..Len(v.todo) /\ v.todo[p - 1] = w.todo[p])
      /\ Head(w.todo) = w.todo[1] /\ 1 \in 1..Len(w.todo)
  BY <1>1, Dropped
<1>3. h = w.todo[1].url /\ w.todo[1].task = "emit"
  BY <1>1, <1>2
<1> HIDE DEF h
<1>4. \A p \in 1..Len(w.todo) : w.todo[p].url \in DOMAIN mods /\ r[w.todo[p].url] \in Nat
  BY WalkIs DEF Falls
<1>5. \A q \in 1..Len(v.todo) : v.todo[q].task = "emit" => v.todo[q].url # h
  <2>1. ASSUME NEW q \in 1..Len(v.todo), v.todo[q].task = "emit" PROVE v.todo[q].url # h
    <3>1. q + 1 \in 1..Len(w.todo) /\ 1 < q + 1 /\ v.todo[q] = w.todo[q + 1]
      BY <1>2
    <3>2. r[h] < r[v.todo[q].url]
      BY <1>2, <1>3, <2>1, <3>1 DEF Descends
    <3> QED
      BY <1>2, <1>3, <1>4, <3>2
  <2> QED
    BY <2>1
<1>6. Pending(w) = Pending(v) \cup {h} /\ h \notin Pending(v)
  <2>1. ASSUME NEW u \in Pending(w) PROVE u \in Pending(v) \cup {h}
    BY <1>2, <1>3 DEF Pending
  <2>2. ASSUME NEW u \in Pending(v) PROVE u \in Pending(w)
    BY <1>2 DEF Pending
  <2>3. h \in Pending(w)
    BY <1>2, <1>3 DEF Pending
  <2>4. h \notin Pending(v)
    BY <1>5 DEF Pending
  <2> QED
    BY <2>1, <2>2, <2>3, <2>4
<1>7. h \in w.seen \ Emitted(w) /\ Emitted(v) = Emitted(w) \cup {h}
  BY <1>1, <1>6 DEF Descends, Emitted
<1>8. Descends(v, r)
  <2>1. Pending(v) \subseteq v.seen
    BY <1>1, <1>6 DEF Descends
  <2>2. ASSUME NEW q \in 1..Len(v.todo), v.todo[q].task = "emit", NEW p \in 1..Len(v.todo), p < q
        PROVE  r[v.todo[p].url] < r[v.todo[q].url]
    <3>1. /\ p + 1 \in 1..Len(w.todo) /\ q + 1 \in 1..Len(w.todo) /\ p + 1 < q + 1
          /\ v.todo[p] = w.todo[p + 1] /\ v.todo[q] = w.todo[q + 1]
      BY <1>2, <2>2
    <3> QED
      BY <2>2, <3>1 DEF Descends
  <2> QED
    BY <2>1, <2>2 DEF Descends
<1>9. Covers(mods, v, root)
  <2>1. ASSUME NEW u \in v.seen, NEW x \in Upstream(mods[u]), mods[x].hasCss
        PROVE  x \in Emitted(v) \/ Awaits(v, x, u)
    <3>1. CASE x \in Emitted(w)
      BY <1>7, <3>1
    <3>2. CASE Awaits(w, x, u)
      <4>1. PICK q \in 1..Len(w.todo), p \in 1..Len(w.todo) :
              /\ w.todo[q].task = "emit" /\ w.todo[q].url = u
              /\ p < q /\ w.todo[p].url = x
        BY <3>2 DEF Awaits
      <4>2. CASE p = 1
        BY <1>3, <1>7, <4>1, <4>2
      <4>3. CASE p # 1
        <5>1. /\ p - 1 \in 1..Len(v.todo) /\ q - 1 \in 1..Len(v.todo) /\ p - 1 < q - 1
              /\ v.todo[p - 1] = w.todo[p] /\ v.todo[q - 1] = w.todo[q]
          BY <1>2, <4>1, <4>3
        <5> QED
          BY <4>1, <5>1 DEF Awaits
      <4> QED
        BY <4>2, <4>3
    <3> QED
      BY <1>1, <2>1, <3>1, <3>2 DEF Covers
  <2>2. ASSUME mods[root].hasCss PROVE root \in v.seen \/ \E p \in 1..Len(v.todo) : v.todo[p].url = root
    <3>1. CASE root \in w.seen
      BY <1>1, <3>1
    <3>2. CASE \E p \in 1..Len(w.todo) : w.todo[p].url = root
      <4>1. PICK p \in 1..Len(w.todo) : w.todo[p].url = root
        BY <3>2
      <4>2. CASE p = 1
        BY <1>1, <1>3, <1>7, <4>1, <4>2
      <4>3. CASE p # 1
        BY <1>2, <4>1, <4>3
      <4> QED
        BY <4>2, <4>3
    <3> QED
      BY <2>2, <3>1, <3>2 DEF Covers
  <2> QED
    BY <2>1, <2>2 DEF Covers
<1> QED
  BY <1>7, <1>8, <1>9 DEF h

(* A visit of a module that was seen before, or has no CSS. *)
LEMMA SkipSearch ==
    ASSUME NEW mods, Kept(mods), NEW w, Walk(mods, w), w.todo # <<>>, NEW v,
           Head(w.todo).task = "visit", v.todo = Tail(w.todo), v.seen = w.seen,
           ~mods[Head(w.todo).url].hasCss \/ Head(w.todo).url \in w.seen,
           NEW r, Falls(mods, r), Descends(w, r), NEW root, Covers(mods, w, root)
    PROVE  /\ Descends(v, r) /\ Covers(mods, v, root) /\ Emitted(v) = Emitted(w)
<1> DEFINE h == Head(w.todo).url
<1>1. /\ Len(w.todo) \in Nat \ {0} /\ Len(v.todo) = Len(w.todo) - 1
      /\ \A p \in 1..Len(v.todo) : p + 1 \in 1..Len(w.todo) /\ v.todo[p] = w.todo[p + 1]
      /\ \A p \in 1..Len(w.todo) : p = 1 \/ (p - 1 \in 1..Len(v.todo) /\ v.todo[p - 1] = w.todo[p])
      /\ Head(w.todo) = w.todo[1] /\ 1 \in 1..Len(w.todo)
  BY Dropped
<1>2. h = w.todo[1].url /\ w.todo[1].task # "emit" /\ (~mods[h].hasCss \/ h \in w.seen)
  BY <1>1
<1> HIDE DEF h
<1>3. \A p \in 1..Len(w.todo) : w.todo[p].url \in DOMAIN mods /\ r[w.todo[p].url] \in Nat
  BY WalkIs DEF Falls
<1>4. Pending(v) = Pending(w)
  <2>1. ASSUME NEW u \in Pending(w) PROVE u \in Pending(v)
    BY <1>1, <1>2 DEF Pending
  <2>2. ASSUME NEW u \in Pending(v) PROVE u \in Pending(w)
    BY <1>1 DEF Pending
  <2> QED
    BY <2>1, <2>2
<1>5. Emitted(v) = Emitted(w)
  BY <1>4 DEF Emitted
<1>6. h \notin Pending(w)
  <2>1. SUFFICES ASSUME NEW q \in 1..Len(w.todo), w.todo[q].task = "emit", w.todo[q].url = h
                 PROVE  FALSE
    BY DEF Pending
  <2>2. 1 < q
    BY <1>2, <2>1
  <2>3. r[h] < r[h] /\ r[h] \in Nat
    BY <1>1, <1>2, <1>3, <2>1, <2>2 DEF Descends
  <2> QED
    BY <2>3
<1>7. Descends(v, r)
  <2>1. Pending(v) \subseteq v.seen
    BY <1>4 DEF Descends
  <2>2. ASSUME NEW q \in 1..Len(v.todo), v.todo[q].task = "emit", NEW p \in 1..Len(v.todo), p < q
        PROVE  r[v.todo[p].url] < r[v.todo[q].url]
    <3>1. /\ p + 1 \in 1..Len(w.todo) /\ q + 1 \in 1..Len(w.todo) /\ p + 1 < q + 1
          /\ v.todo[p] = w.todo[p + 1] /\ v.todo[q] = w.todo[q + 1]
      BY <1>1, <2>2
    <3> QED
      BY <2>2, <3>1 DEF Descends
  <2> QED
    BY <2>1, <2>2 DEF Descends
<1>8. Covers(mods, v, root)
  <2>1. ASSUME NEW u \in v.seen, NEW x \in Upstream(mods[u]), mods[x].hasCss
        PROVE  x \in Emitted(v) \/ Awaits(v, x, u)
    <3>1. CASE x \in Emitted(w)
      BY <1>5, <3>1
    <3>2. CASE Awaits(w, x, u) /\ x # h
      <4>1. PICK q \in 1..Len(w.todo), p \in 1..Len(w.todo) :
              /\ w.todo[q].task = "emit" /\ w.todo[q].url = u
              /\ p < q /\ w.todo[p].url = x
        BY <3>2 DEF Awaits
      <4>2. p # 1
        BY <1>2, <3>2, <4>1
      <4>3. /\ p - 1 \in 1..Len(v.todo) /\ q - 1 \in 1..Len(v.todo) /\ p - 1 < q - 1
            /\ v.todo[p - 1] = w.todo[p] /\ v.todo[q - 1] = w.todo[q]
        BY <1>1, <4>1, <4>2
      <4> QED
        BY <4>1, <4>3 DEF Awaits
    <3>3. CASE x = h
      BY <1>2, <1>5, <1>6, <2>1, <3>3 DEF Emitted
    <3> QED
      BY <2>1, <3>1, <3>2, <3>3 DEF Covers
  <2>2. ASSUME mods[root].hasCss PROVE root \in v.seen \/ \E p \in 1..Len(v.todo) : v.todo[p].url = root
    <3>1. CASE root \in w.seen
      BY <3>1
    <3>2. CASE \E p \in 1..Len(w.todo) : w.todo[p].url = root
      <4>1. PICK p \in 1..Len(w.todo) : w.todo[p].url = root
        BY <3>2
      <4>2. CASE p = 1
        BY <1>2, <2>2, <4>1, <4>2
      <4>3. CASE p # 1
        BY <1>1, <4>1, <4>3
      <4> QED
        BY <4>2, <4>3
    <3> QED
      BY <2>2, <3>1, <3>2 DEF Covers
  <2> QED
    BY <2>1, <2>2 DEF Covers
<1> QED
  BY <1>5, <1>7, <1>8

(* The first visit of a module with CSS. *)
LEMMA EnterSearch ==
    ASSUME NEW mods, Kept(mods), NEW w, Walk(mods, w), w.todo # <<>>, NEW v,
           Head(w.todo).task = "visit", Head(w.todo).url \notin w.seen,
           v.todo = VisitModule(mods, Head(w.todo).url) \o Tail(w.todo),
           v.seen = w.seen \cup {Head(w.todo).url},
           NEW r, Falls(mods, r), Descends(w, r), NEW root, Covers(mods, w, root)
    PROVE  /\ Descends(v, r) /\ Covers(mods, v, root) /\ Emitted(v) = Emitted(w)
<1> DEFINE h == Head(w.todo).url
           n == Len(mods[h].upstream)
           k == Len(w.todo)
           s == w.todo
           t == v.todo
<1>1. h \in DOMAIN mods
  <2>1. s[1].url \in DOMAIN mods /\ Head(s) = s[1]
    <3>1. s \in Seq(Calls(mods)) /\ s # <<>>
      BY DEF Walk
    <3>2. 1 \in 1..Len(s) /\ Head(s) = s[1]
      BY <3>1
    <3> QED
      BY <3>2, WalkIs
  <2> QED
    BY <2>1
<1>2. /\ n \in Nat /\ k \in Nat \ {0} /\ Len(t) = n + k
      /\ \A p \in 1..n : t[p].task = "visit" /\ t[p].url = mods[h].upstream[p]
      /\ t[n + 1].task = "emit" /\ t[n + 1].url = h
      /\ \A p \in 2..k : t[n + p] = s[p]
      /\ \A p \in 1..Len(t) : p \in 1..n + 1 \/ p - n \in 2..k
      /\ Head(s) = s[1] /\ 1 \in 1..k
  <2>1. SpreadOut(s, t, mods[h].upstream, h)
    BY <1>1, Spread
  <2> QED
    BY <2>1, Zenon DEF SpreadOut
<1>3. h = s[1].url /\ s[1].task = "visit" /\ h \notin w.seen /\ v.seen = w.seen \cup {h}
  BY <1>2
<1>4. \A p \in 1..k : s[p].url \in DOMAIN mods /\ r[s[p].url] \in Nat
  BY WalkIs DEF Falls
<1>5. \A p \in 1..n : mods[h].upstream[p] \in Upstream(mods[h])
  BY DEF Upstream
<1>6. r[h] \in Nat /\ \A x \in Upstream(mods[h]) : x \in DOMAIN mods /\ r[x] \in Nat /\ r[x] < r[h]
  BY <1>1, UpstreamIs DEF Falls
<1> HIDE DEF h, n, k, s, t
<1>7. \A p \in 1..n + 1 : /\ t[p].url = h \/ t[p].url \in Upstream(mods[h])
                          /\ r[t[p].url] \in Nat /\ r[t[p].url] <= r[h]
                          /\ p # n + 1 => t[p].task # "emit" /\ r[t[p].url] < r[h]
  <2>1. \A p \in 1..n + 1 : p \in 1..n \/ p = n + 1
    BY <1>2
  <2> QED
    BY <1>2, <1>5, <1>6, <2>1
<1>8. \A q \in 2..k : s[q].task = "emit" => r[h] < r[s[q].url]
  BY <1>2, <1>3 DEF Descends, s, k
<1>9. Pending(v) = Pending(w) \cup {h}
  <2>1. ASSUME NEW u \in Pending(w) PROVE u \in Pending(v)
    <3>1. PICK q \in 1..k : s[q].task = "emit" /\ s[q].url = u
      BY DEF Pending, s, k
    <3>2. q \in 2..k
      BY <1>2, <1>3, <3>1
    <3>3. n + q \in 1..Len(t) /\ t[n + q] = s[q]
      BY <1>2, <3>2
    <3> QED
      BY <3>1, <3>3 DEF Pending, t
  <2>2. h \in Pending(v)
    <3>1. n + 1 \in 1..Len(t)
      BY <1>2
    <3> QED
      BY <1>2, <3>1 DEF Pending, t
  <2>3. ASSUME NEW u \in Pending(v) PROVE u \in Pending(w) \cup {h}
    <3>1. PICK q \in 1..Len(t) : t[q].task = "emit" /\ t[q].url = u
      BY DEF Pending, t
    <3>2. CASE q \in 1..n + 1
      BY <1>2, <1>7, <3>1, <3>2
    <3>3. CASE q - n \in 2..k
      <4>1. q - n \in 1..k /\ n + (q - n) = q
        BY <1>2, <3>3
      <4>2. s[q - n] = t[q]
        BY <1>2, <3>3, <4>1
      <4> QED
        BY <3>1, <4>1, <4>2 DEF Pending, s, k
    <3> QED
      BY <1>2, <3>2, <3>3
  <2> QED
    BY <2>1, <2>2, <2>3
<1>10. Emitted(v) = Emitted(w)
  BY <1>3, <1>9 DEF Emitted
<1>11. Descends(v, r)
  <2>1. Pending(v) \subseteq v.seen
    BY <1>3, <1>9 DEF Descends
  <2>2. ASSUME NEW q \in 1..Len(t), t[q].task = "emit", NEW p \in 1..Len(t), p < q
        PROVE  r[t[p].url] < r[t[q].url]
    <3>1. CASE q \in 1..n + 1
      <4>1. q = n + 1 /\ p \in 1..n + 1 /\ p # n + 1
        BY <1>2, <1>7, <2>2, <3>1
      <4> QED
        BY <1>2, <1>7, <4>1
    <3>2. CASE q - n \in 2..k
      <4>1. q - n \in 1..k /\ n + (q - n) = q /\ t[q] = s[q - n] /\ r[h] < r[t[q].url]
        <5>1. q - n \in 1..k /\ n + (q - n) = q
          BY <1>2, <3>2
        <5>2. t[q] = s[q - n]
          BY <1>2, <3>2, <5>1
        <5> QED
          BY <1>8, <2>2, <3>2, <5>1, <5>2
      <4>2. CASE p \in 1..n + 1
        <5>1. r[t[p].url] \in Nat /\ r[t[p].url] <= r[h] /\ r[t[q].url] \in Nat
          BY <1>4, <1>7, <4>1, <4>2
        <5> QED
          BY <1>6, <4>1, <5>1
      <4>3. CASE p - n \in 2..k
        <5>1. p - n \in 1..k /\ n + (p - n) = p /\ p - n < q - n
          BY <1>2, <2>2, <4>1, <4>3
        <5>2. t[p] = s[p - n]
          BY <1>2, <4>3, <5>1
        <5> QED
          BY <2>2, <4>1, <5>1, <5>2 DEF Descends, s, k
      <4> QED
        BY <1>2, <4>2, <4>3
    <3> QED
      BY <1>2, <3>1, <3>2
  <2> QED
    BY <2>1, <2>2 DEF Descends, t
<1>12. Covers(mods, v, root)
  <2>1. ASSUME NEW u \in v.seen, NEW x \in Upstream(mods[u]), mods[x].hasCss
        PROVE  x \in Emitted(v) \/ Awaits(v, x, u)
    <3>1. CASE u = h
      <4>1. PICK p \in 1..n : mods[h].upstream[p] = x
        BY <3>1 DEF Upstream, n
      <4>2. /\ p \in 1..Len(t) /\ n + 1 \in 1..Len(t) /\ p < n + 1
            /\ t[p].url = x /\ t[n + 1].task = "emit" /\ t[n + 1].url = u
        BY <1>2, <3>1, <4>1
      <4> QED
        BY <4>2 DEF Awaits, t
    <3>2. CASE u # h /\ x \in Emitted(w)
      BY <1>10, <3>2
    <3>3. CASE u # h /\ x \notin Emitted(w)
      <4>1. u \in w.seen
        BY <1>3, <3>3
      <4>2. PICK q \in 1..k, p \in 1..k : s[q].task = "emit" /\ s[q].url = u /\ p < q /\ s[p].url = x
        BY <2>1, <3>3, <4>1 DEF Covers, Awaits, s, k
      <4>3. q \in 2..k /\ n + q \in 1..Len(t) /\ t[n + q] = s[q]
        <5>1. q \in 2..k
          BY <1>2, <4>2
        <5> QED
          BY <1>2, <5>1
      <4>4. CASE p = 1
        <5>1. n + 1 \in 1..Len(t) /\ n + 1 < n + q /\ t[n + 1].url = x
          BY <1>2, <1>3, <4>2, <4>3, <4>4
        <5> QED
          BY <4>2, <4>3, <5>1 DEF Awaits, t
      <4>5. CASE p # 1
        <5>1. p \in 2..k
          BY <1>2, <4>5
        <5>2. n + p \in 1..Len(t) /\ n + p < n + q /\ t[n + p] = s[p]
          BY <1>2, <4>2, <5>1
        <5> QED
          BY <4>2, <4>3, <5>2 DEF Awaits, t
      <4> QED
        BY <4>4, <4>5
    <3> QED
      BY <3>1, <3>2, <3>3
  <2>2. ASSUME mods[root].hasCss PROVE root \in v.seen \/ \E p \in 1..Len(t) : t[p].url = root
    <3>1. CASE root \in w.seen
      BY <1>3, <3>1
    <3>2. CASE \E p \in 1..k : s[p].url = root
      <4>1. PICK p \in 1..k : s[p].url = root
        BY <3>2
      <4>2. CASE p = 1
        BY <1>3, <4>1, <4>2
      <4>3. CASE p # 1
        <5>1. p \in 2..k
          BY <1>2, <4>3
        <5>2. n + p \in 1..Len(t) /\ t[n + p] = s[p]
          BY <1>2, <5>1
        <5> QED
          BY <4>1, <5>2
      <4> QED
        BY <4>2, <4>3
    <3> QED
      BY <2>2, <3>1, <3>2 DEF Covers, s, k
  <2> QED
    BY <2>1, <2>2 DEF Covers, t
<1> QED
  BY <1>10, <1>11, <1>12

-----------------------------------------------------------------------------
(* The rules of a file in a sequence that is put together.                  *)

LEMMA RulesAre ==
    ASSUME NEW s, NEW m, Len(s) \in Nat
    PROVE  RulesIn(s, m) \subseteq Int
BY DEF RulesIn

(* The rules of one sequence are those of another, further on. *)
LEMMA EachShift ==
    ASSUME NEW s, NEW t, NEW m, NEW d \in Int, Len(s) \in Nat, Len(t) \in Nat,
           \A k \in RulesIn(s, m) : k + d \in RulesIn(t, m) /\ t[k + d].at = s[k].at,
           \A k \in RulesIn(t, m) : k - d \in RulesIn(s, m),
           NEW R, Each(s, m, R)
    PROVE  Each(t, m, R)
<1>1. RulesIn(s, m) \subseteq Int /\ RulesIn(t, m) \subseteq Int
  BY RulesAre
<1>2. ASSUME NEW k \in RulesIn(t, m)
      PROVE  k - d \in RulesIn(s, m) /\ s[k - d].at = t[k].at
  <2>1. k - d \in RulesIn(s, m) /\ (k - d) + d = k
    BY <1>1
  <2> QED
    BY <2>1
<1>3. {t[k].at : k \in RulesIn(t, m)} = {s[k].at : k \in RulesIn(s, m)}
  <2>1. ASSUME NEW k \in RulesIn(t, m) PROVE t[k].at \in {s[i].at : i \in RulesIn(s, m)}
    BY <1>2
  <2>2. ASSUME NEW k \in RulesIn(s, m) PROVE s[k].at \in {t[i].at : i \in RulesIn(t, m)}
    BY <1>1
  <2> QED
    BY <2>1, <2>2
<1>4. ASSUME NEW j \in RulesIn(t, m), NEW k \in RulesIn(t, m), t[j].at = t[k].at
      PROVE  j = k
  <2>1. j - d = k - d
    BY <1>2, <1>4 DEF Each
  <2> QED
    BY <1>1, <2>1
<1> QED
  BY <1>3, <1>4 DEF Each

(* A sequence that is two others, one after the other. *)
Joined(s, t, c) ==
    /\ Len(s) \in Nat /\ Len(t) \in Nat /\ Len(c) = Len(s) + Len(t)
    /\ \A k \in 1..Len(s) : c[k] = s[k]
    /\ \A k \in 1..Len(t) : c[Len(s) + k] = t[k]
    /\ \A k \in 1..Len(c) : k \in 1..Len(s) \/ (k - Len(s) \in 1..Len(t) /\ c[k] = t[k - Len(s)])

LEMMA ConcatJoins ==
    ASSUME NEW S, NEW s \in Seq(S), NEW t \in Seq(S)
    PROVE  s \o t \in Seq(S) /\ Joined(s, t, s \o t)
BY ConcatIs, Zenon DEF Joined

LEMMA JoinedLen ==
    ASSUME NEW s, NEW t, NEW c, Joined(s, t, c)
    PROVE  Len(c) \in Nat /\ Len(s) \in Nat
<1>1. Len(s) \in Nat /\ Len(t) \in Nat /\ Len(c) = Len(s) + Len(t)
  BY Zenon DEF Joined
<1> QED
  BY <1>1

LEMMA RulesJoined ==
    ASSUME NEW s, NEW t, NEW c, Joined(s, t, c), NEW m
    PROVE  /\ \A k \in RulesIn(s, m) : k \in RulesIn(c, m) /\ c[k] = s[k]
           /\ \A k \in RulesIn(t, m) : k + Len(s) \in RulesIn(c, m) /\ c[k + Len(s)] = t[k]
           /\ \A k \in RulesIn(c, m) :
                 k \in RulesIn(s, m) \/ (k - Len(s) \in RulesIn(t, m) /\ k > Len(s))
<1>1. ASSUME NEW k \in RulesIn(s, m) PROVE k \in RulesIn(c, m) /\ c[k] = s[k]
  <2>1. k \in 1..Len(s) /\ k \in 1..Len(c) /\ c[k] = s[k]
    BY DEF RulesIn, Joined
  <2> QED
    BY <2>1 DEF RulesIn
<1>2. ASSUME NEW k \in RulesIn(t, m) PROVE k + Len(s) \in RulesIn(c, m) /\ c[k + Len(s)] = t[k]
  <2>1. k \in 1..Len(t)
    BY DEF RulesIn
  <2>2. k + Len(s) \in 1..Len(c) /\ Len(s) + k = k + Len(s)
    BY <2>1 DEF Joined
  <2>3. c[k + Len(s)] = t[k]
    BY <2>1, <2>2 DEF Joined
  <2> QED
    BY <2>2, <2>3 DEF RulesIn
<1>3. ASSUME NEW k \in RulesIn(c, m)
      PROVE  k \in RulesIn(s, m) \/ (k - Len(s) \in RulesIn(t, m) /\ k > Len(s))
  <2>1. k \in 1..Len(c) /\ c[k].kind = "rule" /\ c[k].file = m
    BY DEF RulesIn
  <2>2. CASE k \in 1..Len(s)
    BY <2>1, <2>2 DEF RulesIn, Joined
  <2>3. CASE k - Len(s) \in 1..Len(t) /\ c[k] = t[k - Len(s)]
    <3>1. k > Len(s)
      BY <2>1, <2>3 DEF Joined
    <3> QED
      BY <2>1, <2>3, <3>1 DEF RulesIn
  <2> QED
    BY <2>1, <2>2, <2>3 DEF Joined
<1> QED
  BY <1>1, <1>2, <1>3

(* One of the two has no rule of the file. *)
LEMMA EachFirst ==
    ASSUME NEW s, NEW t, NEW c, Joined(s, t, c), NEW m, RulesIn(t, m) = {}, NEW R, Each(s, m, R)
    PROVE  Each(c, m, R) /\ RulesIn(c, m) = RulesIn(s, m)
<1>1. /\ \A k \in RulesIn(s, m) : k \in RulesIn(c, m) /\ c[k] = s[k]
      /\ \A k \in RulesIn(c, m) : k \in RulesIn(s, m)
  BY RulesJoined
<1>2. RulesIn(c, m) = RulesIn(s, m)
  BY <1>1
<1> QED
  BY <1>1, <1>2 DEF Each

LEMMA EachSecond ==
    ASSUME NEW s, NEW t, NEW c, Joined(s, t, c), NEW m, RulesIn(s, m) = {}, NEW R, Each(t, m, R)
    PROVE  Each(c, m, R) /\ \A k \in RulesIn(c, m) : k - Len(s) \in RulesIn(t, m) /\ k > Len(s)
<1>1. Len(s) \in Int /\ Len(t) \in Nat /\ Len(c) \in Nat
  BY DEF Joined
<1>2. /\ \A k \in RulesIn(t, m) : k + Len(s) \in RulesIn(c, m) /\ c[k + Len(s)].at = t[k].at
      /\ \A k \in RulesIn(c, m) : k - Len(s) \in RulesIn(t, m) /\ k > Len(s)
  BY RulesJoined
<1>3. Each(c, m, R)
  BY <1>1, <1>2, EachShift
<1> QED
  BY <1>2, <1>3

LEMMA NoRules ==
    ASSUME NEW s, s \in Seq(Remarks) \/ s \in Seq(Opening)
    PROVE  \A m : RulesIn(s, m) = {}
<1>1. s \in Seq(Opening)
  BY Kinds
<1>2. \A k \in 1..Len(s) : s[k] \in Opening
  BY <1>1
<1> QED
  BY <1>2, Kinds DEF RulesIn

(* What is left of a sequence without a block that has no rule. *)
LEMMA RulesAfter ==
    ASSUME NEW css \in Seq(Nodes), NEW n \in 0..Len(css), \A i \in 1..n : css[i].kind # "rule",
           NEW m, Own(css, m), NEW R, Each(css, m, R)
    PROVE  LET b == SubSeq(css, n + 1, Len(css))
           IN  Own(b, m) /\ Each(b, m, R)
<1> DEFINE b == SubSeq(css, n + 1, Len(css))
<1>1. n \in 0..Len(css) /\ Len(css) \in Nat /\ \A i \in 1..n : css[i].kind # "rule"
  OBVIOUS
<1>2. Len(b) = Len(css) - n /\ \A i \in 1..(Len(css) - n) : b[i] = css[n + i]
  BY <1>1, SliceIs
<1> HIDE DEF b
<1>3. n \in Nat /\ -n \in Int /\ Len(b) \in Nat
  BY <1>1, <1>2
<1>4. ASSUME NEW i \in 1..Len(b) PROVE n + i \in 1..Len(css) /\ b[i] = css[n + i]
  BY <1>1, <1>2
<1>5. Own(b, m)
  BY <1>4 DEF Own
<1>6. ASSUME NEW k \in RulesIn(css, m) PROVE k + (-n) \in RulesIn(b, m) /\ b[k + (-n)].at = css[k].at
  <2>1. k \in 1..Len(css) /\ k \notin 1..n /\ css[k].kind = "rule" /\ css[k].file = m
    BY <1>1 DEF RulesIn
  <2>2. n < k /\ k <= Len(css) /\ k \in Int
    BY <1>1, <2>1
  <2>3. k + (-n) \in 1..Len(b) /\ n + (k + (-n)) = k
    <3> DEFINE x == Len(css)
               y == Len(b)
    <3>1. y = x - n /\ x \in Nat /\ n \in Nat /\ n < k /\ k <= x /\ k \in Int
      BY <1>1, <1>2, <1>3, <2>2
    <3> HIDE DEF x, y
    <3>2. k + (-n) \in 1..y /\ n + (k + (-n)) = k
      BY <3>1
    <3> QED
      BY <3>2 DEF y
  <2> QED
    BY <1>4, <2>1, <2>3 DEF RulesIn
<1>7. ASSUME NEW k \in RulesIn(b, m) PROVE k - (-n) \in RulesIn(css, m)
  <2>1. k \in 1..Len(b) /\ b[k].kind = "rule" /\ b[k].file = m
    BY DEF RulesIn
  <2>2. n + k = k - (-n)
    BY <1>3, <2>1
  <2> QED
    BY <1>4, <2>1, <2>2 DEF RulesIn
<1>8. Each(b, m, R)
  BY <1>1, <1>3, <1>6, <1>7, EachShift
<1> QED
  BY <1>5, <1>8 DEF b

(* What an emit appends: the module's rules, its block of @imports left out. *)
LEMMA RulesKept ==
    ASSUME NEW css \in Seq(Nodes), ImportsFirst(css), NEW m, Own(css, m), NEW R, Each(css, m, R)
    PROVE  LET b == SubSeq(css, IndexAfterImports(css) + 1, Len(css))
           IN  Own(b, m) /\ Each(b, m, R)
BY SplitCss, RulesAfter

LEMMA EmitGathers ==
    ASSUME NEW prog, NEW mods, Kept(mods), \A u \in DOMAIN mods : Whole(prog, mods, u),
           NEW r, Falls(mods, r), NEW root,
           NEW w, Walk(mods, w), w.todo # <<>>, Descends(w, r), Covers(mods, w, root),
           Gathers(prog, mods, w), NEW v, Emits(mods, w, v)
    PROVE  Gathers(prog, mods, v)
<1> DEFINE h   == Head(w.todo).url
           css == mods[h].css
           b   == SubSeq(css, IndexAfterImports(css) + 1, Len(css))
<1>1. h \in DOMAIN mods
  BY StepIs DEF Calls
<1>2. h \in w.seen \ Emitted(w) /\ Emitted(v) = Emitted(w) \cup {h} /\ v.seen = w.seen
  BY EmitSearch DEF Emits
<1>3. v.css = w.css \o b
  BY DEF Emits
<1>4. css \in Seq(Nodes) /\ ImportsFirst(css)
  BY <1>1 DEF Kept, Bound
<1>5. Own(b, h) /\ Each(b, h, RulesOf(prog, h))
  BY <1>1, <1>4, RulesKept DEF Whole
<1>6. Joined(w.css, b, v.css)
  <2>1. b \in Seq(Closing) /\ w.css \in Seq(Closing)
    BY <1>4, SplitCss DEF Walk
  <2> QED
    BY <1>3, <2>1, ConcatJoins
<1> HIDE DEF h, b
<1>7. \A m \in DOMAIN mods : m # h => RulesIn(b, m) = {}
  BY <1>5 DEF Own, RulesIn
<1>8. ASSUME NEW m \in DOMAIN mods, m # h
      PROVE  /\ Each(v.css, m, IF m \in Emitted(v) THEN RulesOf(prog, m) ELSE {})
             /\ RulesIn(v.css, m) = RulesIn(w.css, m)
  <2>1. Each(w.css, m, IF m \in Emitted(v) THEN RulesOf(prog, m) ELSE {})
    BY <1>2, <1>8 DEF Gathers
  <2> QED
    BY <1>6, <1>7, <1>8, <2>1, EachFirst
<1>9. RulesIn(w.css, h) = {}
  <2>1. Each(w.css, h, {})
    BY <1>1, <1>2 DEF Gathers
  <2> QED
    BY <2>1 DEF Each
<1>10. /\ Each(v.css, h, RulesOf(prog, h))
       /\ \A k \in RulesIn(v.css, h) : k - Len(w.css) \in RulesIn(b, h) /\ k > Len(w.css)
  BY <1>5, <1>6, <1>9, EachSecond
<1>11. ASSUME NEW u \in Emitted(v), NEW x \in Upstream(mods[u]) PROVE Before(v.css, x, u)
  <2>1. u \in DOMAIN mods /\ x \in DOMAIN mods
    <3>1. u \in DOMAIN mods
      BY <1>2 DEF Emitted, Walk
    <3> QED
      BY <3>1, UpstreamIs
  <2>2. x # u /\ r[x] < r[u] /\ r[x] \in Nat /\ r[u] \in Nat
    BY <2>1 DEF Falls
  <2>3. CASE u = h
    <3>1. RulesIn(v.css, x) = RulesIn(w.css, x)
      BY <1>8, <2>1, <2>2, <2>3
    <3>2. \A j \in RulesIn(v.css, x) : j \in 1..Len(w.css)
      BY <3>1 DEF RulesIn
    <3>3. Len(w.css) \in Nat /\ \A k \in RulesIn(v.css, u) : k > Len(w.css) /\ k \in Int
      BY <1>6, <1>10, <2>3 DEF Joined, RulesIn
    <3> QED
      BY <3>2, <3>3 DEF Before
  <2>4. CASE u # h /\ x # h
    BY <1>2, <1>8, <2>1, <2>4 DEF Gathers, Before
  <2>5. CASE u # h /\ x = h
    <3>1. u \in w.seen /\ u \in Emitted(w) /\ u \notin Pending(w)
      BY <1>2, <2>5 DEF Emitted
    <3>2. ~Awaits(w, x, u)
      BY <3>1 DEF Awaits, Pending
    <3>3. ~mods[h].hasCss
      BY <1>2, <2>5, <3>1, <3>2 DEF Covers
    <3>4. css = <<>>
      BY <1>1, <3>3 DEF Whole
    <3>5. RulesIn(css, h) = {}
      <4>1. Len(css) = 0
        BY <3>4
      <4> QED
        BY <4>1 DEF RulesIn
    <3>6. RulesOf(prog, h) = {}
      BY <1>1, <3>5 DEF Whole, Each
    <3>7. RulesIn(v.css, x) = {}
      BY <1>10, <2>5, <3>6 DEF Each
    <3> QED
      BY <3>7 DEF Before
  <2> QED
    BY <2>3, <2>4, <2>5
<1>12. \A m \in DOMAIN mods : Each(v.css, m, IF m \in Emitted(v) THEN RulesOf(prog, m) ELSE {})
  BY <1>2, <1>8, <1>10
<1> QED
  BY <1>11, <1>12 DEF Gathers

(* Comments change nothing. *)
LEMMA VisitGathers ==
    ASSUME NEW prog, NEW mods, NEW w, Walk(mods, w), Kept(mods), Gathers(prog, mods, w),
           NEW v, Visits(mods, w, v), Emitted(v) = Emitted(w)
    PROVE  Gathers(prog, mods, v)
<1>1. PICK b \in Seq(Remarks) : v.css = w.css \o b
  BY DEF Visits
<1>2. Joined(w.css, b, v.css)
  <2>1. b \in Seq(Closing) /\ w.css \in Seq(Closing)
    BY Kinds DEF Walk
  <2> QED
    BY <1>1, <2>1, ConcatJoins
<1>3. \A m : RulesIn(b, m) = {}
  BY NoRules
<1>4. ASSUME NEW m \in DOMAIN mods
      PROVE  /\ Each(v.css, m, IF m \in Emitted(v) THEN RulesOf(prog, m) ELSE {})
             /\ RulesIn(v.css, m) = RulesIn(w.css, m)
  <2>1. Each(w.css, m, IF m \in Emitted(v) THEN RulesOf(prog, m) ELSE {})
    BY DEF Gathers
  <2> QED
    BY <1>2, <1>3, <2>1, EachFirst
<1>5. ASSUME NEW u \in Emitted(v), NEW x \in Upstream(mods[u]) PROVE Before(v.css, x, u)
  <2>1. u \in DOMAIN mods
    BY DEF Emitted, Walk
  <2>2. x \in DOMAIN mods
    BY <2>1, UpstreamIs
  <2> QED
    BY <1>4, <2>1, <2>2 DEF Gathers, Before
<1> QED
  BY <1>4, <1>5 DEF Gathers

-----------------------------------------------------------------------------
(* The whole search: it keeps this, ends within its steps, and by then has  *)
(* seen every module with CSS.                                              *)
Search(prog, mods, r, root, w) ==
    Walk(mods, w) /\ Descends(w, r) /\ Covers(mods, w, root) /\ Gathers(prog, mods, w)
Sound(prog, mods, r) ==
    /\ Kept(mods) /\ Falls(mods, r) /\ \A u \in DOMAIN mods : Whole(prog, mods, u)

LEMMA SearchStart ==
    ASSUME NEW prog, NEW mods, NEW r, NEW root \in DOMAIN mods
    PROVE  Search(prog, mods, r, root, Start(root))
<1> DEFINE w == Start(root)
<1>1. w.todo = <<Visit(root, <<>>)>> /\ w.seen = {} /\ w.css = <<>>
  BY DEF Start
<1>2. Walk(mods, w)
  BY StartWalks
<1> HIDE DEF w
<1>3. Len(w.todo) = 1 /\ w.todo[1].task = "visit" /\ w.todo[1].url = root
  BY <1>1 DEF Visit
<1>4. Pending(w) = {} /\ Emitted(w) = {}
  BY <1>1, <1>3 DEF Pending, Emitted
<1>5. Descends(w, r)
  BY <1>3, <1>4 DEF Descends
<1>6. Covers(mods, w, root)
  BY <1>1, <1>3 DEF Covers
<1>7. \A m : RulesIn(w.css, m) = {}
  <2>1. Len(w.css) = 0
    BY <1>1
  <2> QED
    BY <2>1 DEF RulesIn
<1>8. Gathers(prog, mods, w)
  BY <1>4, <1>7 DEF Gathers, Each
<1> QED
  BY <1>2, <1>5, <1>6, <1>8 DEF Search, w

LEMMA SearchStep ==
    ASSUME NEW prog, NEW mods, NEW r, Sound(prog, mods, r), NEW root,
           NEW w, Search(prog, mods, r, root, w)
    PROVE  Search(prog, mods, r, root, CombineStep(mods, w))
<1> DEFINE v == CombineStep(mods, w)
<1>1. Walk(mods, w) /\ Descends(w, r) /\ Covers(mods, w, root) /\ Gathers(prog, mods, w)
  BY DEF Search
<1>2. Kept(mods) /\ Falls(mods, r) /\ \A u \in DOMAIN mods : Whole(prog, mods, u)
  BY DEF Sound
<1>3. CASE w.todo = <<>>
  BY <1>3 DEF CombineStep
<1>4. CASE w.todo # <<>>
  <2>1. Walk(mods, v) /\ (Emits(mods, w, v) \/ Visits(mods, w, v))
    BY <1>1, <1>2, <1>4, StepIs, StepWalks
  <2> HIDE DEF v
  <2>2. CASE Emits(mods, w, v)
    BY <1>1, <1>2, <1>4, <2>1, <2>2, EmitSearch, EmitGathers DEF Search, v
  <2>3. CASE Visits(mods, w, v)
    <3>1. Descends(v, r) /\ Covers(mods, v, root) /\ Emitted(v) = Emitted(w)
      <4>1. /\ Head(w.todo).task = "visit"
            /\ \/ /\ ~mods[Head(w.todo).url].hasCss \/ Head(w.todo).url \in w.seen
                  /\ v.todo = Tail(w.todo) /\ v.seen = w.seen
               \/ /\ Head(w.todo).url \notin w.seen
                  /\ v.todo = VisitModule(mods, Head(w.todo).url) \o Tail(w.todo)
                  /\ v.seen = w.seen \cup {Head(w.todo).url}
        BY <2>3 DEF Visits
      <4> QED
        BY <1>1, <1>2, <1>4, <4>1, SkipSearch, EnterSearch
    <3>2. Gathers(prog, mods, v)
      BY <1>1, <1>2, <2>3, <3>1, VisitGathers
    <3> QED
      BY <2>1, <3>1, <3>2 DEF Search, v
  <2> QED
    BY <2>1, <2>2, <2>3
<1> QED
  BY <1>3, <1>4

(* Each step takes one task away, from what is left to do or, with the visit *)
(* of a module, from those of the modules that were not seen.               *)
Unseen(mods, w) == {t \in Tasks(mods) : t[1] \notin w.seen}
Left(mods, w)   == Len(w.todo) + Cardinality(Unseen(mods, w))

LEMMA LeftType ==
    ASSUME NEW mods, Kept(mods), NEW w, Walk(mods, w)
    PROVE  /\ Len(w.todo) \in Nat /\ IsFiniteSet(Unseen(mods, w))
           /\ Cardinality(Unseen(mods, w)) \in Nat /\ Left(mods, w) \in Nat
<1>1. Unseen(mods, w) \in SUBSET Tasks(mods)
  BY DEF Unseen
<1>2. IsFiniteSet(Unseen(mods, w))
  BY <1>1, TasksFinite, FS_Subset
<1>3. Cardinality(Unseen(mods, w)) \in Nat
  BY <1>2, FS_CardinalityType
<1>4. Len(w.todo) \in Nat
  BY WalkIs
<1> QED
  BY <1>2, <1>3, <1>4 DEF Left

LEMMA StepLeft ==
    ASSUME NEW mods, Kept(mods), NEW w, Walk(mods, w), w.todo # <<>>
    PROVE  Left(mods, CombineStep(mods, w)) = Left(mods, w) - 1
<1> DEFINE v == CombineStep(mods, w)
           h == Head(w.todo).url
<1>1. /\ Walk(mods, v) /\ h \in DOMAIN mods
      /\ Emits(mods, w, v) \/ Visits(mods, w, v)
  BY StepIs, StepWalks DEF Calls
<1> HIDE DEF v
<1>2. CASE v.todo = Tail(w.todo) /\ v.seen = w.seen
  <2>1. Len(w.todo) \in Nat \ {0} /\ Len(v.todo) = Len(w.todo) - 1
    BY <1>2, Dropped
  <2>2. Unseen(mods, v) = Unseen(mods, w)
    BY <1>2 DEF Unseen
  <2>3. Cardinality(Unseen(mods, w)) \in Nat
    BY LeftType
  <2> QED
    BY <2>1, <2>2, <2>3 DEF Left, v
<1>3. CASE /\ h \notin w.seen /\ v.todo = VisitModule(mods, h) \o Tail(w.todo)
           /\ v.seen = w.seen \cup {h}
  <2> DEFINE n == Len(mods[h].upstream)
             T == {h} \X (1..n + 1)
             U == Unseen(mods, w)
             V == Unseen(mods, v)
  <2>1. SpreadOut(w.todo, v.todo, mods[h].upstream, h)
    BY <1>1, <1>3, Spread
  <2>2. n \in Nat /\ Len(w.todo) \in Nat /\ Len(v.todo) = n + Len(w.todo)
    BY <2>1, Zenon DEF SpreadOut
  <2>3. T \subseteq Tasks(mods)
    BY <1>1 DEF Tasks
  <2>4. U = V \cup T /\ V \cap T = {}
    <3>1. ASSUME NEW t \in U PROVE t \in V \cup T
      <4>1. PICK u \in DOMAIN mods : t \in {u} \X (1..Len(mods[u].upstream) + 1)
        BY DEF Unseen, Tasks
      <4>2. t[1] = u /\ u \notin w.seen /\ t \in Tasks(mods)
        BY <4>1 DEF Unseen
      <4> QED
        BY <1>3, <4>1, <4>2 DEF Unseen
    <3>2. ASSUME NEW t \in T PROVE t[1] = h
      OBVIOUS
    <3>3. V \subseteq U /\ T \subseteq U
      BY <1>3, <2>3, <3>2 DEF Unseen
    <3>4. \A t \in V : t[1] # h
      BY <1>3 DEF Unseen
    <3> QED
      BY <3>1, <3>2, <3>3, <3>4
  <2> HIDE DEF n, U, V
  <2>5. IsFiniteSet(T) /\ Cardinality(T) = n + 1
    <3> DEFINE m == n + 1
    <3>1. 1 \in Int /\ m \in Int /\ m >= 1
      BY <2>2
    <3> HIDE DEF m
    <3>2. IsFiniteSet(1..m) /\ Cardinality(1..m) = m
      <4>1. IsFiniteSet(1..m) /\ Cardinality(1..m) = IF 1 > m THEN 0 ELSE m - 1 + 1
        BY <3>1, FS_Interval
      <4> QED
        BY <3>1, <4>1
    <3>3. IsFiniteSet({h}) /\ Cardinality({h}) = 1
      BY FS_Singleton
    <3>4. IsFiniteSet(T) /\ Cardinality(T) = 1 * Cardinality(1..m)
      BY <3>2, <3>3, FS_Product DEF m
    <3> QED
      BY <3>1, <3>2, <3>4 DEF m
  <2> HIDE DEF T
  <2>6. IsFiniteSet(V) /\ Cardinality(V) \in Nat
    BY <1>1, LeftType DEF V
  <2>7. Cardinality(U) = Cardinality(V) + (n + 1)
    <3>1. Cardinality(V \cup T) = Cardinality(V) + Cardinality(T) - Cardinality(V \cap T)
      BY <2>5, <2>6, FS_Union
    <3>2. Cardinality(V \cap T) = 0
      BY <2>4, FS_EmptySet
    <3> QED
      BY <2>2, <2>4, <2>5, <2>6, <3>1, <3>2
  <2> QED
    BY <2>2, <2>6, <2>7 DEF Left, U, V, v
<1> QED
  BY <1>1, <1>2, <1>3 DEF Emits, Visits

(* At the end all modules with CSS were seen: one that was not is upstream  *)
(* of another, of a higher rank, that was not seen either.                  *)
LEMMA AllSeen ==
    ASSUME NEW prog, NEW mods, NEW n \in Nat, NEW r, Ranked(mods, n, r), Sound(prog, mods, r),
           NEW root, \A x \in DOMAIN mods : x = root \/ \E u \in DOMAIN mods : x \in Upstream(mods[u]),
           NEW w, Search(prog, mods, r, root, w), w.todo = <<>>
    PROVE  /\ Emitted(w) = w.seen
           /\ \A m \in DOMAIN mods : mods[m].hasCss => m \in w.seen
<1>1. Len(w.todo) = 0
  OBVIOUS
<1>2. Emitted(w) = w.seen /\ \A x, u : ~Awaits(w, x, u)
  BY <1>1 DEF Emitted, Pending, Awaits
<1>3. ASSUME NEW u \in w.seen, NEW x \in Upstream(mods[u]), mods[x].hasCss PROVE x \in w.seen
  BY <1>2, <1>3 DEF Search, Covers
<1>4. mods[root].hasCss => root \in w.seen
  BY <1>1 DEF Search, Covers
<1> DEFINE S == {k \in Nat : \A m \in DOMAIN mods : mods[m].hasCss /\ r[m] + k >= n => m \in w.seen}
<1>5. \A m \in DOMAIN mods : r[m] \in Nat /\ r[m] < n
  BY DEF Ranked
<1>6. 0 \in S
  BY <1>5
<1>7. ASSUME NEW k \in Nat, k \in S PROVE k + 1 \in S
  <2>1. ASSUME NEW m \in DOMAIN mods, mods[m].hasCss, r[m] + (k + 1) >= n PROVE m \in w.seen
    <3>1. CASE m = root
      BY <1>4, <2>1, <3>1
    <3>2. CASE m # root
      <4>1. PICK u \in DOMAIN mods : m \in Upstream(mods[u])
        BY <3>2
      <4>2. mods[u].hasCss
        BY <2>1, <4>1 DEF Sound, Whole
      <4>3. r[m] < r[u]
        BY <4>1 DEF Ranked
      <4>4. r[u] + k >= n
        BY <1>5, <2>1, <4>3
      <4> QED
        BY <1>3, <1>7, <2>1, <4>1, <4>2, <4>4
    <3> QED
      BY <3>1, <3>2
  <2> QED
    BY <2>1
<1>8. n \in S
  <2> HIDE DEF S
  <2> QED
    BY <1>6, <1>7, NatSet
<1>9. \A m \in DOMAIN mods : mods[m].hasCss => m \in w.seen
  BY <1>5, <1>8
<1> QED
  BY <1>2, <1>9

(* The combined CSS holds the rules of each module once, and after those of *)
(* the modules it depends on.                                               *)
LEMMA CombinedInOrder ==
    ASSUME NEW prog, NEW mods, NEW n \in Nat, NEW r, Ranked(mods, n, r), Sound(prog, mods, r),
           NEW root \in DOMAIN mods,
           \A x \in DOMAIN mods : x = root \/ \E u \in DOMAIN mods : x \in Upstream(mods[u])
    PROVE  LET c == CombineCss(mods, root)
           IN  \A m \in DOMAIN mods :
                  /\ Each(c, m, RulesOf(prog, m))
                  /\ \A x \in Upstream(mods[m]) : Before(c, x, m)
<1> DEFINE steps == Cardinality(Tasks(mods)) + 1
<1>1. Kept(mods) /\ steps \in Nat /\ Cardinality(Tasks(mods)) \in Nat
  BY TasksFinite DEF Sound
<1>2. PICK acc : /\ acc[0] = Start(root)
                 /\ CombineCss(mods, root) = acc[steps].imports \o acc[steps].css
                 /\ \A k \in 1..steps : acc[k] = CombineStep(mods, acc[k - 1])
  BY <1>1, SearchIs
<1> DEFINE Todo(k) == acc[k].todo = <<>> \/ Left(mods, acc[k]) + k <= steps
           S       == {k \in Nat : k <= steps => Search(prog, mods, r, root, acc[k]) /\ Todo(k)}
<1>3. 0 \in S
  <2>1. Search(prog, mods, r, root, acc[0])
    BY <1>2, SearchStart
  <2>2. Unseen(mods, acc[0]) = Tasks(mods) /\ Len(acc[0].todo) = 1
    BY <1>2 DEF Unseen, Start
  <2>3. Left(mods, acc[0]) + 0 <= steps
    BY <1>1, <2>2 DEF Left
  <2> QED
    BY <2>1, <2>3
<1> HIDE DEF steps
<1>4. ASSUME NEW k \in Nat, k \in S PROVE k + 1 \in S
  <2>1. SUFFICES ASSUME k + 1 <= steps PROVE Search(prog, mods, r, root, acc[k + 1]) /\ Todo(k + 1)
    BY <1>4
  <2>2. /\ Search(prog, mods, r, root, acc[k]) /\ Todo(k)
        /\ acc[k + 1] = CombineStep(mods, acc[k])
    <3>1. k + 1 \in 1..steps /\ k + 1 - 1 = k /\ k <= steps
      BY <1>1, <2>1
    <3> QED
      BY <1>2, <1>4, <3>1
  <2>3. Search(prog, mods, r, root, acc[k + 1])
    BY <2>2, SearchStep
  <2>4. CASE acc[k].todo = <<>>
    BY <2>2, <2>4 DEF CombineStep
  <2>5. CASE acc[k].todo # <<>>
    <3>1. Walk(mods, acc[k])
      BY <2>2 DEF Search
    <3>2. Left(mods, acc[k + 1]) = Left(mods, acc[k]) - 1 /\ Left(mods, acc[k]) \in Nat
      BY <1>1, <2>2, <2>5, <3>1, StepLeft, LeftType
    <3> QED
      BY <1>1, <2>2, <2>3, <2>5, <3>2
  <2> QED
    BY <2>2, <2>3, <2>4, <2>5
<1>5. steps \in S
  <2> HIDE DEF S
  <2> QED
    BY <1>1, <1>3, <1>4, NatSet
<1> DEFINE w == acc[steps]
<1>6. Search(prog, mods, r, root, w) /\ Todo(steps) /\ Walk(mods, w)
  BY <1>1, <1>5 DEF Search
<1>7. w.todo = <<>>
  <2>1. /\ Len(w.todo) \in Nat /\ Cardinality(Unseen(mods, w)) \in Nat
        /\ Left(mods, w) = Len(w.todo) + Cardinality(Unseen(mods, w))
    BY <1>1, <1>6, LeftType DEF Left
  <2>2. CASE Left(mods, w) + steps <= steps
    <3>1. Len(w.todo) = 0
      BY <1>1, <2>1, <2>2
    <3>2. w.todo \in Seq(Calls(mods))
      BY <1>6 DEF Walk
    <3> QED
      BY <3>1, <3>2
  <2> QED
    BY <1>6, <2>2
<1> DEFINE c == CombineCss(mods, root)
<1>8. c = w.imports \o w.css
  BY <1>2
<1> HIDE DEF w, c
<1>9. /\ Emitted(w) = w.seen
      /\ \A m \in DOMAIN mods : mods[m].hasCss => m \in w.seen
  BY <1>6, <1>7, AllSeen
<1>10. Joined(w.imports, w.css, c) /\ \A m : RulesIn(w.imports, m) = {}
  <2>1. w.imports \in Seq(Nodes) /\ w.css \in Seq(Nodes) /\ w.imports \in Seq(Opening)
    BY <1>6, Kinds DEF Walk
  <2> QED
    BY <1>8, <2>1, ConcatJoins, NoRules
<1>11. ASSUME NEW m \in DOMAIN mods PROVE Each(w.css, m, RulesOf(prog, m))
  <2>1. Each(w.css, m, IF m \in Emitted(w) THEN RulesOf(prog, m) ELSE {})
    BY <1>6 DEF Search, Gathers
  <2>2. CASE m \in w.seen
    BY <1>9, <2>1, <2>2
  <2>3. CASE m \notin w.seen
    <3>1. mods[m].css = <<>> /\ Each(mods[m].css, m, RulesOf(prog, m))
      BY <1>9, <2>3 DEF Sound, Whole
    <3>2. Len(mods[m].css) = 0
      BY <3>1
    <3>3. RulesOf(prog, m) = {}
      BY <3>1, <3>2 DEF Each, RulesIn
    <3> QED
      BY <1>9, <2>1, <2>3, <3>3
  <2> QED
    BY <2>2, <2>3
<1>12. ASSUME NEW m \in DOMAIN mods
       PROVE  Each(c, m, RulesOf(prog, m)) /\ \A k \in RulesIn(c, m) : k - Len(w.imports) \in RulesIn(w.css, m)
  BY <1>10, <1>11, EachSecond
<1>13. ASSUME NEW m \in DOMAIN mods, NEW x \in Upstream(mods[m]) PROVE Before(c, x, m)
  <2>1. x \in DOMAIN mods
    BY <1>1, UpstreamIs
  <2>2. CASE m \in w.seen
    <3>1. Before(w.css, x, m)
      BY <1>6, <1>9, <2>2 DEF Search, Gathers
    <3>2. /\ \A k \in RulesIn(c, m) : k - Len(w.imports) \in RulesIn(w.css, m)
          /\ \A k \in RulesIn(c, x) : k - Len(w.imports) \in RulesIn(w.css, x)
      BY <1>12, <2>1
    <3>3. Len(c) \in Nat /\ Len(w.imports) \in Nat
      BY <1>10, JoinedLen
    <3>4. RulesIn(c, m) \subseteq Int /\ RulesIn(c, x) \subseteq Int
      BY <3>3 DEF RulesIn
    <3>5. ASSUME NEW j \in RulesIn(c, x), NEW k \in RulesIn(c, m) PROVE j < k
      <4>1. j - Len(w.imports) < k - Len(w.imports)
        BY <3>1, <3>2 DEF Before
      <4> QED
        BY <3>3, <3>4, <4>1
    <3> QED
      BY <3>5 DEF Before
  <2>3. CASE m \notin w.seen
    <3>1. Each(w.css, m, {})
      BY <1>6, <1>9, <2>3 DEF Search, Gathers
    <3>2. RulesIn(w.css, m) = {}
      BY <3>1 DEF Each
    <3>3. RulesIn(c, m) = {}
      BY <1>12, <3>2
    <3> QED
      BY <3>3 DEF Before
  <2> QED
    BY <2>2, <2>3
<1> QED
  BY <1>12, <1>13 DEF c

-----------------------------------------------------------------------------
(* Frames: what is put into the stylesheet under construction.              *)

LEMMA SeqGrows ==
    ASSUME NEW S, NEW T, S \subseteq T
    PROVE  Seq(S) \subseteq Seq(T)
<1>1. ASSUME NEW s \in Seq(S) PROVE s \in Seq(T)
  <2>1. Len(s) \in Nat /\ DOMAIN s = 1..Len(s) /\ s = [k \in 1..Len(s) |-> s[k]]
    OBVIOUS
  <2>2. \A k \in 1..Len(s) : s[k] \in T
    BY <2>1
  <2> QED
    BY <2>1, <2>2, SeqDef
<1> QED
  BY <1>1

SheetFields == {"root", "endOfImports", "outOfOrder", "comments", "upstream"}
LikeSheet(f, g) ==
    /\ SheetFields \subseteq DOMAIN g
    /\ g.root = f.root /\ g.endOfImports = f.endOfImports /\ g.outOfOrder = f.outOfOrder
    /\ g.comments = f.comments /\ g.upstream = f.upstream

LEMMA SheetAlike ==
    ASSUME NEW f, NEW known, Sheet(f, known), NEW g, LikeSheet(f, g)
    PROVE  Sheet(g, known)
BY Zenon DEF Sheet, LikeSheet, SheetFields

LEMMA SheetGrows ==
    ASSUME NEW f, NEW known, Sheet(f, known), NEW more, known \subseteq more
    PROVE  Sheet(f, more)
<1>1. f.upstream \in Seq(more)
  BY SeqGrows DEF Sheet
<1> QED
  BY <1>1, Zenon DEF Sheet

(* The rest of a frame a node leaves alone. *)
Keeps(f, g) ==
    /\ DOMAIN g = DOMAIN f /\ g.comments = f.comments /\ g.upstream = f.upstream

LEMMA ImportAdded ==
    ASSUME NEW f, NEW known, Sheet(f, known), NEW node \in Of({"import"})
    PROVE  Sheet(AddImport(f, node), known) /\ Keeps(f, AddImport(f, node))
<1> DEFINE g == AddImport(f, node)
<1>1. /\ f.root \in Seq(Nodes) /\ Len(f.root) \in Nat /\ f.endOfImports \in 0..Len(f.root)
      /\ f.outOfOrder \in Seq(Of({"import"}))
      /\ \A k \in 1..Len(f.root) :
            IF k <= f.endOfImports THEN f.root[k].kind # "rule" ELSE f.root[k].kind # "import"
      /\ SheetFields \subseteq DOMAIN f
  BY DEF Sheet, SheetFields
<1>2. node \in Nodes /\ node.kind = "import"
  BY DEF Nodes, Of
<1>3. CASE f.endOfImports = Len(f.root)
  <2>1. /\ DOMAIN g = DOMAIN f /\ g.comments = f.comments /\ g.upstream = f.upstream
        /\ g.outOfOrder = f.outOfOrder /\ g.root = Append(f.root, node)
        /\ g.endOfImports = f.endOfImports + 1
    BY <1>1, <1>3 DEF AddImport, SheetFields
  <2> HIDE DEF g
  <2>2. /\ g.root \in Seq(Nodes) /\ Len(g.root) = Len(f.root) + 1
        /\ g.root[Len(f.root) + 1] = node /\ \A k \in 1..Len(f.root) : g.root[k] = f.root[k]
    BY <1>1, <1>2, <2>1, AppendProperties
  <2>3. ASSUME NEW k \in 1..Len(g.root) PROVE k <= g.endOfImports /\ g.root[k].kind # "rule"
    <3>1. k \in 1..Len(f.root) \/ k = Len(f.root) + 1
      BY <1>1, <2>2
    <3>2. k \in 1..Len(f.root) => f.root[k].kind # "rule"
      BY <1>1, <1>3
    <3> QED
      BY <1>1, <1>2, <1>3, <2>1, <2>2, <3>1, <3>2
  <2>4. g.endOfImports \in 0..Len(g.root)
    BY <1>1, <1>3, <2>1, <2>2
  <2>5. Sheet(g, known)
    BY <1>1, <2>1, <2>2, <2>3, <2>4 DEF Sheet
  <2> QED
    BY <2>1, <2>5 DEF Keeps, g
<1>4. CASE f.endOfImports # Len(f.root)
  <2>1. /\ DOMAIN g = DOMAIN f /\ g.comments = f.comments /\ g.upstream = f.upstream
        /\ g.outOfOrder = Append(f.outOfOrder, node) /\ g.root = f.root
        /\ g.endOfImports = f.endOfImports
    BY <1>1, <1>4 DEF AddImport, SheetFields
  <2> HIDE DEF g
  <2>2. g.outOfOrder \in Seq(Of({"import"}))
    BY <1>1, <2>1, AppendProperties
  <2>3. Sheet(g, known)
    BY <1>1, <2>1, <2>2 DEF Sheet, SheetFields
  <2> QED
    BY <2>1, <2>3 DEF Keeps, g
<1> QED
  BY <1>3, <1>4

LEMMA CommentAdded ==
    ASSUME NEW f, NEW known, Sheet(f, known), NEW node \in Remarks
    PROVE  Sheet(AddComment(f, node), known) /\ Keeps(f, AddComment(f, node))
<1> DEFINE g == AddComment(f, node)
<1>1. /\ f.root \in Seq(Nodes) /\ Len(f.root) \in Nat /\ f.endOfImports \in 0..Len(f.root)
      /\ f.outOfOrder \in Seq(Of({"import"}))
      /\ \A k \in 1..Len(f.root) :
            IF k <= f.endOfImports THEN f.root[k].kind # "rule" ELSE f.root[k].kind # "import"
      /\ SheetFields \subseteq DOMAIN f
  BY DEF Sheet, SheetFields
<1>2. node \in Nodes /\ node.kind = "comment"
  BY DEF Nodes, Remarks, Of
<1>3. /\ DOMAIN g = DOMAIN f /\ g.comments = f.comments /\ g.upstream = f.upstream
      /\ g.outOfOrder = f.outOfOrder /\ g.root = Append(f.root, node)
      /\ g.endOfImports = IF f.endOfImports = Len(f.root) THEN f.endOfImports + 1 ELSE f.endOfImports
  BY <1>1 DEF AddComment, SheetFields
<1> HIDE DEF g
<1>4. /\ g.root \in Seq(Nodes) /\ Len(g.root) = Len(f.root) + 1
      /\ g.root[Len(f.root) + 1] = node /\ \A k \in 1..Len(f.root) : g.root[k] = f.root[k]
  BY <1>1, <1>2, <1>3, AppendProperties
<1>5. ASSUME NEW k \in 1..Len(g.root)
      PROVE  IF k <= g.endOfImports THEN g.root[k].kind # "rule" ELSE g.root[k].kind # "import"
  <2>1. CASE k \in 1..Len(f.root)
    <3>1. k <= g.endOfImports <=> k <= f.endOfImports
      BY <1>1, <1>3, <2>1
    <3> QED
      BY <1>1, <1>4, <2>1, <3>1
  <2>2. CASE k \notin 1..Len(f.root)
    <3>1. k = Len(f.root) + 1
      BY <1>1, <1>4, <2>2
    <3> QED
      BY <1>2, <1>4, <3>1
  <2> QED
    BY <2>1, <2>2
<1>6. g.endOfImports \in 0..Len(g.root)
  BY <1>1, <1>3, <1>4
<1>7. Sheet(g, known)
  BY <1>1, <1>3, <1>4, <1>5, <1>6, Zenon DEF Sheet, SheetFields
<1> QED
  BY <1>3, <1>7 DEF Keeps, g

LEMMA ChildAdded ==
    ASSUME NEW f, NEW known, Sheet(f, known), NEW node \in Nodes, node.kind # "import"
    PROVE  Sheet(AddChild(f, node), known) /\ Keeps(f, AddChild(f, node))
<1> DEFINE g == AddChild(f, node)
<1>1. /\ f.root \in Seq(Nodes) /\ Len(f.root) \in Nat /\ f.endOfImports \in 0..Len(f.root)
      /\ f.outOfOrder \in Seq(Of({"import"}))
      /\ \A k \in 1..Len(f.root) :
            IF k <= f.endOfImports THEN f.root[k].kind # "rule" ELSE f.root[k].kind # "import"
      /\ SheetFields \subseteq DOMAIN f
  BY DEF Sheet, SheetFields
<1>3. /\ DOMAIN g = DOMAIN f /\ g.comments = f.comments /\ g.upstream = f.upstream
      /\ g.outOfOrder = f.outOfOrder /\ g.root = Append(f.root, node)
      /\ g.endOfImports = f.endOfImports
  BY <1>1 DEF AddChild, SheetFields
<1> HIDE DEF g
<1>4. /\ g.root \in Seq(Nodes) /\ Len(g.root) = Len(f.root) + 1
      /\ g.root[Len(f.root) + 1] = node /\ \A k \in 1..Len(f.root) : g.root[k] = f.root[k]
  BY <1>1, <1>3, AppendProperties
<1>5. ASSUME NEW k \in 1..Len(g.root)
      PROVE  IF k <= g.endOfImports THEN g.root[k].kind # "rule" ELSE g.root[k].kind # "import"
  <2>1. CASE k \in 1..Len(f.root)
    BY <1>1, <1>3, <1>4, <2>1
  <2>2. CASE k \notin 1..Len(f.root)
    <3>1. k = Len(f.root) + 1 /\ ~(k <= g.endOfImports)
      BY <1>1, <1>3, <1>4, <2>2
    <3> QED
      BY <1>4, <3>1
  <2> QED
    BY <2>1, <2>2
<1>6. g.endOfImports \in 0..Len(g.root)
  BY <1>1, <1>3, <1>4
<1>7. Sheet(g, known)
  BY <1>1, <1>3, <1>4, <1>5, <1>6, Zenon DEF Sheet, SheetFields
<1> QED
  BY <1>3, <1>7 DEF Keeps, g

(* A node of any kind, as VisitCssStylesheet and the importedCssVisitor put it. *)
LEMMA NodeAdded ==
    ASSUME NEW f, NEW known, Sheet(f, known), NEW node \in Nodes,
           NEW g, \/ node.kind = "import" /\ g = AddImport(f, node)
                  \/ node.kind = "comment" /\ g \in {AddComment(f, node), AddChild(f, node)}
                  \/ node.kind = "rule" /\ g = AddChild(f, node)
    PROVE  Sheet(g, known) /\ Keeps(f, g)
<1>1. node.kind = "import" => node \in Of({"import"})
  BY DEF Nodes, Of
<1>2. node.kind = "comment" => node \in Remarks
  BY DEF Nodes, Of, Remarks
<1> QED
  BY <1>1, <1>2, ImportAdded, CommentAdded, ChildAdded

LEMMA CombinedKeeps ==
    ASSUME NEW f, NEW known, Sheet(f, known), NEW nodes \in Seq(Nodes)
    PROVE  Sheet(CombinedCss(f, nodes), known) /\ Keeps(f, CombinedCss(f, nodes))
<1>1. Len(nodes) \in Nat /\ \A k \in 1..Len(nodes) : nodes[k] \in Nodes
  OBVIOUS
<1>2. PICK acc : /\ acc[0] = f /\ CombinedCss(f, nodes) = acc[Len(nodes)]
                 /\ \A k \in 1..Len(nodes) :
                       acc[k] = VisitNode(acc[k - 1], nodes[k])
  BY <1>1, CombinedAre
<1> DEFINE S == {k \in Nat : k <= Len(nodes) => Sheet(acc[k], known) /\ Keeps(f, acc[k])}
<1>3. 0 \in S
  BY <1>2 DEF Keeps
<1>4. ASSUME NEW k \in Nat, k \in S PROVE k + 1 \in S
  <2>1. SUFFICES ASSUME k + 1 <= Len(nodes) PROVE Sheet(acc[k + 1], known) /\ Keeps(f, acc[k + 1])
    BY <1>4
  <2>2. k + 1 \in 1..Len(nodes) /\ k + 1 - 1 = k /\ Sheet(acc[k], known) /\ Keeps(f, acc[k])
    BY <1>1, <1>4, <2>1
  <2> DEFINE node == nodes[k + 1]
             g    == acc[k]
             h    == acc[k + 1]
  <2>3. node \in Nodes /\ node.kind \in {"import", "comment", "rule"}
    BY <1>1, <2>2 DEF Nodes, Of
  <2>4. h = VisitNode(g, node)
    BY <1>2, <2>2
  <2>5. Sheet(g, known) /\ Keeps(f, g)
    BY <2>2
  <2> HIDE DEF node, g, h
  <2>6. Sheet(h, known) /\ Keeps(g, h)
    BY <2>3, <2>4, <2>5, NodeAdded DEF VisitNode
  <2>7. Keeps(f, h)
    BY <2>5, <2>6 DEF Keeps
  <2> QED
    BY <2>6, <2>7 DEF h
<1>5. Len(nodes) \in S
  <2> HIDE DEF S
  <2> QED
    BY <1>1, <1>3, <1>4, NatSet
<1> QED
  BY <1>1, <1>2, <1>5

LEMMA ImportedKeeps ==
    ASSUME NEW f, NEW known, Sheet(f, known), NEW nodes \in Seq(Nodes)
    PROVE  Sheet(ImportedCss(f, nodes), known) /\ Keeps(f, ImportedCss(f, nodes))
<1>1. Len(nodes) \in Nat /\ \A k \in 1..Len(nodes) : nodes[k] \in Nodes
  OBVIOUS
<1>2. PICK acc : /\ acc[0] = f /\ ImportedCss(f, nodes) = acc[Len(nodes)]
                 /\ \A k \in 1..Len(nodes) :
                       acc[k] = IF nodes[k].kind = "import" THEN AddImport(acc[k - 1], nodes[k])
                                ELSE AddChild(acc[k - 1], nodes[k])
  BY <1>1, ImportedAre
<1> DEFINE S == {k \in Nat : k <= Len(nodes) => Sheet(acc[k], known) /\ Keeps(f, acc[k])}
<1>3. 0 \in S
  BY <1>2 DEF Keeps
<1>4. ASSUME NEW k \in Nat, k \in S PROVE k + 1 \in S
  <2>1. SUFFICES ASSUME k + 1 <= Len(nodes) PROVE Sheet(acc[k + 1], known) /\ Keeps(f, acc[k + 1])
    BY <1>4
  <2>2. k + 1 \in 1..Len(nodes) /\ k + 1 - 1 = k /\ Sheet(acc[k], known) /\ Keeps(f, acc[k])
    BY <1>1, <1>4, <2>1
  <2> DEFINE node == nodes[k + 1]
             g    == acc[k]
             h    == acc[k + 1]
  <2>3. node \in Nodes /\ node.kind \in {"import", "comment", "rule"}
    BY <1>1, <2>2 DEF Nodes, Of
  <2>4. h = IF node.kind = "import" THEN AddImport(g, node) ELSE AddChild(g, node)
    BY <1>2, <2>2
  <2>5. Sheet(g, known) /\ Keeps(f, g)
    BY <2>2
  <2> HIDE DEF node, g, h
  <2>6. Sheet(h, known) /\ Keeps(g, h)
    BY <2>3, <2>4, <2>5, NodeAdded
  <2>7. Keeps(f, h)
    BY <2>5, <2>6 DEF Keeps
  <2> QED
    BY <2>6, <2>7 DEF h
<1>5. Len(nodes) \in S
  <2> HIDE DEF S
  <2> QED
    BY <1>1, <1>3, <1>4, NatSet
<1> QED
  BY <1>1, <1>2, <1>5

LEMMA ChildrenKept ==
    ASSUME NEW f, NEW known, Sheet(f, known), NEW g, Sheet(g, known)
    PROVE  Sheet(WithChildren(f, g), known) /\ Keeps(f, WithChildren(f, g))
<1> DEFINE h == WithChildren(f, g)
<1>1. SheetFields \subseteq DOMAIN f
  BY DEF Sheet, SheetFields
<1>2. /\ DOMAIN h = DOMAIN f /\ h.root = g.root /\ h.endOfImports = g.endOfImports
      /\ h.outOfOrder = g.outOfOrder /\ h.comments = f.comments /\ h.upstream = f.upstream
  BY <1>1 DEF WithChildren, SheetFields
<1> HIDE DEF h
<1>3. Sheet(h, known)
  BY <1>1, <1>2, Zenon DEF Sheet, SheetFields
<1> QED
  BY <1>2, <1>3 DEF Keeps, h

LEMMA CssVisited ==
    ASSUME NEW f, NEW known, Sheet(f, known), NEW nodes \in Seq(Nodes)
    PROVE  /\ Sheet(VisitCss(f, nodes), known) /\ Keeps(f, VisitCss(f, nodes))
           /\ Sheet(VisitImportedCss(f, nodes), known) /\ Keeps(f, VisitImportedCss(f, nodes))
BY CombinedKeeps, ImportedKeeps, ChildrenKept DEF VisitCss, VisitImportedCss

-----------------------------------------------------------------------------
(* From a frame to a module.                                                *)

(* What Children puts together: a block without rules, more @imports, and   *)
(* the rest.                                                                *)
LEMMA ChildrenAre ==
    ASSUME NEW f, NEW known, Sheet(f, known)
    PROVE  LET n == f.endOfImports
               a == SubSeq(f.root, 1, n) \o f.outOfOrder
               b == SubSeq(f.root, n + 1, Len(f.root))
           IN  /\ n \in 0..Len(f.root) /\ Len(f.root) \in Nat
               /\ a \in Seq(Opening) /\ b \in Seq(Closing)
               /\ Children(f) = a \o b
<1> DEFINE n == f.endOfImports
           u == SubSeq(f.root, 1, n)
           b == SubSeq(f.root, n + 1, Len(f.root))
           o == f.outOfOrder
<1>1. /\ f.root \in Seq(Nodes) /\ Len(f.root) \in Nat /\ n \in 0..Len(f.root)
      /\ o \in Seq(Of({"import"}))
      /\ \A k \in 1..Len(f.root) :
            IF k <= n THEN f.root[k].kind # "rule" ELSE f.root[k].kind # "import"
  BY DEF Sheet
<1>2. /\ u \in Seq(Nodes) /\ Len(u) = n /\ \A i \in 1..n : u[i] = f.root[i]
      /\ b \in Seq(Nodes) /\ Len(b) = Len(f.root) - n
      /\ \A i \in 1..(Len(f.root) - n) : b[i] = f.root[n + i]
  <2> HIDE DEF n
  <2> QED
    BY <1>1, SliceIs
<1>3. Children(f) = (u \o o) \o b
  BY DEF Children
<1> HIDE DEF n, u, b, o
<1>4. u \in Seq(Opening)
  <2>1. \A i \in 1..Len(u) : u[i] \in Nodes /\ u[i].kind # "rule"
    BY <1>1, <1>2
  <2>2. \A i \in 1..Len(u) : u[i] \in Opening
    BY <2>1 DEF Nodes, Opening, Of
  <2> QED
    BY <1>2, <2>2
<1>5. b \in Seq(Closing)
  <2>1. ASSUME NEW i \in 1..Len(b) PROVE b[i] \in Nodes /\ b[i].kind # "import"
    <3>1. n + i \in 1..Len(f.root) /\ ~(n + i <= n) /\ b[i] = f.root[n + i]
      BY <1>1, <1>2
    <3> QED
      BY <1>1, <3>1
  <2>2. \A i \in 1..Len(b) : b[i] \in Closing
    BY <2>1 DEF Nodes, Closing, Of
  <2> QED
    BY <1>2, <2>2
<1>6. o \in Seq(Opening)
  <2>1. Of({"import"}) \subseteq Opening
    BY DEF Opening, Of
  <2> QED
    BY <1>1, <2>1, SeqGrows
<1>7. u \o o \in Seq(Opening)
  BY <1>4, <1>6, ConcatIs
<1> QED
  BY <1>1, <1>3, <1>5, <1>7 DEF n, u, b, o

LEMMA OpeningClosing ==
    ASSUME NEW s \in Seq(Opening), NEW t \in Seq(Closing)
    PROVE  s \o t \in Seq(Nodes) /\ ImportsFirst(s \o t)
<1>1. s \in Seq(Nodes) /\ t \in Seq(Nodes)
  BY Kinds
<1>2. s \o t \in Seq(Nodes)
  BY <1>1, ConcatIs
<1>3. /\ \A k \in 1..Len(s) : (s \o t)[k] = s[k]
      /\ \A k \in 1..Len(s \o t) :
            k \in 1..Len(s) \/ (k - Len(s) \in 1..Len(t) /\ (s \o t)[k] = t[k - Len(s)])
      /\ Len(s) \in Nat /\ Len(t) \in Nat /\ Len(s \o t) = Len(s) + Len(t)
  BY <1>1, ConcatIs
<1>4. /\ \A k \in 1..Len(s) : s[k].kind # "rule"
      /\ \A k \in 1..Len(t) : t[k].kind # "import"
  <2>1. (\A k \in 1..Len(s) : s[k] \in Opening) /\ (\A k \in 1..Len(t) : t[k] \in Closing)
    OBVIOUS
  <2> QED
    BY <2>1, Kinds
<1>5. ImportsFirst(s \o t)
  BY <1>3, <1>4 DEF ImportsFirst
<1> QED
  BY <1>2, <1>5

LEMMA ChildrenInOrder ==
    ASSUME NEW f, NEW known, Sheet(f, known)
    PROVE  Children(f) \in Seq(Nodes) /\ ImportsFirst(Children(f))
BY ChildrenAre, OpeningClosing

LEMMA ModuleBound ==
    ASSUME NEW f, NEW known, Sheet(f, known), NEW mods
    PROVE  /\ Bound(ToModule(mods, f, Children(f)), known)
           /\ Bound(ToDummyModule(mods, f), known)
<1> DEFINE c == Children(f)
           d == ToDummyModule(mods, f)
<1>1. c \in Seq(Nodes) /\ ImportsFirst(c) /\ Commenting(f.comments) /\ f.upstream \in Seq(known)
  BY ChildrenInOrder DEF Sheet
<1> HIDE DEF c
<1>2. Bound(ToModule(mods, f, c), known)
  BY <1>1 DEF ToModule, Bound
<1>3. /\ {"css", "comments", "upstream", "hasCss"} \subseteq DOMAIN d
      /\ d.css = <<>> /\ d.comments = <<>> /\ d.upstream = f.upstream
  BY DEF ToDummyModule, ToModule
<1> HIDE DEF d
<1>4. d.css \in Seq(Nodes) /\ ImportsFirst(d.css) /\ Commenting(d.comments)
  <2>1. Len(d.css) = 0 /\ DOMAIN d.comments = {}
    BY <1>3
  <2> QED
    BY <1>3, <2>1 DEF ImportsFirst, Commenting
<1>5. Bound(d, known)
  BY <1>1, <1>3, <1>4 DEF Bound
<1> QED
  BY <1>2, <1>5 DEF c, d

LEMMA BoundGrows ==
    ASSUME NEW mod, NEW known, Bound(mod, known), NEW more, known \subseteq more
    PROVE  Bound(mod, more)
<1>1. mod.upstream \in Seq(more)
  BY SeqGrows DEF Bound
<1> QED
  BY <1>1, Zenon DEF Bound

LEMMA KeptPut ==
    ASSUME NEW mods, Kept(mods), NEW u, NEW mod, Bound(mod, DOMAIN mods)
    PROVE  Kept(Put(mods, u, mod)) /\ DOMAIN Put(mods, u, mod) = DOMAIN mods \cup {u}
<1> DEFINE all == Put(mods, u, mod)
<1>1. /\ DOMAIN all = DOMAIN mods \cup {u} /\ all[u] = mod
      /\ \A x \in DOMAIN mods : x # u => all[x] = mods[x]
  BY DEF Put
<1> HIDE DEF all
<1>2. IsFiniteSet(DOMAIN all)
  BY <1>1, FS_AddElement DEF Kept
<1>3. ASSUME NEW x \in DOMAIN all PROVE Bound(all[x], DOMAIN all)
  <2>1. DOMAIN mods \subseteq DOMAIN all
    BY <1>1
  <2>2. Bound(all[x], DOMAIN mods)
    BY <1>1 DEF Kept
  <2> QED
    BY <2>1, <2>2, BoundGrows
<1> QED
  BY <1>1, <1>2, <1>3 DEF Kept, all

(* The comments that are registered for a module. *)
LEMMA CommentsKind ==
    ASSUME NEW nodes \in Seq(Nodes)
    PROVE  CommentsIn(nodes) \in Seq(Remarks)
<1>1. Len(nodes) \in Nat /\ \A k \in 1..Len(nodes) : nodes[k] \in Nodes
  OBVIOUS
<1>2. PICK acc : /\ acc[0] = <<>> /\ CommentsIn(nodes) = acc[Len(nodes)]
                 /\ \A k \in 1..Len(nodes) :
                       acc[k] = IF nodes[k].kind = "comment" THEN Append(acc[k - 1], nodes[k]) ELSE acc[k - 1]
  BY <1>1, CommentsAre
<1> DEFINE S == {k \in Nat : k <= Len(nodes) => acc[k] \in Seq(Remarks)}
<1>3. 0 \in S
  <2>1. <<>> \in Seq(Remarks)
    OBVIOUS
  <2> QED
    BY <1>2, <2>1
<1>4. ASSUME NEW k \in Nat, k \in S PROVE k + 1 \in S
  <2>1. SUFFICES ASSUME k + 1 <= Len(nodes) PROVE acc[k + 1] \in Seq(Remarks)
    BY <1>4
  <2>2. k + 1 \in 1..Len(nodes) /\ k + 1 - 1 = k /\ acc[k] \in Seq(Remarks)
    BY <1>1, <1>4, <2>1
  <2>3. acc[k + 1] = IF nodes[k + 1].kind = "comment" THEN Append(acc[k], nodes[k + 1]) ELSE acc[k]
    BY <1>2, <2>2
  <2>4. nodes[k + 1].kind = "comment" => nodes[k + 1] \in Remarks
    BY <1>1, <2>2 DEF Nodes, Remarks, Of
  <2> QED
    BY <2>2, <2>3, <2>4, AppendProperties
<1>5. Len(nodes) \in S
  <2> HIDE DEF S
  <2> QED
    BY <1>1, <1>3, <1>4, NatSet
<1> QED
  BY <1>1, <1>2, <1>5

LEMMA RegisterKeeps ==
    ASSUME NEW f, NEW known, Sheet(f, known), NEW url, NEW mods
    PROVE  LET g == RegisterComments(f, url, mods)
           IN  /\ Sheet(g, known) /\ DOMAIN g = DOMAIN f /\ g.upstream = f.upstream
               /\ g.root \in {f.root, <<>>}
<1> DEFINE g == RegisterComments(f, url, mods)
           c == CommentsOf(f, url) \o CommentsIn(f.root)
<1>1. SheetFields \subseteq DOMAIN f /\ f.root \in Seq(Nodes) /\ Commenting(f.comments)
  BY DEF Sheet, SheetFields
<1>2. CASE g = f
  BY <1>2
<1>3. CASE g # f
  <2>1. CommentsOf(f, url) \in Seq(Remarks)
    BY <1>1 DEF CommentsOf, Commenting
  <2>2. c \in Seq(Remarks)
    BY <1>1, <2>1, CommentsKind, ConcatIs
  <2> HIDE DEF c
  <2>3. g = [f EXCEPT !.comments = Put(@, url, c), !.root = <<>>, !.endOfImports = 0, !.outOfOrder = <<>>]
    BY <1>3 DEF RegisterComments, c
  <2>4. /\ DOMAIN g = DOMAIN f /\ g.comments = Put(f.comments, url, c) /\ g.root = <<>>
        /\ g.endOfImports = 0 /\ g.outOfOrder = <<>> /\ g.upstream = f.upstream
    BY <1>1, <2>3 DEF SheetFields
  <2> HIDE DEF g
  <2>5. Commenting(g.comments)
    <3>1. /\ DOMAIN g.comments = DOMAIN f.comments \cup {url} /\ g.comments[url] = c
          /\ \A x \in DOMAIN f.comments : x # url => g.comments[x] = f.comments[x]
      BY <2>4 DEF Put
    <3> QED
      BY <1>1, <2>2, <3>1 DEF Commenting
  <2>6. Len(g.root) = 0 /\ g.root \in Seq(Nodes) /\ g.outOfOrder \in Seq(Of({"import"}))
    BY <2>4
  <2>7. Sheet(g, known)
    BY <1>1, <2>4, <2>5, <2>6 DEF Sheet, SheetFields
  <2> QED
    BY <2>4, <2>7 DEF g
<1> QED
  BY <1>2, <1>3

(* The frame after a load: it depends on one more module. *)
LEMMA CallbackKeeps ==
    ASSUME NEW mods, Kept(mods), NEW f, Sheet(f, DOMAIN mods), NEW s, s.op \in Loading,
           s.url \in DOMAIN mods, NEW first
    PROVE  LET g == Callback(f, s, mods, first)
           IN  /\ Sheet(g, DOMAIN mods)
               /\ s.op # "loadcss" => /\ Upstream(g) = Upstream(f) \cup {s.url}
                                      /\ g.root \in {f.root, <<>>}
<1> DEFINE g == IF first THEN RegisterComments(f, s.url, mods) ELSE f
           h == Callback(f, s, mods, first)
<1>1. /\ Sheet(g, DOMAIN mods) /\ DOMAIN g = DOMAIN f /\ g.upstream = f.upstream
      /\ g.root \in {f.root, <<>>}
  BY RegisterKeeps
<1>2. h = CASE s.op = "use"     -> [g EXCEPT !.used = @ \cup {s.url}, !.upstream = Append(@, s.url)]
            [] s.op = "forward" ->
                 [g EXCEPT !.forwarded = @ \cup {Forwarded(s.rule, s.url, mods[s.url])},
                           !.upstream = Append(@, s.url)]
            [] s.op = "loadcss" -> VisitCss(f, CombineCss(mods, s.url))
  BY DEF Callback
<1> HIDE DEF g
<1>3. CASE s.op = "loadcss"
  <2>1. h = VisitCss(f, CombineCss(mods, s.url))
    BY <1>2, <1>3
  <2>2. CombineCss(mods, s.url) \in Seq(Nodes)
    BY CombinedIs
  <2> QED
    BY <1>3, <2>1, <2>2, CssVisited
<1>4. CASE s.op # "loadcss"
  <2>1. \/ h = [g EXCEPT !.used = @ \cup {s.url}, !.upstream = Append(@, s.url)]
        \/ h = [g EXCEPT !.forwarded = @ \cup {Forwarded(s.rule, s.url, mods[s.url])},
                         !.upstream = Append(@, s.url)]
    BY <1>2, <1>4 DEF Loading
  <2>2. SheetFields \subseteq DOMAIN g /\ g.upstream \in Seq(DOMAIN mods)
    BY <1>1 DEF Sheet, SheetFields
  <2>3. /\ DOMAIN h = DOMAIN g /\ h.upstream = Append(g.upstream, s.url)
        /\ h.root = g.root /\ h.endOfImports = g.endOfImports /\ h.outOfOrder = g.outOfOrder
        /\ h.comments = g.comments
    BY <2>1, <2>2 DEF SheetFields
  <2> HIDE DEF h
  <2>4. /\ h.upstream \in Seq(DOMAIN mods) /\ Len(h.upstream) = Len(g.upstream) + 1
        /\ h.upstream[Len(g.upstream) + 1] = s.url
        /\ \A i \in 1..Len(g.upstream) : h.upstream[i] = g.upstream[i]
        /\ Len(g.upstream) \in Nat
    BY <2>2, <2>3, AppendProperties
  <2>5. Sheet(h, DOMAIN mods)
    BY <1>1, <2>2, <2>3, <2>4, Zenon DEF Sheet, SheetFields
  <2>6. Upstream(h) = Upstream(g) \cup {s.url}
    <3>1. \A i \in 1..Len(h.upstream) : i \in 1..Len(g.upstream) \/ i = Len(g.upstream) + 1
      BY <2>4
    <3>2. 1..Len(g.upstream) \subseteq 1..Len(h.upstream) /\ Len(g.upstream) + 1 \in 1..Len(h.upstream)
      BY <2>4
    <3>3. ASSUME NEW x \in Upstream(h) PROVE x \in Upstream(g) \cup {s.url}
      BY <2>4, <3>1 DEF Upstream
    <3>4. ASSUME NEW x \in Upstream(g) \cup {s.url} PROVE x \in Upstream(h)
      BY <2>4, <3>2 DEF Upstream
    <3> QED
      BY <3>3, <3>4
  <2>7. Upstream(g) = Upstream(f)
    BY <1>1 DEF Upstream
  <2> QED
    BY <1>1, <2>3, <2>5, <2>6, <2>7 DEF h
<1> QED
  BY <1>3, <1>4

-----------------------------------------------------------------------------
(* The stack: what each step leaves in the frames, whatever is loaded.      *)

LEMMA GoneOn == ASSUME NEW f, NEW known, Sheet(f, known) PROVE Sheet(Advance(f), known)
<1>1. SheetFields \subseteq DOMAIN f
  BY DEF Sheet, SheetFields
<1>2. LikeSheet(f, Advance(f))
  BY <1>1 DEF LikeSheet, Advance, SheetFields
<1> QED
  BY <1>2, SheetAlike

LEMMA Replaced ==
    ASSUME NEW s, Sequence(s), s # <<>>, NEW h
    PROVE  LET t == Append(Front(s), h)
           IN  /\ Len(s) \in Nat \ {0} /\ Len(t) = Len(s) /\ t[Len(s)] = h
               /\ \A k \in 1..Len(s) - 1 : t[k] = s[k]
<1> DEFINE S == {s[k] : k \in DOMAIN s} \cup {h}
<1>1. s \in Seq(S) /\ h \in S
  <2>1. {s[k] : k \in DOMAIN s} \subseteq S
    OBVIOUS
  <2> QED
    BY <2>1, SeqGrows DEF Sequence
<1> HIDE DEF S
<1>2. /\ Front(s) \in Seq(S) /\ Len(Front(s)) = Len(s) - 1 /\ Len(s) \in Nat \ {0}
      /\ \A k \in 1..Len(s) - 1 : Front(s)[k] = s[k]
  BY <1>1, FrontIs
<1> QED
  BY <1>1, <1>2

LEMMA LaidGoesOn ==
    ASSUME NEW s, Sequence(s), s # <<>>, NEW mods, Laid(s, mods),
           NEW all, Kept(all), DOMAIN mods \subseteq DOMAIN all, NEW h, Sheet(h, DOMAIN all)
    PROVE  Laid(Append(Front(s), h), all)
<1> DEFINE t == Append(Front(s), h)
<1>2. /\ Len(s) \in Nat \ {0} /\ Len(t) = Len(s) /\ t[Len(s)] = h
      /\ \A k \in 1..Len(s) - 1 : t[k] = s[k]
  BY Replaced
<1> HIDE DEF t
<1>4. ASSUME NEW k \in 1..Len(t) PROVE Sheet(t[k], DOMAIN all)
  <2>1. CASE k = Len(s)
    BY <1>2, <2>1
  <2>2. CASE k # Len(s)
    <3>1. k \in 1..Len(s) - 1 /\ k \in 1..Len(s)
      BY <1>2, <2>2
    <3>2. Sheet(s[k], DOMAIN mods)
      BY <3>1 DEF Laid
    <3> QED
      BY <1>2, <3>1, <3>2, SheetGrows
  <2> QED
    BY <2>1, <2>2
<1> QED
  BY <1>4 DEF Laid, t

LEMMA LaidEnters ==
    ASSUME NEW s, Sequence(s), NEW mods, Laid(s, mods), NEW h, Sheet(h, DOMAIN mods)
    PROVE  Laid(Append(s, h), mods)
<1> DEFINE t == Append(s, h)
<1>1. /\ Len(s) \in Nat /\ Len(t) = Len(s) + 1 /\ t[Len(s) + 1] = h
      /\ \A k \in 1..Len(s) : t[k] = s[k]
  BY AppendIs
<1> HIDE DEF t
<1>2. \A k \in 1..Len(t) : k \in 1..Len(s) \/ k = Len(s) + 1
  BY <1>1
<1> QED
  BY <1>1, <1>2 DEF Laid, t

LEMMA Shortened ==
    ASSUME NEW s, Sequence(s), Len(s) > 1
    PROVE  /\ Sequence(Front(s)) /\ Front(s) # <<>> /\ Len(Front(s)) = Len(s) - 1
           /\ Last(Front(s)) = s[Len(s) - 1] /\ \A k \in 1..Len(s) - 1 : Front(s)[k] = s[k]
           /\ Len(s) \in Nat \ {0}
<1> DEFINE t == Front(s)
<1>1. Len(s) \in Nat \ {0} /\ s # <<>>
  BY DEF Sequence
<1>2. t \in Seq({s[k] : k \in DOMAIN s}) /\ Len(t) = Len(s) - 1 /\ \A k \in 1..Len(s) - 1 : t[k] = s[k]
  <2> DEFINE S == {s[k] : k \in DOMAIN s}
  <2>1. s \in Seq(S)
    BY DEF Sequence
  <2> HIDE DEF S
  <2> QED
    BY <1>1, <2>1, FrontIs DEF S
<1> HIDE DEF t
<1>3. t \in Seq({t[k] : k \in DOMAIN t}) /\ t # <<>>
  BY <1>1, <1>2
<1>4. Last(t) = s[Len(s) - 1]
  BY <1>1, <1>2 DEF Last
<1> QED
  BY <1>1, <1>2, <1>3, <1>4 DEF Sequence, t

LEMMA LaidLeaves ==
    ASSUME NEW s, Sequence(s), Len(s) > 1, NEW mods, Laid(s, mods)
    PROVE  Laid(Front(s), mods)
<1> DEFINE t == Front(s)
<1>1. Len(s) \in Nat \ {0} /\ Len(t) = Len(s) - 1 /\ \A k \in 1..Len(s) - 1 : t[k] = s[k]
  BY Shortened
<1> HIDE DEF t
<1>2. ASSUME NEW k \in 1..Len(t) PROVE Sheet(t[k], DOMAIN mods)
  <2>1. k \in 1..Len(s) /\ k \in 1..Len(s) - 1
    BY <1>1
  <2> QED
    BY <1>1, <2>1 DEF Laid
<1> QED
  BY <1>2 DEF Laid, t

(* The frame on top and what is below it. *)
LEMMA LaidTop ==
    ASSUME LoadingInv, status = "running", Laid(stack, modules)
    PROVE  /\ Sequence(stack) /\ stack # <<>> /\ Len(stack) \in Nat \ {0}
           /\ Top = stack[Len(stack)] /\ Below = Front(stack)
           /\ Sheet(Top, DOMAIN modules) /\ Kept(modules) /\ IsFrame(Top)
<1>1. Len(stack) \in 1..Len(stack)
  BY StackTop
<1> QED
  BY <1>1, StackTop, TopIs DEF Laid

(* In a file that is not the entry point, there is a frame below, which waits *)
(* at the statement that loads it.                                          *)
LEMMA LaidBelow ==
    ASSUME LoadingInv, status = "running", Laid(stack, modules), Top.by # "run"
    PROVE  /\ Sequence(Below) /\ Below # <<>> /\ Laid(Below, modules) /\ Len(stack) > 1
           /\ Last(Below) = stack[Len(stack) - 1] /\ Len(Below) = Len(stack) - 1
           /\ \A k \in 1..Len(stack) - 1 : Below[k] = stack[k]
           /\ Sheet(Last(Below), DOMAIN modules) /\ IsFrame(Last(Below))
           /\ Above(program, Last(Below), Top)
<1>1. Len(stack) \in Nat \ {0} /\ Sequence(stack) /\ Below = Front(stack) /\ Top = stack[Len(stack)]
  BY LaidTop
<1>2. stack[1].by = "run"
  BY StackTop DEF Lined, Nested
<1>3. Len(stack) > 1
  BY <1>1, <1>2
<1>4. /\ Sequence(Below) /\ Below # <<>> /\ Laid(Below, modules)
      /\ Last(Below) = stack[Len(stack) - 1] /\ Len(Below) = Len(stack) - 1
      /\ \A k \in 1..Len(stack) - 1 : Below[k] = stack[k]
  BY <1>1, <1>3, Shortened, LaidLeaves
<1>5. Len(stack) - 1 \in 1..Len(stack)
  BY <1>1, <1>3
<1> QED
  BY <1>3, <1>4, <1>5, Returns DEF Laid

(* Errors, and where the stylesheets are not put together yet. *)
Ongoing ==
    /\ status' # "done"
    /\ status' = "running" => Laid(stack', modules')

LEMMA LaidEmit ==
    ASSUME LoadingInv, Laid(stack, modules), VisitStyleRule \/ VisitLoudComment \/ VisitStaticImport
    PROVE  Ongoing
<1>1. /\ status = "running"
      /\ UNCHANGED <<program, active, modules, stores, status, output, asked, taken>>
  BY EmittingStays
<1>2. Sheet(Top, DOMAIN modules) /\ IsFrame(Top) /\ Kept(modules)
  BY <1>1, LaidTop
<1>3. ASSUME NEW kind \in {"import", "comment", "rule"}
      PROVE  Node(kind, Top) \in Nodes /\ Node(kind, Top).kind = kind
  BY <1>2 DEF Node, Nodes, Of, IsFrame
<1>4. PICK g : Sheet(g, DOMAIN modules) /\ stack' = Append(Below, Advance(g))
  <2>1. CASE VisitStyleRule
    <3>1. stack' = Append(Below, Advance(AddChild(Top, Node("rule", Top))))
      BY <2>1 DEF VisitStyleRule, Emitting
    <3> QED
      BY <1>2, <1>3, <3>1, NodeAdded
  <2>2. CASE VisitLoudComment
    <3>1. stack' = Append(Below, Advance(AddComment(Top, Node("comment", Top))))
      BY <2>2 DEF VisitLoudComment, Emitting
    <3> QED
      BY <1>2, <1>3, <3>1, NodeAdded
  <2>3. CASE VisitStaticImport
    <3>1. stack' = Append(Below, Advance(AddImport(Top, Node("import", Top))))
      BY <2>3 DEF VisitStaticImport, Emitting
    <3> QED
      BY <1>2, <1>3, <3>1, NodeAdded
  <2> QED
    BY <2>1, <2>2, <2>3
<1>5. Laid(Append(Below, Advance(g)), modules)
  BY <1>1, <1>2, <1>4, GoneOn, LaidTop, LaidGoesOn
<1> QED
  BY <1>1, <1>4, <1>5 DEF Ongoing

(* A variable changes nothing of the CSS, in its frame or in its module. *)
LikeFrame(f, g) ==
    LikeSheet(f, g) /\ "pc" \in DOMAIN g /\ g.file = f.file /\ g.pc = f.pc /\ g.by = f.by
LikeModules(mods, all) ==
    /\ DOMAIN all = DOMAIN mods
    /\ \A u \in DOMAIN mods :
          /\ DOMAIN all[u] = DOMAIN mods[u] /\ all[u].css = mods[u].css
          /\ all[u].comments = mods[u].comments /\ all[u].upstream = mods[u].upstream
          /\ all[u].hasCss = mods[u].hasCss

LEMMA KeptAlike ==
    ASSUME NEW mods, Kept(mods), NEW all, LikeModules(mods, all)
    PROVE  Kept(all)
<1>1. DOMAIN all = DOMAIN mods
  BY DEF LikeModules
<1>2. ASSUME NEW u \in DOMAIN mods PROVE Bound(all[u], DOMAIN all)
  <2>1. /\ DOMAIN all[u] = DOMAIN mods[u] /\ all[u].css = mods[u].css
        /\ all[u].comments = mods[u].comments /\ all[u].upstream = mods[u].upstream
    BY DEF LikeModules
  <2>2. Bound(mods[u], DOMAIN mods)
    BY DEF Kept
  <2> QED
    BY <1>1, <2>1, <2>2, Zenon DEF Bound
<1> QED
  BY <1>1, <1>2 DEF Kept

LEMMA DeclarationCss ==
    ASSUME LoadingInv, Laid(stack, modules), VisitVariableDeclaration
    PROVE  /\ LikeModules(modules, modules')
           /\ \E g : LikeFrame(Top, g) /\ stack' = Append(Below, Advance(g))
<1> DEFINE n == Stmt.name
           f == IF Stmt.guarded THEN [Top EXCEPT !.configurable = @ \cup {n}] ELSE Top
<1>1. status = "running"
  BY DeclarationStays
<1>2. SheetFields \subseteq DOMAIN Top /\ {"file", "pc", "by"} \subseteq DOMAIN Top /\ Kept(modules)
  BY <1>1, LaidTop DEF Sheet, SheetFields, IsFrame
<1>3. LikeFrame(Top, f) /\ DOMAIN f = DOMAIN Top
  BY <1>2 DEF LikeFrame, LikeSheet, SheetFields
<1>4. (\E v : SetVariable(f, n, v)) \/ (stack' = Append(Below, Advance(f)) /\ UNCHANGED modules)
  BY DEF VisitVariableDeclaration
<1> HIDE DEF f, n
<1>5. \/ UNCHANGED modules /\ stack' = Append(Below, Advance(f))
      \/ UNCHANGED modules /\ \E v : stack' = Append(Below, Advance([f EXCEPT !.vars = Put(@, n, v)]))
      \/ /\ \E v, o : modules' = [modules EXCEPT ![o[1]].vars[o[2]] = v]
         /\ stack' = Append(Below, Advance(f))
  BY <1>4, Zenon DEF SetVariable
<1>6. LikeModules(modules, modules)
  BY DEF LikeModules
<1>7. CASE UNCHANGED modules /\ stack' = Append(Below, Advance(f))
  BY <1>3, <1>6, <1>7
<1>8. CASE UNCHANGED modules /\ \E v : stack' = Append(Below, Advance([f EXCEPT !.vars = Put(@, n, v)]))
  <2>1. PICK v : stack' = Append(Below, Advance([f EXCEPT !.vars = Put(@, n, v)]))
    BY <1>8
  <2> DEFINE g == [f EXCEPT !.vars = Put(@, n, v)]
  <2>2. DOMAIN g = DOMAIN f /\ \A x \in DOMAIN f : x # "vars" => g[x] = f[x]
    OBVIOUS
  <2>3. LikeFrame(Top, g)
    BY <1>2, <1>3, <2>2 DEF LikeFrame, LikeSheet, SheetFields
  <2> QED
    BY <1>6, <1>8, <2>1, <2>3
<1>9. CASE /\ \E v, o : modules' = [modules EXCEPT ![o[1]].vars[o[2]] = v]
           /\ stack' = Append(Below, Advance(f))
  <2>1. PICK v, o : modules' = [modules EXCEPT ![o[1]].vars[o[2]] = v]
    BY <1>9
  <2>2. DOMAIN modules' = DOMAIN modules
    BY <2>1
  <2>3. ASSUME NEW u \in DOMAIN modules
        PROVE  /\ DOMAIN modules'[u] = DOMAIN modules[u] /\ modules'[u].css = modules[u].css
               /\ modules'[u].comments = modules[u].comments
               /\ modules'[u].upstream = modules[u].upstream
               /\ modules'[u].hasCss = modules[u].hasCss
    <3>1. {"css", "comments", "upstream", "hasCss"} \subseteq DOMAIN modules[u]
      BY <1>2 DEF Kept, Bound
    <3>2. CASE u = o[1]
      <4>1. modules'[u] = [modules[u] EXCEPT !.vars[o[2]] = v]
        BY <2>1, <3>2
      <4> QED
        BY <3>1, <4>1
    <3>3. CASE u # o[1]
      BY <2>1, <3>3
    <3> QED
      BY <3>2, <3>3
  <2> QED
    BY <1>3, <1>9, <2>2, <2>3 DEF LikeModules
<1> QED
  BY <1>5, <1>7, <1>8, <1>9

LEMMA LaidDeclare ==
    ASSUME LoadingInv, Laid(stack, modules), VisitVariableDeclaration
    PROVE  Ongoing
<1>1. status = "running" /\ UNCHANGED status
  BY DeclarationStays
<1>2. PICK g : LikeFrame(Top, g) /\ stack' = Append(Below, Advance(g))
  BY DeclarationCss
<1>3. LikeModules(modules, modules') /\ Kept(modules') /\ DOMAIN modules' = DOMAIN modules
  BY <1>1, DeclarationCss, KeptAlike, LaidTop DEF LikeModules
<1>4. Sheet(g, DOMAIN modules')
  BY <1>1, <1>2, <1>3, LaidTop, SheetAlike DEF LikeFrame
<1>5. Laid(Append(Below, Advance(g)), modules')
  BY <1>1, <1>3, <1>4, GoneOn, LaidTop, LaidGoesOn
<1> QED
  BY <1>1, <1>2, <1>5 DEF Ongoing

(* A load that ends in the frame it began in, or an error. *)
LEMMA AfterIs ==
    ASSUME NEW below, NEW f, NEW load, NEW heap, NEW mods, NEW first,
           AfterLoad(below, f, load, heap, mods, first),
           program[f.file][f.pc].op \in Loading, status = "running"
    PROVE  /\ UNCHANGED program
           /\ \/ /\ status' = "running"
                 /\ stack' = Append(below, Advance(Callback(f, program[f.file][f.pc], mods, first)))
              \/ status' \notin {"running", "done"}
BY ErrorIs

LEMMA FreshSheet ==
    ASSUME NEW url, NEW by, NEW conf, NEW load, NEW known
    PROVE  Sheet(Fresh(url, by, conf, load), known)
<1> DEFINE g == Fresh(url, by, conf, load)
<1>1. /\ SheetFields \subseteq DOMAIN g
      /\ g.root = <<>> /\ g.endOfImports = 0 /\ g.outOfOrder = <<>>
      /\ g.comments = <<>> /\ g.upstream = <<>>
  BY DEF Fresh, SheetFields
<1> HIDE DEF g
<1>2. /\ g.root \in Seq(Nodes) /\ Len(g.root) = 0 /\ g.outOfOrder \in Seq(Of({"import"}))
      /\ g.upstream \in Seq(known) /\ DOMAIN g.comments = {}
  BY <1>1
<1>3. Sheet(g, known)
  BY <1>1, <1>2 DEF Sheet, SheetFields, Commenting
<1> QED
  BY <1>3 DEF g

LEMMA LaidLoad ==
    ASSUME LoadingInv, Laid(stack, modules), NEW conf, NEW load, NEW heap,
           status = "running", Stmt.op \in Loading,
           LoadModule(Stmt.url, conf, load, heap)
    PROVE  Ongoing
<1>1. /\ Sequence(stack) /\ stack # <<>> /\ Below = Front(stack)
      /\ Sheet(Top, DOMAIN modules) /\ Kept(modules)
  BY LaidTop
<1>2. CASE Fail("loop") \/ Fail("already-loaded")
  BY <1>2 DEF Fail, Ongoing
<1>3. CASE /\ Stmt.url \in DOMAIN modules /\ UNCHANGED modules
           /\ AfterLoad(Below, Top, load, heap, modules, FALSE)
  <2>1. program[Top.file][Top.pc] = Stmt
    BY DEF Stmt
  <2>2. \/ /\ status' = "running"
           /\ stack' = Append(Below, Advance(Callback(Top, Stmt, modules, FALSE)))
        \/ status' \notin {"running", "done"}
    BY <1>3, <2>1, AfterIs
  <2>3. Sheet(Callback(Top, Stmt, modules, FALSE), DOMAIN modules)
    BY <1>1, <1>3, CallbackKeeps
  <2>4. Laid(Append(Below, Advance(Callback(Top, Stmt, modules, FALSE))), modules)
    BY <1>1, <2>3, GoneOn, LaidGoesOn
  <2> QED
    BY <1>3, <2>2, <2>4 DEF Ongoing
<1>4. CASE LoadFirst(Stmt.url, conf, load, heap)
  <2>1. /\ stack' = Append(stack, Fresh(Stmt.url, "load", conf, load))
        /\ UNCHANGED <<modules, status>>
    BY <1>4 DEF LoadFirst
  <2>2. Laid(Append(stack, Fresh(Stmt.url, "load", conf, load)), modules)
    BY <1>1, FreshSheet, LaidEnters
  <2> QED
    BY <2>1, <2>2 DEF Ongoing
<1> QED
  BY <1>2, <1>3, <1>4 DEF LoadModule, LoadedBefore

LEMMA LoadsIs ==
    ASSUME LoadingInv, VisitUseRule \/ LoadCss \/ VisitForwardRule
    PROVE  /\ status = "running" /\ Stmt.op \in Loading /\ IsStatement(Stmt)
           /\ VisitForwardRule => Stmt.op = "forward"
           /\ VisitUseRule => Stmt.op = "use"
           /\ LoadCss => Stmt.op = "loadcss"
           /\ \E conf, load, heap : LoadModule(Stmt.url, conf, load, heap)
<1>1. /\ status = "running" /\ Stmt.op \in Loading /\ IsStatement(Stmt)
      /\ VisitForwardRule => Stmt.op = "forward"
      /\ VisitUseRule => Stmt.op = "use"
      /\ LoadCss => Stmt.op = "loadcss"
  BY StmtIs DEF VisitUseRule, LoadCss, VisitForwardRule, Loading
<1>2. ASSUME NEW with, LoadWith(with)
      PROVE  \E conf, load, heap : LoadModule(Stmt.url, conf, load, heap)
  <2>1. CASE with = None
    BY <1>2, <2>1, Zenon DEF LoadWith
  <2>2. CASE with # None
    BY <1>2, <2>2, Zenon DEF LoadWith
  <2> QED
    BY <2>1, <2>2
<1>3. ASSUME VisitUseRule \/ LoadCss
      PROVE  \E conf, load, heap : LoadModule(Stmt.url, conf, load, heap)
  BY <1>2, <1>3 DEF VisitUseRule, LoadCss
<1>4. ASSUME VisitForwardRule
      PROVE  \E conf, load, heap : LoadModule(Stmt.url, conf, load, heap)
  <2>1. CASE Stmt.with = None
    BY <1>4, <2>1, Zenon DEF VisitForwardRule
  <2>2. CASE Stmt.with # None
    BY <1>4, <2>2, Zenon DEF VisitForwardRule
  <2> QED
    BY <2>1, <2>2
<1> QED
  BY <1>1, <1>3, <1>4

LEMMA LaidLoads ==
    ASSUME LoadingInv, Laid(stack, modules), VisitUseRule \/ LoadCss \/ VisitForwardRule
    PROVE  Ongoing
BY LoadsIs, LaidLoad

LEMMA LaidImport ==
    ASSUME LoadingInv, Laid(stack, modules), VisitDynamicImport
    PROVE  Ongoing
<1> DEFINE shared == [Top EXCEPT !.file = Stmt.url, !.pc = 1, !.by = "inject"]
           fresh  == Fresh(Stmt.url, "import", Top.conf, NoLoad)
           alone  == [fresh EXCEPT
                        !.vars = Top.vars, !.configurable = Top.configurable,
                        !.imported = Top.imported, !.comments = Top.comments]
           own    == [alone EXCEPT !.conf = NewConfiguration(stores, ImplicitValues(Top), FALSE)]
<1>1. status = "running"
  BY StmtIs DEF VisitDynamicImport
<1>2. Fail("loop") \/ (UNCHANGED <<modules, status>> /\ \E g \in {shared, alone, own} : stack' = Append(stack, g))
  BY DEF VisitDynamicImport
<1>3. Sheet(Top, DOMAIN modules) /\ SheetFields \subseteq DOMAIN Top /\ Sequence(stack)
  BY <1>1, LaidTop DEF Sheet, SheetFields
<1>4. Sheet(shared, DOMAIN modules)
  <2>1. LikeSheet(Top, shared)
    BY <1>3 DEF LikeSheet, SheetFields
  <2> QED
    BY <1>3, <2>1, SheetAlike
<1>5. ASSUME NEW g \in {alone, own} PROVE Sheet(g, DOMAIN modules)
  <2>1. Sheet(fresh, DOMAIN modules) /\ SheetFields \subseteq DOMAIN fresh
    BY FreshSheet DEF Sheet, SheetFields
  <2>2. /\ DOMAIN g = DOMAIN fresh /\ g.comments = Top.comments
        /\ g.root = fresh.root /\ g.endOfImports = fresh.endOfImports
        /\ g.outOfOrder = fresh.outOfOrder /\ g.upstream = fresh.upstream
    BY <1>5, <2>1 DEF Fresh
  <2>3. Commenting(Top.comments)
    BY <1>3 DEF Sheet
  <2> HIDE DEF fresh, alone, own
  <2> QED
    BY <2>1, <2>2, <2>3, Zenon DEF Sheet, SheetFields
<1> HIDE DEF shared, alone, own
<1>6. \A g \in {shared, alone, own} : Sheet(g, DOMAIN modules)
  BY <1>4, <1>5
<1>7. CASE Fail("loop")
  BY <1>7 DEF Fail, Ongoing
<1>8. CASE UNCHANGED <<modules, status>> /\ \E g \in {shared, alone, own} : stack' = Append(stack, g)
  <2>1. PICK g \in {shared, alone, own} : stack' = Append(stack, g)
    BY <1>8
  <2>2. Laid(Append(stack, g), modules)
    BY <1>3, <1>6, LaidEnters
  <2> QED
    BY <1>1, <1>8, <2>1, <2>2 DEF Ongoing
<1> QED
  BY <1>2, <1>7, <1>8

(* The module that a file becomes, and the frame below that goes on. *)
LEMMA LaidModule ==
    ASSUME LoadingInv, status = "running", Laid(stack, modules)
    PROVE  LET mods == Put(modules, Top.file, ToModule(modules, Top, Children(Top)))
           IN  Kept(mods) /\ DOMAIN mods = DOMAIN modules \cup {Top.file}
<1>1. Bound(ToModule(modules, Top, Children(Top)), DOMAIN modules) /\ Kept(modules)
  BY LaidTop, ModuleBound
<1> QED
  BY <1>1, KeptPut

LEMMA LaidFinishModule ==
    ASSUME LoadingInv, Laid(stack, modules), FinishModule
    PROVE  Ongoing
<1> DEFINE mods == Put(modules, Top.file, ToModule(modules, Top, Children(Top)))
           f    == Last(Below)
           s    == program[f.file][f.pc]
           h    == Callback(f, s, mods, TRUE)
<1>1. /\ status = "running" /\ Top.by = "load" /\ modules' = mods /\ s.op \in Loading
      /\ AfterLoad(Front(Below), f, Top.load, stores, mods, TRUE)
  BY FinishModuleStays
<1>2. Kept(mods) /\ DOMAIN mods = DOMAIN modules \cup {Top.file}
  BY <1>1, LaidModule
<1> HIDE DEF mods
<1>3. /\ Sequence(Below) /\ Below # <<>> /\ Laid(Below, modules) /\ Sheet(f, DOMAIN modules)
      /\ Above(program, f, Top)
  BY <1>1, LaidBelow
<1>4. s.url = Top.file
  BY <1>1, <1>3 DEF Above
<1>5. Sheet(f, DOMAIN mods)
  BY <1>2, <1>3, SheetGrows
<1> HIDE DEF f
<1>6. Sheet(h, DOMAIN mods)
  BY <1>1, <1>2, <1>4, <1>5, CallbackKeeps
<1>7. \/ status' = "running" /\ stack' = Append(Front(Below), Advance(h))
      \/ status' \notin {"running", "done"}
  BY <1>1, AfterIs
<1> HIDE DEF h
<1>8. Laid(Append(Front(Below), Advance(h)), mods)
  BY <1>2, <1>3, <1>6, GoneOn, LaidGoesOn
<1> QED
  BY <1>1, <1>7, <1>8 DEF Ongoing

LEMMA LaidFinishInject ==
    ASSUME LoadingInv, Laid(stack, modules), FinishInject
    PROVE  Ongoing
<1> DEFINE f == Last(Below)
           g == [Top EXCEPT !.file = f.file, !.pc = f.pc, !.by = f.by, !.load = f.load]
<1>1. /\ status = "running" /\ Top.by # "run"
      /\ stack' = Append(Front(Below), Advance(g)) /\ UNCHANGED <<status, modules>>
  BY DEF FinishInject, AtEnd
<1>2. Sheet(Top, DOMAIN modules) /\ SheetFields \subseteq DOMAIN Top /\ Kept(modules)
  BY <1>1, LaidTop DEF Sheet, SheetFields
<1>3. LikeSheet(Top, g)
  BY <1>2 DEF LikeSheet, SheetFields
<1> HIDE DEF g
<1>4. Laid(Append(Front(Below), Advance(g)), modules)
  BY <1>1, <1>2, <1>3, SheetAlike, GoneOn, LaidBelow, LaidGoesOn
<1> QED
  BY <1>1, <1>4 DEF Ongoing

LEMMA LaidFinishImport ==
    ASSUME LoadingInv, Laid(stack, modules), FinishImport
    PROVE  Ongoing
<1> DEFINE dummy == ToDummyModule(modules, Top)
           b     == Last(Below)
           f     == [b EXCEPT !.vars = Top.vars, !.configurable = Top.configurable,
                              !.imported = Top.imported, !.comments = Top.comments]
           g     == ImportForwards(f, Top.forwarded)
           all   == Put(modules, None, dummy)
           h     == IF dummy.hasCss THEN VisitCss(g, CombineCss(all, None)) ELSE g
           i     == VisitImportedCss(h, Children(Top))
           known == DOMAIN modules
<1>1. /\ status = "running" /\ Top.by # "run"
      /\ stack' = Append(Front(Below), Advance(i)) /\ UNCHANGED <<status, modules>>
  BY DEF FinishImport, AtEnd
<1>2. /\ Sheet(Top, known) /\ Kept(modules) /\ Sheet(b, known) /\ Laid(Below, modules)
      /\ Sequence(Below) /\ Below # <<>>
  BY <1>1, LaidTop, LaidBelow
<1> HIDE DEF b, known
<1>3. Sheet(f, known) /\ SheetFields \subseteq DOMAIN f
  <2>1. SheetFields \subseteq DOMAIN b /\ Commenting(Top.comments)
    BY <1>2 DEF Sheet, SheetFields
  <2>2. /\ DOMAIN f = DOMAIN b /\ f.comments = Top.comments
        /\ f.root = b.root /\ f.endOfImports = b.endOfImports
        /\ f.outOfOrder = b.outOfOrder /\ f.upstream = b.upstream
    BY <2>1 DEF SheetFields
  <2> HIDE DEF f
  <2> QED
    BY <1>2, <2>1, <2>2, Zenon DEF Sheet, SheetFields
<1> HIDE DEF f
<1>4. Sheet(g, known)
  <2>1. LikeSheet(f, g)
    BY <1>3 DEF LikeSheet, SheetFields, ImportForwards
  <2> QED
    BY <1>3, <2>1, SheetAlike
<1> HIDE DEF g
<1>5. Sheet(h, known)
  <2>1. Bound(dummy, DOMAIN modules)
    BY <1>2, ModuleBound DEF known
  <2> HIDE DEF dummy
  <2>2. Kept(all) /\ DOMAIN all = DOMAIN modules \cup {None}
    BY <1>2, <2>1, KeptPut
  <2> HIDE DEF all
  <2>3. CombineCss(all, None) \in Seq(Nodes)
    BY <2>2, CombinedIs
  <2>4. Sheet(VisitCss(g, CombineCss(all, None)), known)
    BY <1>4, <2>3, CssVisited
  <2> QED
    BY <1>4, <2>4
<1> HIDE DEF h
<1>6. Sheet(i, known)
  BY <1>2, <1>5, ChildrenInOrder, CssVisited
<1> HIDE DEF i
<1>7. Laid(Append(Front(Below), Advance(i)), modules)
  BY <1>2, <1>6, GoneOn, LaidGoesOn DEF known
<1> QED
  BY <1>1, <1>7 DEF Ongoing

(* The entry point ends: no @import of the combined CSS is after a rule. *)
LEMMA LaidFinishRun ==
    ASSUME LoadingInv, Laid(stack, modules), FinishRun
    PROVE  /\ status = "running" /\ status' = "done" /\ UNCHANGED program
           /\ modules' = Put(modules, Entry, ToModule(modules, Top, Children(Top)))
           /\ output' = CombineCss(modules', Entry)
           /\ Kept(modules') /\ Entry \in DOMAIN modules'
           /\ output' \in Seq(Nodes) /\ ImportsFirst(output')
<1>1. /\ status = "running" /\ status' = "done" /\ UNCHANGED program
      /\ modules' = Put(modules, Entry, ToModule(modules, Top, Children(Top)))
      /\ output' = CombineCss(modules', Entry)
  BY DEF FinishRun, AtEnd
<1>2. Bound(ToModule(modules, Top, Children(Top)), DOMAIN modules) /\ Kept(modules)
  BY <1>1, LaidTop, ModuleBound
<1>3. Kept(modules') /\ DOMAIN modules' = DOMAIN modules \cup {Entry}
  BY <1>1, <1>2, KeptPut
<1>4. output' \in Seq(Nodes) /\ ImportsFirst(output')
  BY <1>1, <1>3, CombinedIs
<1> QED
  BY <1>1, <1>3, <1>4

LEMMA LaidInit == Init => Laid(stack, modules)
<1> SUFFICES ASSUME Init PROVE Laid(stack, modules)
  OBVIOUS
<1>1. stack = <<Fresh(Entry, "run", EmptyConfiguration, NoLoad)>> /\ modules = <<>>
  BY DEF Init
<1>2. DOMAIN modules = {} /\ Len(stack) = 1 /\ stack[1] = Fresh(Entry, "run", EmptyConfiguration, NoLoad)
  BY <1>1
<1>3. Kept(modules)
  BY <1>2, FS_EmptySet DEF Kept
<1> QED
  BY <1>2, <1>3, FreshSheet DEF Laid

-----------------------------------------------------------------------------
(* Where every file is loaded as a module: the rules of a frame.            *)

GoneBy(prog, f) == {p \in RulesOf(prog, f.file) : p < f.pc}

LEMMA RuleAppended ==
    ASSUME NEW s \in Seq(Nodes), NEW m, Own(s, m), NEW R, Each(s, m, R),
           NEW node, node.kind = "rule", node.file = m, node.at \notin R
    PROVE  Own(Append(s, node), m) /\ Each(Append(s, node), m, R \cup {node.at})
<1> DEFINE t == Append(s, node)
           n == Len(s)
<1>1. /\ n \in Nat /\ Len(t) = n + 1 /\ t[n + 1] = node
      /\ \A k \in 1..n : t[k] = s[k]
  OBVIOUS
<1> HIDE DEF t
<1>2. \A k \in 1..Len(t) : k \in 1..n \/ k = n + 1
  BY <1>1
<1>3. Own(t, m)
  BY <1>1, <1>2 DEF Own
<1>4. ASSUME NEW k PROVE k \in RulesIn(t, m) <=> k \in RulesIn(s, m) \/ k = n + 1
  <2>1. k \in 1..Len(t) <=> k \in 1..n \/ k = n + 1
    BY <1>1
  <2> QED
    BY <1>1, <2>1 DEF RulesIn
<1>5. \A k \in RulesIn(s, m) : t[k] = s[k] /\ s[k].at \in R
  BY <1>1 DEF RulesIn, Each
<1>6. {t[k].at : k \in RulesIn(t, m)} = R \cup {node.at}
  <2>1. ASSUME NEW k \in RulesIn(t, m) PROVE t[k].at \in R \cup {node.at}
    BY <1>1, <1>4, <1>5
  <2>2. ASSUME NEW p \in R PROVE p \in {t[k].at : k \in RulesIn(t, m)}
    <3>1. PICK k \in RulesIn(s, m) : s[k].at = p
      BY DEF Each
    <3> QED
      BY <1>4, <1>5, <3>1
  <2>3. node.at \in {t[k].at : k \in RulesIn(t, m)}
    BY <1>1, <1>4
  <2> QED
    BY <2>1, <2>2, <2>3
<1>7. ASSUME NEW j \in RulesIn(t, m), NEW k \in RulesIn(t, m), t[j].at = t[k].at PROVE j = k
  <2>1. CASE j \in RulesIn(s, m) /\ k \in RulesIn(s, m)
    BY <1>5, <1>7, <2>1 DEF Each
  <2>2. CASE j = n + 1 \/ k = n + 1
    BY <1>1, <1>4, <1>5, <1>7, <2>2
  <2> QED
    BY <1>4, <2>1, <2>2
<1> QED
  BY <1>3, <1>6, <1>7 DEF Each, t

LEMMA OtherAppended ==
    ASSUME NEW s \in Seq(Nodes), NEW m, Own(s, m), NEW R, Each(s, m, R), NEW node, node.kind # "rule"
    PROVE  Own(Append(s, node), m) /\ Each(Append(s, node), m, R)
<1> DEFINE t == Append(s, node)
           n == Len(s)
<1>1. /\ n \in Nat /\ Len(t) = n + 1 /\ t[n + 1] = node
      /\ \A k \in 1..n : t[k] = s[k]
  OBVIOUS
<1> HIDE DEF t
<1>2. \A k : k \in 1..Len(t) <=> k \in 1..n \/ k = n + 1
  BY <1>1
<1>3. Own(t, m)
  BY <1>1, <1>2 DEF Own
<1>4. RulesIn(t, m) = RulesIn(s, m)
  <2>1. ASSUME NEW k PROVE k \in RulesIn(t, m) <=> k \in RulesIn(s, m)
    BY <1>1, <1>2 DEF RulesIn
  <2> QED
    BY <2>1
<1>5. \A k \in RulesIn(s, m) : t[k] = s[k]
  BY <1>1 DEF RulesIn
<1> QED
  BY <1>3, <1>4, <1>5 DEF Each, t

LEMMA GoneByNext ==
    ASSUME NEW prog, NEW f, IsFrame(f), Len(prog[f.file]) \in Nat, f.pc <= Len(prog[f.file])
    PROVE  IF prog[f.file][f.pc].op = "rule"
           THEN GoneBy(prog, Advance(f)) = GoneBy(prog, f) \cup {f.pc} /\ f.pc \notin GoneBy(prog, f)
           ELSE GoneBy(prog, Advance(f)) = GoneBy(prog, f)
<1> DEFINE g == Advance(f)
<1>1. g.file = f.file /\ g.pc = f.pc + 1 /\ f.pc \in Nat \ {0}
  BY DEF Advance, IsFrame
<1> HIDE DEF g
<1>2. RulesOf(prog, f.file) \subseteq Nat
  BY DEF RulesOf
<1>3. f.pc \in RulesOf(prog, f.file) <=> prog[f.file][f.pc].op = "rule"
  BY <1>1 DEF RulesOf
<1>4. ASSUME NEW p
      PROVE  p \in GoneBy(prog, g) <=> p \in GoneBy(prog, f) \/ (p = f.pc /\ p \in RulesOf(prog, f.file))
  BY <1>1, <1>2 DEF GoneBy
<1>5. f.pc \notin GoneBy(prog, f)
  BY <1>1 DEF GoneBy
<1>6. CASE prog[f.file][f.pc].op = "rule"
  <2>1. GoneBy(prog, g) = GoneBy(prog, f) \cup {f.pc}
    BY <1>3, <1>4, <1>6
  <2> QED
    BY <1>5, <1>6, <2>1 DEF g
<1>7. CASE prog[f.file][f.pc].op # "rule"
  <2>1. GoneBy(prog, g) = GoneBy(prog, f)
    BY <1>3, <1>4, <1>7
  <2> QED
    BY <1>7, <2>1 DEF g
<1> QED
  BY <1>6, <1>7

(* Written, by what it is about. *)
LEMMA WrittenIs ==
    ASSUME NEW prog, NEW f
    PROVE  Written(prog, f) <=> Own(f.root, f.file) /\ Each(f.root, f.file, GoneBy(prog, f))
BY DEF Written, GoneBy

(* A statement that is no rule, and leaves the root without its rules only   *)
(* where it has none. *)
LEMMA WrittenOn ==
    ASSUME NEW prog, NEW f, IsFrame(f), Len(prog[f.file]) \in Nat, f.pc <= Len(prog[f.file]),
           prog[f.file][f.pc].op # "rule",
           NEW g, {"root", "pc"} \subseteq DOMAIN g, g.file = f.file, g.pc = f.pc,
           Own(g.root, f.file), Each(g.root, f.file, GoneBy(prog, f))
    PROVE  Written(prog, Advance(g))
<1> DEFINE h == Advance(g)
<1>1. h.root = g.root /\ h.file = f.file /\ h.pc = f.pc + 1
  BY DEF Advance, IsFrame
<1>2. GoneBy(prog, Advance(f)) = GoneBy(prog, f)
  BY GoneByNext
<1>3. GoneBy(prog, h) = GoneBy(prog, Advance(f))
  <2>1. Advance(f).file = f.file /\ Advance(f).pc = f.pc + 1
    BY DEF Advance, IsFrame
  <2> QED
    BY <1>1, <2>1 DEF GoneBy
<1> HIDE DEF h
<1>4. Written(prog, h)
  BY <1>1, <1>2, <1>3, WrittenIs
<1> QED
  BY <1>4 DEF h

(* The rules of a program: none before a load as a module. *)
LEMMA NoneBefore ==
    ASSUME NEW prog \in Programs, NEW f, IsFrame(f), f.pc <= Len(prog[f.file]),
           prog[f.file][f.pc].op \in {"use", "forward"}
    PROVE  GoneBy(prog, f) = {} /\ Own(<<>>, f.file) /\ Each(<<>>, f.file, {})
<1>1. f.file \in Files /\ f.pc \in Nat \ {0} /\ Len(prog[f.file]) \in Nat
  BY ProgramsAssumption DEF IsFrame
<1>2. ASSUME NEW p \in GoneBy(prog, f) PROVE FALSE
  <2>1. p \in 1..Len(prog[f.file]) /\ prog[f.file][p].op = "rule" /\ p < f.pc
    BY DEF GoneBy, RulesOf
  <2>2. f.pc \in 1..Len(prog[f.file])
    BY <1>1
  <2>3. prog[f.file][p].op \in {"use", "forward", "declare", "comment"}
    BY <1>1, <2>1, <2>2, UseFirst
  <2> QED
    BY <2>1, <2>3
<1>3. Len(<<>>) = 0
  OBVIOUS
<1>4. Own(<<>>, f.file) /\ RulesIn(<<>>, f.file) = {}
  BY <1>3 DEF Own, RulesIn
<1>5. Each(<<>>, f.file, {})
  BY <1>4 DEF Each
<1> QED
  BY <1>2, <1>4, <1>5

LEMMA FreshWritten ==
    ASSUME NEW prog, NEW url, Len(prog[url]) \in Nat, NEW by, NEW conf, NEW load
    PROVE  Written(prog, Fresh(url, by, conf, load))
<1> DEFINE g == Fresh(url, by, conf, load)
<1>1. g.file = url /\ g.pc = 1 /\ g.root = <<>>
  BY DEF Fresh
<1> HIDE DEF g
<1>2. GoneBy(prog, g) = {}
  BY <1>1 DEF GoneBy, RulesOf
<1>3. Len(g.root) = 0
  BY <1>1
<1>4. Own(g.root, g.file) /\ RulesIn(g.root, g.file) = {}
  BY <1>3 DEF Own, RulesIn
<1>5. Each(g.root, g.file, {})
  BY <1>4 DEF Each
<1>6. Written(prog, g)
  BY <1>2, <1>4, <1>5, WrittenIs
<1> QED
  BY <1>6 DEF g

(* The stack, and what is upstream of it.                                   *)

LEMMA FramesGoOn ==
    ASSUME NEW prog, NEW s, Sequence(s), s # <<>>, NEW mods, Frames(prog, s, mods),
           NEW all, LikeModules(mods, all),
           NEW h, h.file = s[Len(s)].file, h.by = s[Len(s)].by, Written(prog, h),
           Upstream(s[Len(s)]) \subseteq Upstream(h)
    PROVE  Frames(prog, Append(Front(s), h), all)
<1> DEFINE n == Len(s)
           t == Append(Front(s), h)
<1>1. n \in Nat \ {0} /\ Len(t) = n /\ t[n] = h /\ \A k \in 1..n - 1 : t[k] = s[k]
  BY Replaced
<1> HIDE DEF t
<1>2. /\ \A k \in 1..n : k \in 1..n - 1 \/ k = n
      /\ 1 \in 1..n
  BY <1>1
<1>3. /\ DOMAIN all = DOMAIN mods
      /\ \A u \in DOMAIN mods : Upstream(all[u]) = Upstream(mods[u])
  BY DEF LikeModules, Upstream
<1>4. \A k \in 1..n : /\ t[k].file = s[k].file /\ t[k].by = s[k].by
                      /\ Upstream(s[k]) \subseteq Upstream(t[k])
  BY <1>1, <1>2
<1>5. t[1].file = Entry /\ \A k \in 2..Len(t) : t[k].by = "load"
  <2>1. \A k \in 2..n : k \in 1..n
    BY <1>1
  <2> QED
    BY <1>1, <1>2, <1>4, <2>1 DEF Frames
<1>6. \A k \in 1..Len(t) : t[k].file \notin DOMAIN all /\ Written(prog, t[k])
  BY <1>1, <1>2, <1>3, <1>4 DEF Frames
<1>7. \A x \in DOMAIN all : \/ \E u \in DOMAIN all : x \in Upstream(all[u])
                            \/ \E k \in 1..Len(t) : x \in Upstream(t[k])
  BY <1>1, <1>3, <1>4 DEF Frames
<1>8. \A k \in 1..Len(t) - 1 : t[k].pc <= Len(prog[t[k].file])
  BY <1>1 DEF Frames
<1> QED
  BY <1>5, <1>6, <1>7, <1>8 DEF Frames, t

LEMMA FramesEnter ==
    ASSUME NEW prog, NEW s, Sequence(s), s # <<>>, NEW mods, Frames(prog, s, mods),
           s[Len(s)].pc <= Len(prog[s[Len(s)].file]),
           NEW h, h.file \notin DOMAIN mods, h.by = "load", Written(prog, h)
    PROVE  Frames(prog, Append(s, h), mods)
<1> DEFINE n == Len(s)
           t == Append(s, h)
<1>1. n \in Nat /\ Len(t) = n + 1 /\ t[n + 1] = h /\ \A k \in 1..n : t[k] = s[k]
  BY AppendIs
<1>2. n # 0
  BY DEF Sequence
<1> HIDE DEF t
<1>3. /\ \A k \in 1..Len(t) : k \in 1..n \/ k = n + 1
      /\ 1 \in 1..n /\ \A k \in 2..Len(t) : k \in 2..n \/ k = n + 1
      /\ \A k \in 2..n : k \in 1..n
      /\ 1..n \subseteq 1..Len(t)
  BY <1>1, <1>2
<1>4. t[1].file = Entry /\ \A k \in 2..Len(t) : t[k].by = "load"
  BY <1>1, <1>3 DEF Frames
<1>5. \A k \in 1..Len(t) : t[k].file \notin DOMAIN mods /\ Written(prog, t[k])
  BY <1>1, <1>3 DEF Frames
<1>6. \A x \in DOMAIN mods : \/ \E u \in DOMAIN mods : x \in Upstream(mods[u])
                             \/ \E k \in 1..Len(t) : x \in Upstream(t[k])
  <2>1. ASSUME NEW x \in DOMAIN mods, NEW k \in 1..n, x \in Upstream(s[k])
        PROVE  \E i \in 1..Len(t) : x \in Upstream(t[i])
    BY <1>1, <1>3, <2>1
  <2> QED
    BY <2>1 DEF Frames
<1>7. \A k \in 1..Len(t) - 1 : t[k].pc <= Len(prog[t[k].file])
  <2>1. \A k \in 1..Len(t) - 1 : k \in 1..n /\ (k \in 1..n - 1 \/ k = n)
    BY <1>1, <1>2
  <2> QED
    BY <1>1, <2>1 DEF Frames
<1> QED
  BY <1>4, <1>5, <1>6, <1>7 DEF Frames, t

(* The module of the file on top is what the frame below now depends on. *)
LEMMA FramesReturn ==
    ASSUME NEW prog, NEW s, Sequence(s), Len(s) > 1, NEW mods, Frames(prog, s, mods),
           NEW mod, Upstream(mod) = Upstream(s[Len(s)]),
           \A k \in 1..Len(s) - 1 : s[k].file # s[Len(s)].file,
           NEW h, h.file = s[Len(s) - 1].file, h.by = s[Len(s) - 1].by, Written(prog, h),
           Upstream(h) = Upstream(s[Len(s) - 1]) \cup {s[Len(s)].file}
    PROVE  Frames(prog, Append(Front(Front(s)), h), Put(mods, s[Len(s)].file, mod))
<1> DEFINE n   == Len(s) - 1
           f   == s[Len(s)].file
           all == Put(mods, f, mod)
           b   == Front(s)
           t   == Append(Front(b), h)
<1>1. n \in Nat \ {0} /\ Len(s) = n + 1 /\ Len(s) - 1 = n
  BY DEF Sequence
<1> HIDE DEF n
<1>3. /\ Sequence(b) /\ b # <<>> /\ Len(b) = n /\ \A k \in 1..n : b[k] = s[k]
  BY <1>1, Shortened
<1> HIDE DEF b
<1>4. Len(t) = n /\ t[n] = h /\ \A k \in 1..n - 1 : t[k] = b[k]
  <2>1. Len(t) = Len(b) /\ t[Len(b)] = h /\ \A k \in 1..Len(b) - 1 : t[k] = b[k]
    BY <1>3, Replaced
  <2> HIDE DEF t
  <2> QED
    BY <1>3, <2>1
<1> HIDE DEF t
<1>5. /\ DOMAIN all = DOMAIN mods \cup {f} /\ all[f] = mod
      /\ \A u \in DOMAIN mods : u # f => all[u] = mods[u]
  BY DEF Put
<1> HIDE DEF all
<1>6. /\ \A k \in 1..n : k \in 1..n - 1 \/ k = n
      /\ \A k \in 1..Len(s) : k \in 1..n \/ k = Len(s)
      /\ 1 \in 1..n /\ n \in 1..n /\ Len(s) \in 1..Len(s) /\ 1..n \subseteq 1..Len(s)
      /\ \A k \in 2..n : k \in 2..Len(s) /\ k \in 1..n
  BY <1>1
<1>7. f \notin DOMAIN mods
  BY <1>6 DEF Frames
<1>8. ASSUME NEW k \in 1..n
      PROVE  /\ t[k].file = s[k].file /\ t[k].by = s[k].by /\ Written(prog, t[k])
             /\ Upstream(s[k]) \subseteq Upstream(t[k])
  <2>1. Written(prog, s[k])
    BY <1>6 DEF Frames
  <2>2. CASE k \in 1..n - 1
    <3>1. t[k] = s[k]
      BY <1>3, <1>4, <2>2
    <3> QED
      BY <2>1, <3>1
  <2>3. CASE k = n
    <3>1. t[k] = h /\ s[k] = s[Len(s) - 1]
      BY <1>1, <1>4, <2>3
    <3> QED
      BY <3>1
  <2> QED
    BY <1>6, <2>2, <2>3
<1>9. t[1].file = Entry /\ \A k \in 2..Len(t) : t[k].by = "load"
  BY <1>4, <1>6, <1>8 DEF Frames
<1>10. \A k \in 1..Len(t) : t[k].file \notin DOMAIN all /\ Written(prog, t[k])
  BY <1>4, <1>5, <1>6, <1>8 DEF Frames
<1>11. ASSUME NEW x \in DOMAIN all
       PROVE  \/ \E u \in DOMAIN all : x \in Upstream(all[u])
              \/ \E k \in 1..Len(t) : x \in Upstream(t[k])
  <2>1. CASE x = f
    BY <1>4, <1>6, <2>1
  <2>2. CASE x # f
    <3>1. x \in DOMAIN mods
      BY <1>5, <2>2
    <3>2. CASE \E u \in DOMAIN mods : x \in Upstream(mods[u])
      BY <1>5, <1>7, <3>2
    <3>3. CASE \E k \in 1..Len(s) : x \in Upstream(s[k])
      <4>1. PICK k \in 1..Len(s) : x \in Upstream(s[k])
        BY <3>3
      <4>2. CASE k \in 1..n
        BY <1>4, <1>8, <4>1, <4>2
      <4>3. CASE k = Len(s)
        BY <1>5, <4>1, <4>3
      <4> QED
        BY <1>6, <4>2, <4>3
    <3> QED
      BY <3>1, <3>2, <3>3 DEF Frames
  <2> QED
    BY <2>1, <2>2
<1>12. \A k \in 1..Len(t) - 1 : t[k].pc <= Len(prog[t[k].file])
  <2>1. \A k \in 1..n - 1 : k \in 1..n /\ k \in 1..Len(s) - 1
    BY <1>1
  <2>2. \A k \in 1..n - 1 : t[k] = s[k]
    BY <1>3, <1>4, <2>1
  <2> QED
    BY <1>4, <2>1, <2>2 DEF Frames
<1> QED
  BY <1>9, <1>10, <1>11, <1>12 DEF Frames, t, all, b

(* The modules: one more, of a higher rank than all there are. *)
LEMMA ModulesAlike ==
    ASSUME NEW prog, NEW mods, Kept(mods), Modules(prog, mods), NEW all, LikeModules(mods, all)
    PROVE  Modules(prog, all)
<1>1. /\ DOMAIN all = DOMAIN mods
      /\ \A u \in DOMAIN mods :
            /\ all[u].css = mods[u].css /\ all[u].hasCss = mods[u].hasCss
            /\ Upstream(all[u]) = Upstream(mods[u]) /\ Upstream(mods[u]) \subseteq DOMAIN mods
  BY UpstreamIs DEF LikeModules, Upstream
<1>2. \A u \in DOMAIN mods : Whole(prog, all, u)
  <2>1. ASSUME NEW u \in DOMAIN mods PROVE Whole(prog, all, u)
    <3>1. Whole(prog, mods, u)
      BY DEF Modules
    <3> QED
      BY <1>1, <3>1 DEF Whole
  <2> QED
    BY <2>1
<1>3. PICK n \in Nat : \E r \in [DOMAIN mods -> 0..n] : Ranked(mods, n, r)
  BY DEF Modules
<1>4. PICK r \in [DOMAIN mods -> 0..n] : Ranked(mods, n, r)
  BY <1>3
<1>5. Ranked(all, n, r)
  BY <1>1, <1>4 DEF Ranked
<1> QED
  BY <1>1, <1>2, <1>4, <1>5 DEF Modules

LEMMA ModuleWhole ==
    ASSUME NEW prog, NEW mods, Kept(mods), NEW f, Sheet(f, DOMAIN mods), IsFrame(f),
           Written(prog, f), Len(prog[f.file]) \in Nat, f.pc > Len(prog[f.file]),
           f.file \notin DOMAIN mods
    PROVE  LET mod == ToModule(mods, f, Children(f))
           IN  /\ Whole(prog, Put(mods, f.file, mod), f.file)
               /\ Upstream(mod) = Upstream(f) /\ Upstream(mod) \subseteq DOMAIN mods
<1> DEFINE c   == Children(f)
           mod == ToModule(mods, f, c)
           all == Put(mods, f.file, mod)
           m   == f.file
           n   == f.endOfImports
           a   == SubSeq(f.root, 1, n) \o f.outOfOrder
           b   == SubSeq(f.root, n + 1, Len(f.root))
           R   == RulesOf(prog, m)
<1>1. GoneBy(prog, f) = R
  BY DEF GoneBy, RulesOf, IsFrame
<1>2. Own(f.root, m) /\ Each(f.root, m, R)
  BY <1>1, WrittenIs
<1>3. /\ n \in 0..Len(f.root) /\ Len(f.root) \in Nat
      /\ a \in Seq(Opening) /\ b \in Seq(Closing) /\ c = a \o b
  BY ChildrenAre
<1>4. Own(b, m) /\ Each(b, m, R)
  <2>1. f.root \in Seq(Nodes) /\ \A i \in 1..n : f.root[i].kind # "rule"
    BY DEF Sheet
  <2> HIDE DEF R, n
  <2> QED
    BY <1>2, <1>3, <2>1, RulesAfter
<1> HIDE DEF R, n, a, b, c
<1>5. a \in Seq(Nodes) /\ b \in Seq(Nodes) /\ \A x : RulesIn(a, x) = {}
  BY <1>3, Kinds, NoRules
<1>6. Joined(a, b, c)
  BY <1>3, <1>5, ConcatJoins
<1>7. Each(c, m, R)
  BY <1>4, <1>5, <1>6, EachSecond
<1>8. Own(c, m)
  <2>1. \A k \in 1..Len(a) : a[k].kind # "rule"
    <3>1. \A k \in 1..Len(a) : a[k] \in Opening
      BY <1>3
    <3> QED
      BY <3>1, Kinds
  <2>2. ASSUME NEW k \in 1..Len(c), c[k].kind = "rule" PROVE c[k].file = m
    <3>1. CASE k \in 1..Len(a)
      BY <1>6, <2>1, <2>2, <3>1, Zenon DEF Joined
    <3>2. CASE k - Len(a) \in 1..Len(b) /\ c[k] = b[k - Len(a)]
      BY <1>4, <2>2, <3>2 DEF Own
    <3> QED
      BY <1>6, <3>1, <3>2, Zenon DEF Joined
  <2> QED
    BY <2>2 DEF Own
<1>9. /\ mod.css = c /\ mod.upstream = f.upstream
      /\ mod.hasCss = ContainsCss(mods, f, c)
  BY DEF ToModule
<1>10. Upstream(mod) = Upstream(f) /\ Upstream(mod) \subseteq DOMAIN mods
  BY <1>9 DEF Upstream, Sheet
<1> HIDE DEF mod
<1>11. all[m] = mod /\ \A x \in DOMAIN mods : all[x] = mods[x]
  BY DEF Put
<1> HIDE DEF all
<1>12. ASSUME NEW x \in Upstream(mod), all[x].hasCss PROVE mod.hasCss
  <2>1. mods[x].hasCss
    BY <1>10, <1>11, <1>12
  <2>2. PICK k \in 1..Len(f.upstream) : f.upstream[k] = x
    BY <1>9 DEF Upstream
  <2> QED
    BY <1>9, <2>1, <2>2 DEF ContainsCss
<1>13. c # <<>> => mod.hasCss
  BY <1>9 DEF ContainsCss
<1>14. Whole(prog, all, m)
  BY <1>7, <1>8, <1>9, <1>11, <1>12, <1>13 DEF Whole, R
<1> QED
  BY <1>10, <1>14 DEF all, mod, m, c

LEMMA ModulesPut ==
    ASSUME NEW prog, NEW mods, Kept(mods), Modules(prog, mods), NEW f, Sheet(f, DOMAIN mods),
           IsFrame(f), Written(prog, f), Len(prog[f.file]) \in Nat, f.pc > Len(prog[f.file]),
           f.file \notin DOMAIN mods
    PROVE  Modules(prog, Put(mods, f.file, ToModule(mods, f, Children(f))))
<1> DEFINE mod == ToModule(mods, f, Children(f))
           all == Put(mods, f.file, mod)
           m   == f.file
<1>1. /\ Whole(prog, all, m) /\ Upstream(mod) \subseteq DOMAIN mods
      /\ \A u \in DOMAIN mods : Upstream(mods[u]) \subseteq DOMAIN mods
  BY ModuleWhole, UpstreamIs
<1> HIDE DEF mod
<1>2. /\ DOMAIN all = DOMAIN mods \cup {m} /\ all[m] = mod
      /\ \A x \in DOMAIN mods : all[x] = mods[x]
  BY DEF Put
<1> HIDE DEF all
<1>3. ASSUME NEW u \in DOMAIN mods PROVE Whole(prog, all, u)
  <2>1. Whole(prog, mods, u)
    BY DEF Modules
  <2> QED
    BY <1>1, <1>2, <2>1 DEF Whole
<1>4. PICK n \in Nat : \E r \in [DOMAIN mods -> 0..n] : Ranked(mods, n, r)
  BY DEF Modules
<1>5. PICK r \in [DOMAIN mods -> 0..n] : Ranked(mods, n, r)
  BY <1>4
<1> DEFINE q == [u \in DOMAIN all |-> IF u = m THEN n ELSE r[u]]
<1>6. q[m] = n /\ \A u \in DOMAIN mods : q[u] = r[u] /\ r[u] \in 0..n /\ r[u] < n
  BY <1>2, <1>5 DEF Ranked
<1>7. q \in [DOMAIN all -> 0..n + 1] /\ \A u \in DOMAIN all : q[u] < n + 1
  BY <1>2, <1>6
<1> HIDE DEF q
<1>8. ASSUME NEW u \in DOMAIN all, NEW x \in Upstream(all[u]) PROVE q[x] < q[u]
  <2>1. CASE u = m
    BY <1>1, <1>2, <1>6, <1>8, <2>1
  <2>2. CASE u # m
    <3>1. u \in DOMAIN mods /\ x \in Upstream(mods[u]) /\ x \in DOMAIN mods
      BY <1>1, <1>2, <1>8, <2>2
    <3>2. r[x] < r[u]
      BY <1>5, <3>1 DEF Ranked
    <3> QED
      BY <1>6, <3>1, <3>2
  <2> QED
    BY <2>1, <2>2
<1>9. Ranked(all, n + 1, q) /\ n + 1 \in Nat
  BY <1>7, <1>8 DEF Ranked
<1>10. DOMAIN all \subseteq Files
  BY <1>2 DEF Modules, IsFrame
<1>11. \A u \in DOMAIN all : Whole(prog, all, u)
  BY <1>1, <1>2, <1>3
<1> QED
  BY <1>7, <1>9, <1>10, <1>11 DEF Modules, all, mod

-----------------------------------------------------------------------------
(* The steps of a compilation that only loads modules.                      *)

LEMMA WhenceTop ==
    ASSUME LoadingInv, status = "running", Laid(stack, modules), Modular(program),
           Whence(program, stack, modules)
    PROVE  /\ Modules(program, modules) /\ Frames(program, stack, modules)
           /\ Written(program, Top) /\ Top.file \in Files \ DOMAIN modules
           /\ Own(Top.root, Top.file) /\ Each(Top.root, Top.file, GoneBy(program, Top))
           /\ Len(program[Top.file]) \in Nat /\ Top.root \in Seq(Nodes)
           /\ \A op : AtStmt(op) => /\ Top.pc <= Len(program[Top.file])
                                    /\ program[Top.file][Top.pc] = Stmt /\ Stmt.op = op
                                    /\ op \notin {"import", "loadcss"}
<1>1. Modules(program, modules) /\ Frames(program, stack, modules)
  BY DEF Whence
<1>2. Len(stack) \in 1..Len(stack) /\ Top = stack[Len(stack)] /\ IsFrame(Top) /\ Sheet(Top, DOMAIN modules)
  BY LaidTop
<1>3. Written(program, Top) /\ Top.file \notin DOMAIN modules
  BY <1>1, <1>2 DEF Frames
<1>4. Top.file \in Files /\ program \in Programs /\ Top.pc \in Nat \ {0} /\ Top.root \in Seq(Nodes)
  BY <1>2, StackTop DEF IsFrame, Sheet
<1>5. Len(program[Top.file]) \in Nat
  BY <1>4, ProgramsAssumption
<1>6. ASSUME NEW op, AtStmt(op)
      PROVE  /\ Top.pc <= Len(program[Top.file])
             /\ program[Top.file][Top.pc] = Stmt /\ Stmt.op = op
             /\ op \notin {"import", "loadcss"}
  <2>1. Top.pc <= Len(program[Top.file]) /\ program[Top.file][Top.pc] = Stmt /\ Stmt.op = op
    BY <1>6, Zenon DEF AtStmt, Stmt
  <2>2. Top.pc \in 1..Len(program[Top.file])
    BY <1>4, <1>5, <2>1
  <2> QED
    BY <1>4, <2>1, <2>2 DEF Modular
<1> QED
  BY <1>1, <1>3, <1>4, <1>5, <1>6, WrittenIs

Traced == status' = "running" => Whence(program', stack', modules')

(* A statement that ends in the frame it began in, and leaves the modules. *)
LEMMA TracedOn ==
    ASSUME LoadingInv, status = "running", Laid(stack, modules), Modular(program),
           Whence(program, stack, modules), UNCHANGED program, LikeModules(modules, modules'),
           NEW h, stack' = Append(Below, h), h.file = Top.file, h.by = Top.by,
           Written(program, h), Upstream(Top) \subseteq Upstream(h)
    PROVE  Traced
<1>1. /\ Sequence(stack) /\ stack # <<>> /\ Below = Front(stack) /\ Top = stack[Len(stack)]
      /\ Kept(modules)
  BY LaidTop
<1>2. Modules(program, modules) /\ Frames(program, stack, modules)
  BY WhenceTop
<1>3. Frames(program, Append(Front(stack), h), modules')
  BY <1>1, <1>2, FramesGoOn
<1>4. Modules(program, modules')
  BY <1>1, <1>2, ModulesAlike
<1> QED
  BY <1>1, <1>3, <1>4 DEF Traced, Whence

LEMMA AdvanceIs ==
    ASSUME NEW f
    PROVE  /\ Advance(f).file = f.file /\ Advance(f).by = f.by /\ Advance(f).root = f.root
           /\ Upstream(Advance(f)) = Upstream(f)
           /\ "pc" \in DOMAIN f => Advance(f).pc = f.pc + 1
BY DEF Advance, Upstream

LEMMA AddIs ==
    ASSUME NEW f, NEW known, Sheet(f, known), IsFrame(f), NEW node,
           NEW g \in {AddChild(f, node), AddComment(f, node), AddImport(f, node)}
    PROVE  /\ g.root \in {f.root, Append(f.root, node)}
           /\ g = AddChild(f, node) => g.root = Append(f.root, node)
           /\ Upstream(g) = Upstream(f) /\ {"root", "pc"} \subseteq DOMAIN g
           /\ g.file = f.file /\ g.by = f.by /\ g.pc = f.pc
<1>1. SheetFields \subseteq DOMAIN f /\ {"file", "pc", "by"} \subseteq DOMAIN f
  BY DEF Sheet, SheetFields, IsFrame
<1>2. CASE g = AddChild(f, node)
  BY <1>1, <1>2 DEF AddChild, SheetFields, Upstream
<1>3. CASE g = AddComment(f, node)
  BY <1>1, <1>3 DEF AddComment, AddChild, SheetFields, Upstream
<1>4. CASE g = AddImport(f, node)
  BY <1>1, <1>4 DEF AddImport, AddChild, SheetFields, Upstream
<1> QED
  BY <1>2, <1>3, <1>4

LEMMA TracedEmit ==
    ASSUME LoadingInv, Laid(stack, modules), Modular(program), Whence(program, stack, modules),
           VisitStyleRule \/ VisitLoudComment \/ VisitStaticImport
    PROVE  Traced
<1>1. /\ status = "running"
      /\ UNCHANGED <<program, active, modules, stores, status, output, asked, taken>>
  BY EmittingStays
<1>2. Sheet(Top, DOMAIN modules) /\ IsFrame(Top)
  BY <1>1, LaidTop
<1>3. /\ Own(Top.root, Top.file) /\ Each(Top.root, Top.file, GoneBy(program, Top))
      /\ Len(program[Top.file]) \in Nat /\ Top.root \in Seq(Nodes)
  BY <1>1, WhenceTop
<1>4. PICK op, kind, g :
         /\ AtStmt(op) /\ stack' = Append(Below, Advance(g))
         /\ g \in {AddChild(Top, Node(kind, Top)), AddComment(Top, Node(kind, Top)), AddImport(Top, Node(kind, Top))}
         /\ \/ op = "rule" /\ kind = "rule" /\ g = AddChild(Top, Node(kind, Top))
            \/ op # "rule" /\ kind # "rule"
  BY DEF VisitStyleRule, VisitLoudComment, VisitStaticImport, Emitting
<1> DEFINE node == Node(kind, Top)
<1>5. node.kind = kind /\ node.file = Top.file /\ node.at = Top.pc
  BY DEF Node
<1>6. Top.pc <= Len(program[Top.file]) /\ program[Top.file][Top.pc].op = op
  BY <1>1, <1>4, WhenceTop
<1>7. /\ g.root \in {Top.root, Append(Top.root, node)}
      /\ g = AddChild(Top, node) => g.root = Append(Top.root, node)
      /\ Upstream(g) = Upstream(Top) /\ {"root", "pc"} \subseteq DOMAIN g
      /\ g.file = Top.file /\ g.by = Top.by /\ g.pc = Top.pc
  BY <1>2, <1>4, AddIs
<1> HIDE DEF node
<1>8. Written(program, Advance(g))
  <2>1. CASE op = "rule"
    <3>1. kind = "rule" /\ g.root = Append(Top.root, node)
      BY <1>4, <1>7, <2>1 DEF node
    <3>2. GoneBy(program, Advance(Top)) = GoneBy(program, Top) \cup {Top.pc} /\ Top.pc \notin GoneBy(program, Top)
      BY <1>2, <1>3, <1>6, <2>1, GoneByNext
    <3>3. Own(g.root, Top.file) /\ Each(g.root, Top.file, GoneBy(program, Top) \cup {Top.pc})
      <4>1. node.kind = "rule" /\ node.file = Top.file /\ node.at \notin GoneBy(program, Top)
        BY <1>5, <3>1, <3>2
      <4>2. /\ Own(Append(Top.root, node), Top.file)
            /\ Each(Append(Top.root, node), Top.file, GoneBy(program, Top) \cup {node.at})
        BY <1>3, <4>1, RuleAppended
      <4> QED
        BY <1>5, <3>1, <4>2
    <3> DEFINE h == Advance(g)
    <3>4. h.file = Top.file /\ h.root = g.root /\ GoneBy(program, h) = GoneBy(program, Advance(Top))
      <4>1. "pc" \in DOMAIN Top
        BY <1>2 DEF IsFrame
      <4>2. /\ h.file = Top.file /\ h.root = g.root /\ h.pc = Top.pc + 1
            /\ Advance(Top).file = Top.file /\ Advance(Top).pc = Top.pc + 1
        BY <1>7, <4>1, AdvanceIs
      <4> HIDE DEF h
      <4> QED
        BY <4>2 DEF GoneBy
    <3> HIDE DEF h
    <3>5. Written(program, h)
      BY <3>2, <3>3, <3>4, WrittenIs
    <3> QED
      BY <3>5 DEF h
  <2>2. CASE op # "rule"
    <3>1. Own(g.root, Top.file) /\ Each(g.root, Top.file, GoneBy(program, Top))
      BY <1>3, <1>4, <1>5, <1>7, <2>2, OtherAppended
    <3> QED
      BY <1>2, <1>3, <1>6, <1>7, <2>2, <3>1, WrittenOn
  <2> QED
    BY <2>1, <2>2
<1>9. LikeModules(modules, modules')
  BY <1>1 DEF LikeModules
<1>10. Advance(g).file = Top.file /\ Advance(g).by = Top.by /\ Upstream(Advance(g)) = Upstream(Top)
  BY <1>7, AdvanceIs
<1> QED
  BY <1>1, <1>4, <1>8, <1>9, <1>10, TracedOn

LEMMA TracedDeclare ==
    ASSUME LoadingInv, Laid(stack, modules), Modular(program), Whence(program, stack, modules),
           VisitVariableDeclaration
    PROVE  Traced
<1>1. status = "running" /\ UNCHANGED program /\ AtStmt("declare")
  BY DeclarationStays DEF VisitVariableDeclaration
<1>2. LikeModules(modules, modules')
  BY DeclarationCss
<1>3. PICK g : LikeFrame(Top, g) /\ stack' = Append(Below, Advance(g))
  BY DeclarationCss
<1>4. /\ {"root", "pc"} \subseteq DOMAIN g /\ g.root = Top.root /\ g.file = Top.file /\ g.by = Top.by
      /\ g.pc = Top.pc /\ Upstream(g) = Upstream(Top)
  BY <1>3 DEF LikeFrame, LikeSheet, SheetFields, Upstream
<1>5. /\ Own(Top.root, Top.file) /\ Each(Top.root, Top.file, GoneBy(program, Top))
      /\ Len(program[Top.file]) \in Nat
      /\ Top.pc <= Len(program[Top.file]) /\ program[Top.file][Top.pc].op # "rule" /\ IsFrame(Top)
  BY <1>1, WhenceTop, LaidTop
<1>6. Written(program, Advance(g))
  BY <1>4, <1>5, WrittenOn
<1>7. Advance(g).file = Top.file /\ Advance(g).by = Top.by /\ Upstream(Advance(g)) = Upstream(Top)
  BY <1>4, AdvanceIs
<1> QED
  BY <1>1, <1>2, <1>3, <1>6, <1>7, TracedOn

(* What AddModule and ForwardModule leave of the frame that loads: where it  *)
(* is, and its rules, of which it has none before a @use or @forward.        *)
LEMMA RegisterPlace ==
    ASSUME NEW f, IsFrame(f), NEW known, Sheet(f, known), NEW url, NEW mods
    PROVE  LET g == RegisterComments(f, url, mods)
           IN  g.file = f.file /\ g.by = f.by /\ g.pc = f.pc
BY DEF RegisterComments, IsFrame

LEMMA CallbackPlace ==
    ASSUME NEW f, IsFrame(f), NEW known, Sheet(f, known), NEW s, s.op \in {"use", "forward"},
           NEW mods, NEW first
    PROVE  LET g == Callback(f, s, mods, first)
           IN  g.file = f.file /\ g.by = f.by /\ g.pc = f.pc /\ {"root", "pc"} \subseteq DOMAIN g
<1> DEFINE b == IF first THEN RegisterComments(f, s.url, mods) ELSE f
           g == Callback(f, s, mods, first)
<1>1. b.file = f.file /\ b.by = f.by /\ b.pc = f.pc
  BY RegisterPlace
<1>2. DOMAIN b = DOMAIN f
  BY RegisterKeeps
<1>3. {"root", "pc", "file", "by"} \subseteq DOMAIN f
  BY DEF IsFrame, Sheet
<1>4. \/ g = [b EXCEPT !.used = @ \cup {s.url}, !.upstream = Append(@, s.url)]
      \/ g = [b EXCEPT !.forwarded = @ \cup {Forwarded(s.rule, s.url, mods[s.url])},
                       !.upstream = Append(@, s.url)]
  BY DEF Callback
<1> HIDE DEF b, g
<1>5. g.file = b.file /\ g.by = b.by /\ g.pc = b.pc /\ DOMAIN g = DOMAIN b
  <2>1. {"root", "pc", "file", "by"} \subseteq DOMAIN b
    BY <1>2, <1>3
  <2>2. CASE g = [b EXCEPT !.used = @ \cup {s.url}, !.upstream = Append(@, s.url)]
    BY <2>1, <2>2
  <2>3. CASE g = [b EXCEPT !.forwarded = @ \cup {Forwarded(s.rule, s.url, mods[s.url])},
                           !.upstream = Append(@, s.url)]
    BY <2>1, <2>3
  <2> QED
    BY <1>4, <2>2, <2>3
<1> QED
  BY <1>1, <1>2, <1>3, <1>5 DEF g

(* A frame at a @use or @forward of a module that is there. *)
Resumes(prog, f, s, mods) ==
    /\ prog \in Programs /\ IsFrame(f) /\ Written(prog, f) /\ f.pc <= Len(prog[f.file])
    /\ s = prog[f.file][f.pc] /\ s.op \in {"use", "forward"}
    /\ Kept(mods) /\ Sheet(f, DOMAIN mods) /\ s.url \in DOMAIN mods
Resumed(prog, f, s, h) ==
    h.file = f.file /\ h.by = f.by /\ Written(prog, h) /\ Upstream(h) = Upstream(f) \cup {s.url}

LEMMA WrittenCallback ==
    ASSUME NEW prog, NEW f, NEW s, NEW mods, Resumes(prog, f, s, mods),
           NEW first
    PROVE  Resumed(prog, f, s, Advance(Callback(f, s, mods, first)))
<1>0. /\ prog \in Programs /\ IsFrame(f) /\ Written(prog, f) /\ f.pc <= Len(prog[f.file])
      /\ s = prog[f.file][f.pc] /\ s.op \in {"use", "forward"}
      /\ Kept(mods) /\ Sheet(f, DOMAIN mods) /\ s.url \in DOMAIN mods
  BY DEF Resumes
<1> DEFINE g == Callback(f, s, mods, first)
<1>1. g.file = f.file /\ g.by = f.by /\ g.pc = f.pc /\ {"root", "pc"} \subseteq DOMAIN g
  BY <1>0, CallbackPlace
<1>2. Upstream(g) = Upstream(f) \cup {s.url} /\ g.root \in {f.root, <<>>}
  <2>1. s.op \in Loading /\ s.op # "loadcss"
    BY <1>0 DEF Loading
  <2> QED
    BY <1>0, <2>1, CallbackKeeps
<1> HIDE DEF g
<1>3. Len(prog[f.file]) \in Nat
  BY <1>0, ProgramsAssumption DEF IsFrame
<1>4. Own(g.root, f.file) /\ Each(g.root, f.file, GoneBy(prog, f))
  BY <1>0, <1>2, NoneBefore, WrittenIs
<1>5. Written(prog, Advance(g))
  BY <1>0, <1>1, <1>3, <1>4, WrittenOn
<1> QED
  BY <1>1, <1>2, <1>5, AdvanceIs DEF g, Resumed

LEMMA TracedLoad ==
    ASSUME LoadingInv, Laid(stack, modules), Modular(program), Whence(program, stack, modules),
           VisitUseRule \/ LoadCss \/ VisitForwardRule
    PROVE  Traced
<1>1. PICK op \in Loading : AtStmt(op)
  BY DEF VisitUseRule, LoadCss, VisitForwardRule, Loading
<1>2. /\ status = "running" /\ IsStatement(Stmt)
      /\ \E conf, load, heap : LoadModule(Stmt.url, conf, load, heap)
  BY LoadsIs
<1>3. /\ Top.pc <= Len(program[Top.file]) /\ program[Top.file][Top.pc] = Stmt
      /\ Stmt.op \in {"use", "forward"} /\ Stmt.op \in Loading
  BY <1>1, <1>2, WhenceTop DEF Loading
<1>4. /\ Modules(program, modules) /\ Frames(program, stack, modules) /\ Written(program, Top)
  BY <1>2, WhenceTop
<1>5. /\ Sequence(stack) /\ stack # <<>> /\ Below = Front(stack) /\ Top = stack[Len(stack)]
      /\ Sheet(Top, DOMAIN modules) /\ Kept(modules) /\ IsFrame(Top) /\ program \in Programs
  BY <1>2, LaidTop, StackTop
<1>6. PICK conf, load, heap : LoadModule(Stmt.url, conf, load, heap)
  BY <1>2
<1>7. CASE Fail("loop") \/ Fail("already-loaded")
  BY <1>7 DEF Fail, Traced
<1>8. CASE /\ Stmt.url \in DOMAIN modules /\ UNCHANGED modules
           /\ AfterLoad(Below, Top, load, heap, modules, FALSE)
  <2> DEFINE h == Advance(Callback(Top, Stmt, modules, FALSE))
  <2>1. /\ UNCHANGED program
        /\ (status' = "running" /\ stack' = Append(Below, h)) \/ status' \notin {"running", "done"}
    BY <1>2, <1>3, <1>8, AfterIs
  <2>2. h.file = Top.file /\ h.by = Top.by /\ Written(program, h) /\ Upstream(Top) \subseteq Upstream(h)
    <3>1. h = Advance(Callback(Top, Stmt, modules, FALSE))
      OBVIOUS
    <3> HIDE DEF h
    <3>2. h.file = Top.file /\ h.by = Top.by /\ Written(program, h) /\ Upstream(h) = Upstream(Top) \cup {Stmt.url}
      <4>1. Resumes(program, Top, Stmt, modules)
        BY <1>3, <1>4, <1>5, <1>8, Zenon DEF Resumes
      <4>2. Resumed(program, Top, Stmt, Advance(Callback(Top, Stmt, modules, FALSE)))
        BY <4>1, WrittenCallback
      <4> QED
        BY <3>1, <4>2 DEF Resumed
    <3> QED
      BY <3>2
  <2>3. LikeModules(modules, modules')
    BY <1>8 DEF LikeModules
  <2> HIDE DEF h
  <2>4. CASE stack' = Append(Below, h)
    BY <1>2, <2>1, <2>2, <2>3, <2>4, TracedOn
  <2> QED
    BY <2>1, <2>4 DEF Traced
<1>9. CASE LoadFirst(Stmt.url, conf, load, heap) /\ Stmt.url \notin DOMAIN modules
  <2> DEFINE h == Fresh(Stmt.url, "load", conf, load)
  <2>1. stack' = Append(stack, h) /\ UNCHANGED <<program, modules, status>>
    BY <1>9 DEF LoadFirst
  <2>2. Stmt.url \in Files
    BY <1>2, <1>3 DEF IsStatement
  <2>3. h.file = Stmt.url /\ h.by = "load"
    BY DEF Fresh
  <2>4. Written(program, h)
    BY <1>5, <2>2, FreshWritten, ProgramsAssumption
  <2> HIDE DEF h
  <2>5. Frames(program, Append(stack, h), modules)
    BY <1>3, <1>4, <1>5, <1>9, <2>3, <2>4, FramesEnter
  <2> QED
    BY <1>4, <2>1, <2>5 DEF Traced, Whence
<1> QED
  BY <1>6, <1>7, <1>8, <1>9 DEF LoadModule, LoadedBefore

LEMMA TracedFinishModule ==
    ASSUME LoadingInv, Laid(stack, modules), Modular(program), Whence(program, stack, modules),
           FinishModule
    PROVE  Traced
<1> DEFINE mod  == ToModule(modules, Top, Children(Top))
           mods == Put(modules, Top.file, mod)
           f    == Last(Below)
           s    == program[f.file][f.pc]
           n    == Len(stack)
           h    == Advance(Callback(f, s, mods, TRUE))
<1>1. /\ status = "running" /\ Top.by = "load" /\ modules' = mods /\ s.op \in Loading
      /\ AfterLoad(Front(Below), f, Top.load, stores, mods, TRUE)
  BY FinishModuleStays
<1>2. Top.pc > Len(program[Top.file])
  BY DEF FinishModule, AtEnd
<1>3. /\ Modules(program, modules) /\ Frames(program, stack, modules) /\ Written(program, Top)
      /\ Top.file \notin DOMAIN modules /\ Len(program[Top.file]) \in Nat
  BY <1>1, WhenceTop
<1>4. /\ Sequence(stack) /\ n \in Nat \ {0} /\ Below = Front(stack) /\ Top = stack[n]
      /\ Sheet(Top, DOMAIN modules) /\ Kept(modules) /\ IsFrame(Top) /\ program \in Programs
      /\ Marked(stack, active)
  BY <1>1, LaidTop, StackTop DEF Lined
<1>5. /\ n > 1 /\ f = stack[n - 1] /\ Sheet(f, DOMAIN modules) /\ IsFrame(f)
      /\ Above(program, f, Top)
  BY <1>1, LaidBelow
<1>6. Modules(program, mods)
  BY <1>2, <1>3, <1>4, ModulesPut
<1>7. Upstream(mod) = Upstream(Top)
  BY <1>2, <1>3, <1>4, ModuleWhole
<1>8. Kept(mods) /\ DOMAIN mods = DOMAIN modules \cup {Top.file}
  BY <1>1, LaidModule
<1>9. n - 1 \in 1..n /\ n - 1 \in 1..n - 1 /\ n \in 1..n /\ \A k \in 1..n - 1 : k \in 1..n /\ k # n
  BY <1>4, <1>5
<1>10. \A k \in 1..n - 1 : stack[k].file # Top.file
  BY <1>4, <1>9 DEF Marked
<1>11. Written(program, f) /\ f.pc <= Len(program[f.file])
  BY <1>3, <1>5, <1>9 DEF Frames
<1> HIDE DEF mods, mod, f, n
<1>12. s.op \in {"use", "forward"} /\ s.url = Top.file
  <2>1. f.pc \in 1..Len(program[f.file]) /\ f.file \in Files
    <3>1. Len(program[f.file]) \in Nat
      BY <1>4, <1>5, ProgramsAssumption DEF IsFrame
    <3> QED
      BY <1>5, <1>11, <3>1 DEF IsFrame
  <2>2. s.op \notin {"import", "loadcss"}
    BY <2>1 DEF Modular
  <2> QED
    BY <1>1, <1>5, <2>2 DEF Above, Loading
<1>13. Sheet(f, DOMAIN mods)
  BY <1>5, <1>8, SheetGrows
<1>14. /\ h.file = f.file /\ h.by = f.by /\ Written(program, h)
       /\ Upstream(h) = Upstream(f) \cup {Top.file}
  <2>1. h = Advance(Callback(f, s, mods, TRUE)) /\ s = program[f.file][f.pc]
    OBVIOUS
  <2>2. s.url \in DOMAIN mods
    BY <1>8, <1>12
  <2> HIDE DEF h, s
  <2> QED
    <3>1. h.file = f.file /\ h.by = f.by /\ Written(program, h) /\ Upstream(h) = Upstream(f) \cup {s.url}
      <4>1. Resumes(program, f, s, mods)
        BY <1>4, <1>5, <1>8, <1>11, <1>12, <1>13, <2>1, <2>2, Zenon DEF Resumes
      <4>2. Resumed(program, f, s, Advance(Callback(f, s, mods, TRUE)))
        BY <4>1, WrittenCallback
      <4> QED
        BY <2>1, <4>2 DEF Resumed
    <3> QED
      BY <1>12, <3>1
<1>15. /\ UNCHANGED program
       /\ (status' = "running" /\ stack' = Append(Front(Below), h)) \/ status' \notin {"running", "done"}
  BY <1>1, AfterIs
<1> HIDE DEF h
<1>16. Frames(program, Append(Front(Front(stack)), h), mods)
  <2>1. \A k \in 1..Len(stack) - 1 : stack[k].file # stack[Len(stack)].file
    BY <1>4, <1>10 DEF n
  <2>2. /\ Len(stack) > 1 /\ h.file = stack[Len(stack) - 1].file /\ h.by = stack[Len(stack) - 1].by
        /\ Upstream(h) = Upstream(stack[Len(stack) - 1]) \cup {stack[Len(stack)].file}
        /\ Upstream(mod) = Upstream(stack[Len(stack)])
    BY <1>4, <1>5, <1>7, <1>14 DEF n
  <2>3. mods = Put(modules, stack[Len(stack)].file, mod)
    BY <1>4 DEF n, mods
  <2> QED
    BY <1>3, <1>4, <1>14, <2>1, <2>2, <2>3, FramesReturn
<1> QED
  BY <1>1, <1>4, <1>6, <1>15, <1>16 DEF Traced, Whence

(* What only files that are imported do. *)
LEMMA NoImports ==
    ASSUME LoadingInv, Laid(stack, modules), Modular(program), Whence(program, stack, modules),
           status = "running"
    PROVE  /\ ~VisitDynamicImport /\ ~FinishInject /\ ~FinishImport
           /\ FinishRun => Len(stack) = 1
<1>1. ~VisitDynamicImport
  BY WhenceTop DEF VisitDynamicImport
<1>2. Frames(program, stack, modules) /\ Nested(program, stack)
  BY WhenceTop, StackTop DEF Lined
<1>3. Len(stack) \in Nat \ {0} /\ Top = stack[Len(stack)]
  BY StackTop
<1>4. Len(stack) = 1 \/ Len(stack) \in 2..Len(stack)
  <2> DEFINE n == Len(stack)
  <2>1. n \in Nat \ {0}
    BY <1>3
  <2> HIDE DEF n
  <2>2. n = 1 \/ n \in 2..n
    BY <2>1
  <2> QED
    BY <2>2 DEF n
<1>5. IF Len(stack) = 1 THEN Top.by = "run" ELSE Top.by = "load"
  BY <1>2, <1>3, <1>4 DEF Frames, Nested
<1> QED
  BY <1>1, <1>5 DEF FinishInject, FinishImport, FinishRun

LEMMA WhenceInit == Init => Whence(program, stack, modules)
<1> SUFFICES ASSUME Init PROVE Whence(program, stack, modules)
  OBVIOUS
<1> DEFINE h == Fresh(Entry, "run", EmptyConfiguration, NoLoad)
<1>1. stack = <<h>> /\ modules = <<>> /\ program \in Programs
  BY DEF Init
<1>2. DOMAIN modules = {} /\ h.file = Entry
  BY <1>1 DEF Fresh
<1>3. Modules(program, modules)
  <2> DEFINE r == [u \in DOMAIN modules |-> 0]
  <2>1. r \in [DOMAIN modules -> 0..0] /\ Ranked(modules, 0, r)
    BY <1>2 DEF Ranked
  <2> HIDE DEF r
  <2>2. \E n \in Nat : \E q \in [DOMAIN modules -> 0..n] : Ranked(modules, n, q)
    BY <2>1
  <2> QED
    BY <1>2, <2>2 DEF Modules
<1>4. Len(program[Entry]) \in Nat
  BY <1>1, LoadingConstants, ProgramsAssumption
<1>5. Written(program, h)
  BY <1>4, FreshWritten
<1> HIDE DEF h
<1>6. Len(stack) = 1 /\ stack[1] = h
  BY <1>1
<1>7. Frames(program, stack, modules)
  BY <1>2, <1>5, <1>6 DEF Frames
<1> QED
  BY <1>3, <1>7 DEF Whence

(* The end of the entry point: every module depends on earlier ones, and    *)
(* every one but the entry point is the upstream of one.                    *)
LEMMA EntryEnds ==
    ASSUME LoadingInv, Laid(stack, modules), Modular(program), Whence(program, stack, modules),
           FinishRun
    PROVE  /\ Kept(modules') /\ Modules(program, modules') /\ Entry \in DOMAIN modules'
           /\ \A x \in DOMAIN modules' :
                 x = Entry \/ \E u \in DOMAIN modules' : x \in Upstream(modules'[u])
<1> DEFINE mod == ToModule(modules, Top, Children(Top))
           mods == Put(modules, Entry, mod)
<1>1. /\ status = "running" /\ modules' = mods /\ Kept(modules') /\ Entry \in DOMAIN modules'
  BY LaidFinishRun
<1>2. Top.pc > Len(program[Top.file])
  BY DEF FinishRun, AtEnd
<1>3. /\ Modules(program, modules) /\ Frames(program, stack, modules) /\ Written(program, Top)
      /\ Top.file \notin DOMAIN modules /\ Len(program[Top.file]) \in Nat
  BY <1>1, WhenceTop
<1>4. /\ Sheet(Top, DOMAIN modules) /\ Kept(modules) /\ IsFrame(Top) /\ Top = stack[Len(stack)]
  BY <1>1, LaidTop
<1>5. Len(stack) = 1
  BY <1>1, NoImports
<1>6. Top = stack[1] /\ Top.file = Entry
  BY <1>3, <1>4, <1>5 DEF Frames
<1>7. Modules(program, mods)
  BY <1>2, <1>3, <1>4, <1>6, ModulesPut
<1>8. Upstream(mod) = Upstream(Top)
  BY <1>2, <1>3, <1>4, ModuleWhole
<1> HIDE DEF mod
<1>9. /\ DOMAIN mods = DOMAIN modules \cup {Entry} /\ mods[Entry] = mod
      /\ \A u \in DOMAIN modules : mods[u] = modules[u]
  BY <1>3, <1>6 DEF Put
<1>10. \A x \in DOMAIN modules :
          (\E u \in DOMAIN modules : x \in Upstream(modules[u])) \/ x \in Upstream(Top)
  BY <1>3, <1>5, <1>6 DEF Frames
<1> HIDE DEF mods
<1>11. \A x \in DOMAIN mods : x = Entry \/ \E u \in DOMAIN mods : x \in Upstream(mods[u])
  BY <1>8, <1>9, <1>10
<1> QED
  BY <1>1, <1>7, <1>11

LEMMA EndOrdered ==
    ASSUME LoadingInv, Laid(stack, modules), Modular(program), Whence(program, stack, modules),
           FinishRun, NEW m \in DOMAIN modules'
    PROVE  /\ Each(output', m, RulesOf(program, m))
           /\ \A x \in Upstream(modules'[m]) : Before(output', x, m)
<1> DEFINE mods == modules'
<1>1. /\ Kept(mods) /\ Modules(program, mods) /\ Entry \in DOMAIN mods
      /\ \A x \in DOMAIN mods : x = Entry \/ \E u \in DOMAIN mods : x \in Upstream(mods[u])
  BY EntryEnds
<1>2. output' = CombineCss(mods, Entry)
  BY LaidFinishRun
<1> HIDE DEF mods
<1>3. PICK n \in Nat : \E r \in [DOMAIN mods -> 0..n] : Ranked(mods, n, r)
  BY <1>1 DEF Modules
<1>4. PICK r \in [DOMAIN mods -> 0..n] : Ranked(mods, n, r)
  BY <1>3
<1>5. r \in [DOMAIN mods -> Nat]
  BY <1>4
<1>6. Sound(program, mods, r)
  BY <1>1, <1>4, <1>5 DEF Sound, Falls, Ranked, Modules
<1>7. LET c == CombineCss(mods, Entry)
      IN  \A u \in DOMAIN mods : /\ Each(c, u, RulesOf(program, u))
                                 /\ \A x \in Upstream(mods[u]) : Before(c, x, u)
  BY <1>1, <1>4, <1>6, CombinedInOrder
<1> QED
  BY <1>2, <1>7 DEF mods

(* As many rules as places. *)
LEMMA AsMany ==
    ASSUME NEW s, Len(s) \in Nat, NEW m, NEW R, Each(s, m, R)
    PROVE  Cardinality(RulesIn(s, m)) = Cardinality(R)
<1> DEFINE P == RulesIn(s, m)
           f == [k \in P |-> s[k].at]
<1>1. IsFiniteSet(P)
  <2>1. IsFiniteSet(1..Len(s))
    BY FS_Interval
  <2>2. P \subseteq 1..Len(s)
    BY DEF RulesIn
  <2> QED
    BY <2>1, <2>2, FS_Subset
<1>2. {s[k].at : k \in P} = R /\ \A j, k \in P : s[j].at = s[k].at => j = k
  BY DEF Each
<1> HIDE DEF P
<1>3. f \in [P -> R] /\ (\A j, k \in P : f[j] = f[k] => j = k) /\ \A v \in R : \E k \in P : f[k] = v
  BY <1>2
<1> HIDE DEF f
<1>4. f \in Bijection(P, R)
  BY <1>3 DEF Bijection, Injection, Surjection, IsInjective
<1>5. ExistsBijection(P, R)
  BY <1>4 DEF ExistsBijection
<1> QED
  BY <1>1, <1>5, FS_Bijection DEF P

(* The combined CSS of a compilation that succeeds. *)
LEMMA CombinedAtEnd ==
    ASSUME LoadingInv, Laid(stack, modules), Whence(program, stack, modules), FinishRun
    PROVE  CssInOrder'
<1>1. /\ status = "running" /\ UNCHANGED program /\ Kept(modules')
      /\ output' \in Seq(Nodes) /\ ImportsFirst(output')
  BY LaidFinishRun
<1>2. \A j, k \in 1..Len(output') : output'[j].kind = "rule" /\ output'[k].kind = "import" => k < j
  BY <1>1 DEF ImportsFirst
<1>3. ASSUME OnlyModules', NEW m \in DOMAIN modules'
      PROVE  /\ {output'[k].at : k \in Places(m)'} = Rules(m)'
             /\ Cardinality(Places(m)') = Cardinality(Rules(m)')
             /\ \A i \in 1..Len(modules'[m].upstream) :
                   \A j \in Places(modules[m].upstream[i])', k \in Places(m)' : j < k
  <2>1. Modular(program)
    BY <1>1, <1>3 DEF OnlyModules, Modular
  <2>2. /\ Each(output', m, RulesOf(program, m))
        /\ \A x \in Upstream(modules'[m]) : Before(output', x, m)
    BY <1>3, <2>1, EndOrdered
  <2>3. /\ Rules(m)' = RulesOf(program, m) /\ Places(m)' = RulesIn(output', m)
        /\ \A i : Places(modules[m].upstream[i])' = RulesIn(output', modules'[m].upstream[i])
    BY <1>1 DEF Rules, RulesOf, Places, RulesIn
  <2>4. {output'[k].at : k \in Places(m)'} = Rules(m)'
    BY <2>2, <2>3 DEF Each
  <2>5. Cardinality(Places(m)') = Cardinality(Rules(m)')
    <3>1. Len(output') \in Nat
      BY <1>1
    <3> QED
      BY <2>2, <2>3, <3>1, AsMany
  <2>6. ASSUME NEW i \in 1..Len(modules'[m].upstream)
        PROVE  \A j \in Places(modules[m].upstream[i])', k \in Places(m)' : j < k
    <3>1. modules'[m].upstream[i] \in Upstream(modules'[m])
      BY DEF Upstream
    <3> QED
      BY <2>2, <2>3, <3>1 DEF Before
  <2> QED
    BY <2>4, <2>5, <2>6
<1> QED
  BY <1>2, <1>3 DEF CssInOrder

LEMMA ProgramStays == Next => UNCHANGED program
<1> SUFFICES ASSUME Next PROVE program' = program
  OBVIOUS
<1>1. ASSUME NEW url, NEW conf, NEW load, NEW heap, LoadModule(url, conf, load, heap)
      PROVE  program' = program
  BY <1>1 DEF LoadModule, Fail, LoadedBefore, LoadFirst, AfterLoad
<1>2. ASSUME NEW with, LoadWith(with)
      PROVE  program' = program
  <2>1. CASE with = None
    BY <1>1, <1>2, <2>1, Zenon DEF LoadWith
  <2>2. CASE with # None
    BY <1>1, <1>2, <2>2, Zenon DEF LoadWith
  <2> QED
    BY <2>1, <2>2
<1>3. CASE VisitUseRule \/ LoadCss
  BY <1>2, <1>3 DEF VisitUseRule, LoadCss
<1>4. CASE VisitForwardRule
  <2>1. CASE Stmt.with = None
    BY <1>1, <1>4, <2>1, Zenon DEF VisitForwardRule
  <2>2. CASE Stmt.with # None
    BY <1>1, <1>4, <2>2, Zenon DEF VisitForwardRule
  <2> QED
    BY <2>1, <2>2
<1>5. CASE VisitStyleRule \/ VisitLoudComment \/ VisitStaticImport
  BY <1>5 DEF VisitStyleRule, VisitLoudComment, VisitStaticImport, Emitting
<1>6. CASE VisitVariableDeclaration
  BY <1>6 DEF VisitVariableDeclaration
<1>7. CASE VisitDynamicImport
  BY <1>7 DEF VisitDynamicImport, Fail
<1>8. CASE FinishModule
  BY <1>8 DEF FinishModule, AfterLoad
<1>9. CASE FinishInject \/ FinishImport \/ FinishRun
  BY <1>9 DEF FinishInject, FinishImport, FinishRun
<1> QED
  BY <1>3, <1>4, <1>5, <1>6, <1>7, <1>8, <1>9 DEF Next

-----------------------------------------------------------------------------
(* The invariant                                                            *)

LEMMA CssInit == Init => CssInv
<1>1. Init => status = "running"
  BY DEF Init
<1> QED
  BY <1>1, LaidInit, WhenceInit DEF CssInv, CssInOrder

LEMMA NextRuns == Next => status = "running"
BY DEF Next, VisitStyleRule, VisitLoudComment, VisitStaticImport, Emitting,
       VisitVariableDeclaration, VisitUseRule, VisitForwardRule, LoadCss, VisitDynamicImport,
       FinishModule, FinishInject, FinishImport, FinishRun, AtStmt, AtEnd

(* Every step but the last leaves the evaluator running, or with an error.  *)
LEMMA CssGoesOn ==
    ASSUME LoadingInv, Laid(stack, modules), Whence(program, stack, modules), Next, ~FinishRun
    PROVE  Ongoing /\ Traced
<1>1. Ongoing
  BY LaidEmit, LaidDeclare, LaidLoads, LaidImport, LaidFinishModule, LaidFinishInject,
     LaidFinishImport DEF Next
<1>2. CASE Modular(program)
  <2>1. ~VisitDynamicImport /\ ~FinishInject /\ ~FinishImport
    BY <1>2, NextRuns, NoImports
  <2> QED
    BY <1>1, <1>2, <2>1, TracedEmit, TracedDeclare, TracedLoad, TracedFinishModule DEF Next
<1>3. CASE ~Modular(program)
  <2>1. program' = program
    BY ProgramStays
  <2> QED
    BY <1>1, <1>3, <2>1 DEF Traced, Whence
<1> QED
  BY <1>2, <1>3

LEMMA CssNext == LoadingInv /\ CssInv /\ [Next]_vars => CssInv'
<1> SUFFICES ASSUME LoadingInv, CssInv, [Next]_vars PROVE CssInv'
  OBVIOUS
<1>1. CASE Next
  <2>1. Laid(stack, modules) /\ Whence(program, stack, modules)
    BY <1>1, NextRuns DEF CssInv
  <2>2. CASE FinishRun
    <3>1. CssInOrder' /\ status' = "done"
      BY <2>1, <2>2, CombinedAtEnd, LaidFinishRun
    <3> QED
      BY <3>1 DEF CssInv
  <2>3. CASE ~FinishRun
    <3>1. Ongoing /\ Traced
      BY <1>1, <2>1, <2>3, CssGoesOn
    <3>2. CssInOrder'
      BY <3>1 DEF Ongoing, CssInOrder
    <3> QED
      BY <3>1, <3>2 DEF CssInv, Ongoing, Traced
  <2> QED
    BY <2>2, <2>3
<1>2. CASE UNCHANGED vars
  <2>1. UNCHANGED <<program, stack, modules, status, output>>
    BY <1>2 DEF vars
  <2>2. CssInOrder'
    <3>1. /\ OnlyModules' = OnlyModules
          /\ \A m : Places(m)' = Places(m) /\ Rules(m)' = Rules(m)
      BY <2>1 DEF OnlyModules, Places, Rules
    <3>2. CssInOrder
      BY DEF CssInv
    <3>3. CASE status # "done"
      BY <2>1, <3>3 DEF CssInOrder
    <3>4. CASE status = "done"
      <4>1. \A i, m : Places(modules[m].upstream[i])' = Places(modules[m].upstream[i])
        BY <2>1 DEF Places
      <4> QED
        BY <2>1, <3>1, <3>2, <3>4, <4>1 DEF CssInOrder
    <3> QED
      BY <3>3, <3>4
  <2> QED
    BY <2>1, <2>2 DEF CssInv
<1> QED
  BY <1>1, <1>2

(* In the CSS of a compilation that succeeds no plain CSS @import comes      *)
(* after a rule; and where every file is loaded as a module, every rule of  *)
(* every module is there, once, and after all the rules of the modules it   *)
(* depends on: combineCss and its visitModule visit the modules depth first *)
(* and each once, whatever @use and @forward rules lead to them.            *)
THEOREM CssStaysInOrder == Spec => []CssInOrder
<1>1. Init => LoadingInv /\ CssInv
  BY LoadingInit, CssInit
<1>2. (LoadingInv /\ CssInv) /\ [Next]_vars => (LoadingInv /\ CssInv)'
  BY LoadingNext, CssNext
<1>3. CssInv => CssInOrder
  BY DEF CssInv
<1> QED
  BY <1>1, <1>2, <1>3, PTL DEF Spec
=============================================================================
