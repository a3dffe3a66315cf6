------------------------------ MODULE Selectors ------------------------------
(***************************************************************************)
(* value/selector_extend.go and selector_extend_functions.go: unification, *)
(* weaving and the superselector test, on which @extend rests.             *)
(*                                                                         *)
(* A simple selector is a value, its kind the set it belongs to; a         *)
(* compound is a sequence of them.  A component is a compound with the     *)
(* combinators after it, a complex selector a sequence of components with  *)
(* the combinators before it.  `orig` says that the store has marked the   *)
(* selector as written in the document: it is no part of its value.        *)
(*                                                                         *)
(* Left out: pseudo-classes with a selector argument, :host, namespaces,   *)
(* line breaks and spans.                                                  *)
(***************************************************************************)
EXTENDS Naturals, Sequences, FiniteSets, SequencesExt

CONSTANTS Ids, Types, PseudoClasses, Rootish, PseudoElements, Placeholders, Universal

ASSUME SelectorKinds == Rootish \subseteq PseudoClasses

Pseudos == PseudoClasses \cup PseudoElements
NoCompound == <<>>

Component(compound, combs) == [sel |-> compound, combs |-> combs]
Complex(lead, comps) == [lead |-> lead, comps |-> comps, orig |-> FALSE]
SameComplex(a, b) == a.lead = b.lead /\ a.comps = b.comps

SimpleSpecificity(s) == CASE s \in Ids -> 1000000
                          [] s \in Types \cup PseudoElements -> 1
                          [] s = Universal -> 0
                          [] OTHER -> 1000
CompoundSpecificity(c) == FoldLeft(LAMBDA n, s : n + SimpleSpecificity(s), 0, c)
Specificity(x) == FoldLeft(LAMBDA n, p : n + CompoundSpecificity(p.sel), 0, x.comps)

IsUseless(x) == Len(x.lead) > 1 \/ \E i \in DOMAIN x.comps : Len(x.comps[i].combs) > 1
IsInvisible(x) ==
    \/ \E i \in DOMAIN x.comps : Range(x.comps[i].sel) \cap Placeholders # {}
    \/ IsUseless(x) \/ Last(x.comps).combs # <<>>

WithAdditionalCombinators(x, combs) ==
    IF combs = <<>> THEN x
    ELSE Complex(x.lead, Front(x.comps) \o
                    <<[Last(x.comps) EXCEPT !.combs = @ \o combs]>>)
Concatenate(x, child) ==
    Complex(x.lead, WithAdditionalCombinators(x, child.lead).comps \o child.comps)

(***************************************************************************)
(* Unification of a simple selector with a compound.                       *)
(***************************************************************************)
InsertBefore(kinds, s, c) ==
    LET at == {i \in DOMAIN c : c[i] \in kinds}
    IN  IF at = {} THEN Append(c, s) ELSE InsertAt(c, Min(at), s)

UnifyUniversalAndElement(s, t) == IF s = t \/ t = Universal THEN <<s>>
                                  ELSE IF s = Universal THEN <<t>> ELSE NoCompound

ElementFirst(c) == c # <<>> /\ c[1] \in Types \cup {Universal}
UnifyElement(s, c) ==
    IF ElementFirst(c)
    THEN LET t == UnifyUniversalAndElement(s, c[1])
         IN  IF t = NoCompound THEN NoCompound ELSE t \o Tail(c)
    ELSE IF s = Universal /\ c # <<>> THEN c ELSE <<s>> \o c

UnifyPseudo(s, c) ==
    IF c = <<Universal>> THEN <<s>>
    ELSE IF s \in Range(c) THEN c
    ELSE IF s \in PseudoElements /\ Range(c) \cap PseudoElements # {} THEN NoCompound
    ELSE InsertBefore(PseudoElements, s, c)

UnifySimple(s, c) ==
    IF s \in Types \cup {Universal} THEN UnifyElement(s, c)
    ELSE IF s \in Pseudos THEN UnifyPseudo(s, c)
    ELSE IF s \in Ids /\ \E t \in Range(c) : t \in Ids \ {s} THEN NoCompound
    ELSE IF c = <<Universal>> THEN <<s>>
    ELSE IF s \in Range(c) THEN c
    ELSE InsertBefore(Pseudos, s, c)

\* what comes after a pseudo-element of the second compound is unified on its own
UnifyStep(acc, s) ==
    IF acc.failed THEN acc
    ELSE LET late == acc.element /\ s \in Pseudos
             c    == UnifySimple(s, IF late THEN acc.after ELSE acc.upto)
         IN  [failed  |-> c = NoCompound,
              element |-> acc.element \/ s \in PseudoElements,
              upto    |-> IF late THEN acc.upto ELSE c,
              after   |-> IF late THEN c ELSE acc.after]
UnifyCompound(c1, c2) ==
    LET u == FoldLeft(UnifyStep,
                [failed |-> FALSE, element |-> FALSE, upto |-> c1, after |-> <<>>], c2)
    IN  IF u.failed THEN NoCompound ELSE u.upto \o u.after

(***************************************************************************)
(* Superselectors.                                                         *)
(***************************************************************************)
SimpleIsSuperselector(s, t) == s = t \/ s = Universal

PlainIsSuperselector(a, b) ==
    \A s \in Range(a) : \E t \in Range(b) : SimpleIsSuperselector(s, t)
ElementAt(c) == {i \in DOMAIN c : c[i] \in PseudoElements}
CompoundIsSuperselector(a, b) ==
    LET ea == ElementAt(a)
        eb == ElementAt(b)
        Upto(c, e)  == SubSeq(c, 1, Min(e) - 1)
        After(c, e) == SubSeq(c, Min(e) + 1, Len(c))
        Rest(x, y)  == x = <<>> \/ PlainIsSuperselector(x, y)
                          \/ (y = <<>> /\ PlainIsSuperselector(x, <<Universal>>))
    IN  IF ea = {} /\ eb = {} THEN Len(a) <= Len(b) /\ PlainIsSuperselector(a, b)
        ELSE /\ ea # {} /\ eb # {}
             /\ a[Min(ea)] = b[Min(eb)]
             /\ Rest(Upto(a, ea), Upto(b, eb)) /\ Rest(After(a, ea), After(b, eb))

(* Mutant: "~" is taken to cover ">" as a space does. *)
IsSupercombinatorLoose(a, b) == \/ a = b
                                \/ a \in {<<>>, <<"~">>} /\ b \in {<<">">>, <<"+">>}

IsSupercombinator(a, b) == \/ a = b
                           \/ a = <<>> /\ b = <<">">>
                           \/ a = <<"~">> /\ b = <<"+">>
CompatibleWithPrevious(prev, parents) ==
    \/ parents = <<>> \/ prev = <<>>
    \/ /\ prev = <<"~">>
       /\ \A p \in Range(parents) : p.combs \in {<<"~">>, <<"+">>}

\* a's components are looked for in b from the left; the last must cover b's last
RECURSIVE CoversFrom(_, _, _, _, _)
CoversFrom(a, b, i, j, prev) ==
    LET ca   == a[i]
        hits == {k \in j..Len(b) - 1 : CompoundIsSuperselector(ca.sel, b[k].sel)}
        k    == Min(hits)
        rest == SubSeq(b, k + 1, Len(b) - 1)
    IN  /\ i <= Len(a) /\ j <= Len(b) /\ Len(a) - i <= Len(b) - j
        /\ Len(ca.combs) <= 1
        /\ IF i = Len(a)
           THEN /\ \A p \in Range(b) : Len(p.combs) <= 1
                /\ CompoundIsSuperselector(ca.sel, b[Len(b)].sel)
           ELSE /\ hits # {}
                /\ \A m \in j..k : Len(b[m].combs) <= 1
                /\ CompatibleWithPrevious(prev, SubSeq(b, j, k - 1))
                /\ IsSupercombinator(ca.combs, b[k].combs)
                /\ i + 1 = Len(a) =>
                      IF ca.combs = <<"~">>
                      THEN \A p \in Range(rest) : IsSupercombinator(ca.combs, p.combs)
                      ELSE ca.combs = <<>> \/ rest = <<>>
                /\ CoversFrom(a, b, i + 1, k + 1, ca.combs)

ComponentsAreSuperselector(a, b) ==
    /\ a # <<>> /\ b # <<>>
    /\ Last(a).combs = <<>> /\ Last(b).combs = <<>>
    /\ CoversFrom(a, b, 1, 1, <<>>)
IsSuperselector(x, y) ==
    x.lead = <<>> /\ y.lead = <<>> /\ ComponentsAreSuperselector(x.comps, y.comps)

\* both are followed by one and the same selector that nothing else covers
Temp == Component(<<"<temp>">>, <<>>)
IsParentSuperselector(a, b) ==
    Len(a) <= Len(b) /\ ComponentsAreSuperselector(Append(a, Temp), Append(b, Temp))

(***************************************************************************)
(* Weaving.  None stands for nil: there is no selector that both cover.    *)
(***************************************************************************)
None == [none |-> TRUE]

\* the choices for what the trailing combinators of both bind
MergeFollowing(x, y) ==
    IF CompoundIsSuperselector(x.sel, y.sel) THEN << <<y>> >>
    ELSE IF CompoundIsSuperselector(y.sel, x.sel) THEN << <<x>> >>
    ELSE LET u == UnifyCompound(x.sel, y.sel)
         IN  << <<x, y>>, <<y, x>> >>
                \o (IF u = NoCompound THEN <<>> ELSE << <<Component(u, x.combs)>> >>)
MergeNextAndFollowing(next, following) ==
    IF CompoundIsSuperselector(following.sel, next.sel) THEN << <<next>> >>
    ELSE LET u == UnifyCompound(following.sel, next.sel)
         IN  << <<following, next>> >>
                \o (IF u = NoCompound THEN <<>> ELSE << <<Component(u, next.combs)>> >>)
\* c ends in a combinator, d does not: an ancestor a child's parent covers is dropped
WithoutCovered(d, c) ==
    IF /\ Last(c).combs = <<">">> /\ d # <<>>
       /\ CompoundIsSuperselector(Last(d).sel, Last(c).sel)
    THEN Front(d) ELSE d

Siblings == {<<"+">>, <<"~">>}
RECURSIVE MergeTrailing(_, _, _)
MergeTrailing(q1, q2, acc) ==
    LET b1 == IF q1 = <<>> THEN <<>> ELSE Last(q1).combs
        b2 == IF q2 = <<>> THEN <<>> ELSE Last(q2).combs
        Both(choices) == MergeTrailing(Front(q1), Front(q2), <<choices>> \o acc)
        u  == UnifyCompound(Last(q1).sel, Last(q2).sel)
    IN  IF b1 = <<>> /\ b2 = <<>> THEN [q1 |-> q1, q2 |-> q2, choices |-> acc]
        ELSE IF Len(b1) > 1 \/ Len(b2) > 1 THEN None
        ELSE IF b1 = <<>> THEN MergeTrailing(WithoutCovered(q1, q2), Front(q2),
                                             <<<< <<Last(q2)>> >>>> \o acc)
        ELSE IF b2 = <<>> THEN MergeTrailing(Front(q1), WithoutCovered(q2, q1),
                                             <<<< <<Last(q1)>> >>>> \o acc)
        ELSE IF b1 = <<"~">> /\ b2 = <<"~">> THEN Both(MergeFollowing(Last(q1), Last(q2)))
        ELSE IF b1 = <<"+">> /\ b2 = <<"~">> THEN Both(MergeNextAndFollowing(Last(q1), Last(q2)))
        ELSE IF b1 = <<"~">> /\ b2 = <<"+">> THEN Both(MergeNextAndFollowing(Last(q2), Last(q1)))
        ELSE IF b1 = <<">">> /\ b2 \in Siblings
             THEN MergeTrailing(q1, Front(q2), <<<< <<Last(q2)>> >>>> \o acc)
        ELSE IF b2 = <<">">> /\ b1 \in Siblings
             THEN MergeTrailing(Front(q1), q2, <<<< <<Last(q1)>> >>>> \o acc)
        ELSE IF u = NoCompound THEN None
        ELSE Both(<< <<Component(u, b1)>> >>)

LeadsAgree(l1, l2) == /\ Len(l1) <= 1 /\ Len(l2) <= 1
                      /\ l1 = <<>> \/ l2 = <<>> \/ l1 = l2
MergeLeading(l1, l2) == IF l1 = <<>> THEN l2 ELSE l1

\* runs of components up to one without a combinator
GroupSelectors(comps) ==
    LET ends == {i \in DOMAIN comps : comps[i].combs = <<>>} \cup
                    (IF comps = <<>> THEN {} ELSE {Len(comps)})
        at   == SetToSortSeq(ends, <)
    IN  [g \in 1..Cardinality(ends) |->
            SubSeq(comps, IF g = 1 THEN 1 ELSE at[g - 1] + 1, at[g])]

IsUnique(s) == s \in Ids \cup PseudoElements
UniquesOf(group) == {s \in UNION {Range(p.sel) : p \in Range(group)} : IsUnique(s)}
MustUnify(a, b) == UniquesOf(a) \cap UniquesOf(b) # {}

\* the longest common subsequence of m and n items, given what each pair shares, if
\* anything; the later match where two are as long
Longest(m, n, picked) ==
    LET len[i \in 0..m, j \in 0..n] ==
            IF i = 0 \/ j = 0 THEN 0
            ELSE IF picked[i, j] # <<>> THEN len[i - 1, j - 1] + 1
            ELSE Max({len[i, j - 1], len[i - 1, j]})
        back[i \in 0..m, j \in 0..n] ==
            IF i = 0 \/ j = 0 THEN <<>>
            ELSE IF picked[i, j] # <<>> THEN Append(back[i - 1, j - 1], picked[i, j])
            ELSE IF len[i, j - 1] > len[i - 1, j] THEN back[i, j - 1] ELSE back[i - 1, j]
    IN  back[m, n]

\* both orders of what two queues hold before the next group they share
Chunks(c1, c2) == IF c1 = <<>> /\ c2 = <<>> THEN <<>>
                  ELSE IF c1 = <<>> THEN <<c2>>
                  ELSE IF c2 = <<>> THEN <<c1>>
                  ELSE <<c1 \o c2, c2 \o c1>>
TakeUntil(q, group) ==
    Min({i \in DOMAIN q : IsParentSuperselector(q[i], group)} \cup {Len(q) + 1}) - 1
ChoiceOf(chunks) ==
    IF chunks = <<>> THEN <<>>
    ELSE <<[i \in DOMAIN chunks |-> FlattenSeq(chunks[i])]>>
\* one round of weaveParents' loop: up to the shared group, then past it
TakeGroup(acc, group, n1, n2) ==
    [g1 |-> SubSeq(acc.g1, n1 + 2, Len(acc.g1)),
     g2 |-> SubSeq(acc.g2, n2 + 2, Len(acc.g2)),
     choices |-> acc.choices
        \o ChoiceOf(Chunks(SubSeq(acc.g1, 1, n1), SubSeq(acc.g2, 1, n2)))
        \o << <<group>> >>]
ShareGroup(acc, group) ==
    TakeGroup(acc, group, TakeUntil(acc.g1, group), TakeUntil(acc.g2, group))

\* every way to pick one option per position, the first position varying fastest
Paths(choices) ==
    FoldLeft(LAMBDA paths, options :
                FlattenSeq([o \in DOMAIN options |->
                    [p \in DOMAIN paths |-> Append(paths[p], options[o])]]),
             << <<>> >>, choices)

RootishFirst(q) == q # <<>> /\ Range(Head(q).sel) \cap Rootish # {}
\* a component that can only come first is unified with the other's, or leads both
HoistRootish(q1, q2) ==
    LET u == UnifyCompound(Head(q1).sel, Head(q2).sel)
        Put(q, sel) == <<[Head(q) EXCEPT !.sel = sel]>> \o Tail(q)
    IN  IF RootishFirst(q1) /\ RootishFirst(q2)
        THEN IF u = NoCompound THEN None ELSE [q1 |-> Put(q1, u), q2 |-> Put(q2, u)]
        ELSE IF RootishFirst(q1) THEN [q1 |-> q1, q2 |-> <<Head(q1)>> \o q2]
        ELSE IF RootishFirst(q2) THEN [q1 |-> <<Head(q2)>> \o q1, q2 |-> q2]
        ELSE [q1 |-> q1, q2 |-> q2]

RECURSIVE UnifyComplex(_)

\* what a group of each side can share: the narrower, or what unifies them when they must
UnifiedGroup(unified) == IF Len(unified) = 1 THEN unified[1].comps ELSE <<>>
SharedGroup(a, b) ==
    IF a = b \/ IsParentSuperselector(b, a) THEN a
    ELSE IF IsParentSuperselector(a, b) THEN b
    ELSE IF MustUnify(a, b)
    THEN UnifiedGroup(UnifyComplex(<<Complex(<<>>, a), Complex(<<>>, b)>>))
    ELSE <<>>

\* a prefix and the parents of a base, in every order that keeps both; <<>> for nil
SharedGroups(g1, g2) ==
    Longest(Len(g2), Len(g1), [i \in DOMAIN g2, j \in DOMAIN g1 |-> SharedGroup(g2[i], g1[j])])
WeaveGroups(g1, g2) ==
    FoldLeft(ShareGroup, [g1 |-> g1, g2 |-> g2, choices |-> <<>>], SharedGroups(g1, g2))
LastChoice(w) == w.choices \o ChoiceOf(Chunks(w.g1, w.g2))
WeaveQueues(q, trailing) ==
    IF q = None THEN <<>>
    ELSE Paths(LastChoice(WeaveGroups(GroupSelectors(q.q1), GroupSelectors(q.q2))) \o trailing)
WeaveTrailing(trail) ==
    IF trail = None THEN <<>> ELSE WeaveQueues(HoistRootish(trail.q1, trail.q2), trail.choices)
Led(lead, paths) == [p \in DOMAIN paths |-> Complex(lead, FlattenSeq(paths[p]))]
WeaveParents(prefix, base) ==
    IF ~LeadsAgree(prefix.lead, base.lead) THEN <<>>
    ELSE Led(MergeLeading(prefix.lead, base.lead),
             SelectSeq(WeaveTrailing(MergeTrailing(prefix.comps, Front(base.comps), <<>>)),
                       LAMBDA p : p # <<>>))

EndedBy(woven, component) ==
    [w \in DOMAIN woven |-> Complex(woven[w].lead, Append(woven[w].comps, component))]
Weave(complexes) ==
    FoldLeft(LAMBDA prefixes, c :
                IF Len(c.comps) = 1
                THEN [p \in DOMAIN prefixes |-> Concatenate(prefixes[p], c)]
                ELSE FlattenSeq([p \in DOMAIN prefixes |->
                        EndedBy(WeaveParents(prefixes[p], c), Last(c.comps))]),
             <<Head(complexes)>>, Tail(complexes))

\* the bases unified, in front of them the parents woven; <<>> when they are disjoint
UnifyComplex(complexes) ==
    LET leads == {c.lead : c \in {c \in Range(complexes) : Len(c.comps) = 1}} \ {<<>>}
        tails == {Last(c.comps).combs : c \in Range(complexes)} \ {<<>>}
        One(set) == IF set = {} THEN <<>> ELSE CHOOSE combs \in set : TRUE
        sels  == [i \in DOMAIN complexes |-> Last(complexes[i].comps).sel]
        sel   == FoldLeft(LAMBDA u, c : IF u = NoCompound THEN u ELSE UnifyCompound(u, c),
                          Head(sels), Tail(sels))
        base  == Complex(One(leads), <<Component(sel, One(tails))>>)
        above == SelectSeq(complexes, LAMBDA c : Len(c.comps) > 1)
        parents == [i \in DOMAIN above |-> Complex(above[i].lead, Front(above[i].comps))]
    IN  IF Len(complexes) = 1 THEN complexes
        ELSE IF \/ \E c \in Range(complexes) : IsUseless(c)
                \/ Cardinality(leads) > 1 \/ Cardinality(tails) > 1
                \/ sel = NoCompound
             THEN <<>>
        ELSE IF parents = <<>> THEN <<base>>
        ELSE Weave(Append(Front(parents), Concatenate(Last(parents), base)))

(***************************************************************************)
(* What selectors mean.  A document is a sequence of elements, each with   *)
(* the number of its parent and of its previous sibling (0 for none) and   *)
(* the simple selectors it matches by itself.                              *)
(***************************************************************************)
RECURSIVE Above(_, _)
Above(doc, e) == IF doc[e].up = 0 THEN {} ELSE {doc[e].up} \cup Above(doc, doc[e].up)
RECURSIVE Before(_, _)
Before(doc, e) == IF doc[e].left = 0 THEN {} ELSE {doc[e].left} \cup Before(doc, doc[e].left)
Reached(doc, e, combs) == CASE combs = <<>>    -> Above(doc, e)
                            [] combs = <<">">> -> {doc[e].up} \ {0}
                            [] combs = <<"~">> -> Before(doc, e)
                            [] combs = <<"+">> -> {doc[e].left} \ {0}
MatchesCompound(doc, e, compound) ==
    \A s \in Range(compound) : s = Universal \/ s \in doc[e].own
RECURSIVE MatchesUpTo(_, _, _, _)
MatchesUpTo(doc, e, comps, n) ==
    /\ MatchesCompound(doc, e, comps[n].sel)
    /\ n > 1 => \E d \in Reached(doc, e, comps[n - 1].combs) : MatchesUpTo(doc, d, comps, n - 1)
MatchesComplex(doc, e, x) == MatchesUpTo(doc, e, x.comps, Len(x.comps))
MatchesList(doc, e, list) == \E i \in DOMAIN list : MatchesComplex(doc, e, list[i])

(* The documents a selector's own elements make up, each with or without a *)
(* further element where a combinator leaves room for one: what another    *)
(* selector covers in all of them it covers everywhere.                    *)
Element(up, left, own) == [up |-> up, left |-> left, own |-> own]
Extended(doc, combs, own, room) ==
    LET n == Len(doc)
        Sibling(d) == Append(d, Element(d[Len(d)].up, Len(d), own))
        Child(d)   == Append(d, Element(Len(d), 0, own))
        filler     == IF combs = <<"~">> THEN Append(doc, Element(doc[n].up, n, {}))
                                         ELSE Append(doc, Element(n, 0, {}))
    IN  CASE combs = <<">">> -> Child(doc)
          [] combs = <<"+">> -> Sibling(doc)
          [] combs = <<"~">> -> IF room THEN Sibling(filler) ELSE Sibling(doc)
          [] combs = <<>>    -> IF room THEN Child(filler) ELSE Child(doc)
Own(compound) == Range(compound) \ {Universal}
Instance(x, rooms) ==
    FoldLeft(LAMBDA doc, i : Extended(doc, x.comps[i].combs, Own(x.comps[i + 1].sel), rooms[i]),
             <<Element(0, 0, Own(x.comps[1].sel))>>, [i \in 1..Len(x.comps) - 1 |-> i])
Instances(x) == {Instance(x, rooms) : rooms \in [1..Len(x.comps) - 1 -> BOOLEAN]}
Covers(x, y) == \A doc \in Instances(y) : MatchesComplex(doc, Len(doc), x)
=============================================================================
