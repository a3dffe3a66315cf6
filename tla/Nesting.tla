------------------------------- MODULE Nesting -------------------------------
(***************************************************************************)
(* Selectors nested in one another: NestWithin (value/selector_list.go),   *)
(* and the functions nest and append of sass:selector.                     *)
(*                                                                         *)
(* A parent selector is "&", or "&" and a suffix.  A list is a sequence of *)
(* complex selectors, never empty: TopLevel is no parent, NoResult none.     *)
(* Pseudo-classes with a selector argument are left out, and so are line   *)
(* breaks.                                                                 *)
(***************************************************************************)
EXTENDS Selectors

CONSTANTS Parent, SuffixNames

TopLevel == <<>>
NoResult == <<>>

ParentSelector(suffix) == Parent \o suffix
IsParentSelector(s) == \E suffix \in SuffixNames \cup {""} : s = ParentSelector(suffix)
SuffixOf(s) == CHOOSE suffix \in SuffixNames \cup {""} : s = ParentSelector(suffix)
Suffixable(s) == s # Universal /\ ~IsParentSelector(s)

ContainsParentSelector(x) ==
    \E i \in DOMAIN x.comps : \E s \in Range(x.comps[i].sel) : IsParentSelector(s)
HasSuffix(x) ==
    \E i \in DOMAIN x.comps : \E s \in Range(x.comps[i].sel) :
        IsParentSelector(s) /\ SuffixOf(s) # ""

(* Mutant: a suffix is dropped. *)
SplicedBare(x, component) ==
    Complex(x.lead, Append(Front(x.comps),
        Component(Last(x.comps).sel \o Tail(component.sel), component.combs)))

\* the k-th of each before the next of any
flattenVertically(nested) ==
    LET longest == IF nested = <<>> THEN 0 ELSE Max({Len(n) : n \in Range(nested)})
        Row(k)  == LET has == SelectSeq(nested, LAMBDA n : Len(n) >= k)
                   IN  [i \in DOMAIN has |-> has[i][k]]
    IN  FlattenSeq([k \in 1..longest |-> Row(k)])

\* a parent's last compound goes on with what follows the "&", its last simple with the suffix
Spliced(x, component) ==
    LET last   == Last(x.comps)
        suffix == SuffixOf(Head(component.sel))
        named  == IF suffix = "" THEN last.sel
                  ELSE Append(Front(last.sel), Last(last.sel) \o suffix)
    IN  Complex(x.lead, Append(Front(x.comps),
                               Component(named \o Tail(component.sel), component.combs)))
CannotSplice(x, component) ==
    \/ Last(x.comps).combs # <<>>
    \/ SuffixOf(Head(component.sel)) # "" /\ ~Suffixable(Last(Last(x.comps).sel))

CannotNest(x, parent) ==
    \E c \in Range(x.comps) : /\ IsParentSelector(Head(c.sel)) /\ c.sel # <<Parent>>
                             /\ \E p \in Range(parent) : CannotSplice(p, c)

\* what a component that starts with "&" stands for
nestWithinCompound(component, parent) ==
    [i \in DOMAIN parent |-> IF component.sel = <<Parent>>
                             THEN WithAdditionalCombinators(parent[i], component.combs)
                             ELSE Spliced(parent[i], component)]

\* the selectors resolved so far, each with each of what the component stands for
AddComponent(lead, done, component, parent) ==
    LET resolved == nestWithinCompound(component, parent)
    IN  IF ~IsParentSelector(Head(component.sel))
        THEN IF done = <<>> THEN <<Complex(lead, <<component>>)>>
             ELSE [i \in DOMAIN done |-> Complex(done[i].lead, Append(done[i].comps, component))]
        ELSE IF done = <<>>
        THEN [i \in DOMAIN resolved |-> [resolved[i] EXCEPT !.lead = lead \o @]]
        ELSE FlattenSeq([i \in DOMAIN done |->
                [j \in DOMAIN resolved |-> Concatenate(done[i], resolved[j])]])

nestWithinComplex(x, parent, implicitParent, preserve) ==
    IF preserve \/ ~ContainsParentSelector(x)
    THEN IF implicitParent THEN [i \in DOMAIN parent |-> Concatenate(parent[i], x)] ELSE <<x>>
    ELSE FoldLeft(LAMBDA done, component : AddComponent(x.lead, done, component, parent),
                  <<>>, x.comps)

\* at the top level a list stays as it is, unless it needs a parent for a suffix
NestWithin(list, parent, implicitParent, preserve) ==
    IF parent = TopLevel
    THEN IF ~preserve /\ \E x \in Range(list) : HasSuffix(x) THEN NoResult ELSE list
    ELSE IF ~preserve /\ \E x \in Range(list) : CannotNest(x, parent) THEN NoResult
    ELSE flattenVertically([i \in DOMAIN list |->
            nestWithinComplex(list[i], parent, implicitParent, preserve)])

\* "&" in front of a compound; a type selector's name becomes its suffix
prependParent(compound) ==
    IF Head(compound) \in Types THEN <<ParentSelector(Head(compound))>> \o Tail(compound)
    ELSE <<Parent>> \o compound
CannotAppend(x) == x.lead # <<>> \/ Head(Head(x.comps).sel) = Universal

\* the lists folded, an error staying one
FoldLists(start, op(_, _), lists) ==
    FoldLeft(LAMBDA result, list : IF result = NoResult THEN NoResult ELSE op(list, result),
             start, lists)
nestImpl(lists) ==
    FoldLists(NestWithin(Head(lists), TopLevel, TRUE, FALSE),
              LAMBDA list, parent : NestWithin(list, parent, TRUE, FALSE), Tail(lists))
appendImpl(lists) ==
    LET Prepended(x) == [x EXCEPT !.comps[1].sel = prependParent(@)]
        One(list, result) ==
            IF \E x \in Range(list) : CannotAppend(x) THEN NoResult
            ELSE NestWithin([i \in DOMAIN list |-> Prepended(list[i])], result, TRUE, FALSE)
    IN  FoldLists(Head(lists), One, Tail(lists))

\* every pair of the two lists unified
Unify(list, other) ==
    FlattenSeq([k \in 1..(Len(list) * Len(other)) |->
        UnifyComplex(<<list[((k - 1) \div Len(other)) + 1], other[((k - 1) % Len(other)) + 1]>>)])

(***************************************************************************)
(* What "&" means: the element its compound matches is one that a parent   *)
(* matches, with the suffix in the last simple selector's name.            *)
(***************************************************************************)
Renamed(x, suffix) ==
    LET last == Last(x.comps)
    IN  IF suffix = "" THEN x
        ELSE [x EXCEPT !.comps = Append(Front(@),
                [last EXCEPT !.sel = Append(Front(@), Last(@) \o suffix)])]
MatchesWithin(doc, e, compound, parent) ==
    \A s \in Range(compound) :
        IF IsParentSelector(s)
        THEN \E x \in Range(parent) : MatchesComplex(doc, e, Renamed(x, SuffixOf(s)))
        ELSE s = Universal \/ s \in doc[e].own
RECURSIVE MatchesNested(_, _, _, _, _)
MatchesNested(doc, e, comps, n, parent) ==
    /\ MatchesWithin(doc, e, comps[n].sel, parent)
    /\ n > 1 => \E d \in Reached(doc, e, comps[n - 1].combs) :
                    MatchesNested(doc, d, comps, n - 1, parent)

\* a selector without "&" stands below its parent
Explicit(x) == IF ContainsParentSelector(x) THEN x
               ELSE Complex(<<>>, <<Component(<<Parent>>, x.lead)>> \o x.comps)
=============================================================================
