------------------------------ MODULE MediaQuery ------------------------------
(***************************************************************************)
(* value/css_media_query.go: media queries, their equality, and the merge  *)
(* that lets an inner @media leave an outer one.                           *)
(*                                                                         *)
(* A query has a modifier and a type, "" where absent, and conditions that *)
(* must all hold (conj) or of which one must.  Case folding is left out.   *)
(***************************************************************************)
EXTENDS Naturals, Sequences, FiniteSets, SequencesExt

Query(modifier, type, conj, conditions) ==
    [modifier |-> modifier, type |-> type, conj |-> conj, conditions |-> conditions]

MatchesAllTypes(q) == q.type \in {"", "all"}

AllContained(needles, haystack) == Range(needles) \subseteq Range(haystack)

Empty == [result |-> "empty"]
Unrepresentable == [result |-> "unrepresentable"]
Success(modifier, type, conditions) ==
    [result |-> "query", query |-> Query(modifier, type, TRUE, conditions)]

(* Mutant: the conditions are compared the wrong way round. *)
MergeMixedSwapped(negative, positive) ==
    IF negative.type = positive.type
    THEN IF AllContained(positive.conditions, negative.conditions)
         THEN Empty ELSE Unrepresentable
    ELSE IF MatchesAllTypes(negative) \/ MatchesAllTypes(positive)
         THEN Unrepresentable
         ELSE Success(positive.modifier, positive.type, positive.conditions)

\* one query is negated, the other is not
MergeMixed(negative, positive) ==
    IF negative.type = positive.type
    THEN IF AllContained(negative.conditions, positive.conditions)
         THEN Empty ELSE Unrepresentable
    ELSE IF MatchesAllTypes(negative) \/ MatchesAllTypes(positive)
         THEN Unrepresentable
         ELSE Success(positive.modifier, positive.type, positive.conditions)

\* both are: the longer conditions are kept, which is not the intersection
MergeNegated(q, o) ==
    LET longer  == IF Len(q.conditions) > Len(o.conditions) THEN q ELSE o
        shorter == IF longer = q THEN o ELSE q
    IN  IF q.type # o.type \/ ~AllContained(shorter.conditions, longer.conditions)
        THEN Unrepresentable
        ELSE Success("not", q.type, longer.conditions)

\* neither is
MergePositive(q, o) ==
    LET both == q.conditions \o o.conditions
    IN  IF MatchesAllTypes(q)
        THEN Success(o.modifier,
                     IF MatchesAllTypes(o) /\ q.type = "" THEN "" ELSE o.type, both)
        ELSE IF MatchesAllTypes(o) THEN Success(q.modifier, q.type, both)
        ELSE IF q.type # o.type THEN Empty
        ELSE Success(IF q.modifier # "" THEN q.modifier ELSE o.modifier, q.type, both)

Merge(q, o) ==
    LET qNot == q.modifier = "not"
        oNot == o.modifier = "not"
    IN  IF ~q.conj \/ ~o.conj THEN Unrepresentable
        ELSE IF q.type = "" /\ o.type = ""
             THEN Success("", "", q.conditions \o o.conditions)
        ELSE IF qNot # oNot
             THEN IF qNot THEN MergeMixed(q, o) ELSE MergeMixed(o, q)
        ELSE IF qNot THEN MergeNegated(q, o) ELSE MergePositive(q, o)

\* MediaQueriesEqual looks at everything but the conjunction
QueriesEqual(q, o) == [q EXCEPT !.conj = o.conj] = o

(***************************************************************************)
(* What a query, and a list of them, means: the devices it matches.        *)
(***************************************************************************)
Matches(q, device) ==
    LET holds == {c \in Range(q.conditions) : c \in device.features}
        base  == /\ MatchesAllTypes(q) \/ q.type = device.type
                 /\ IF q.conj THEN holds = Range(q.conditions) ELSE holds # {}
    IN  base # (q.modifier = "not")

AnyMatches(queries, device) == \E q \in Range(queries) : Matches(q, device)
===============================================================================
