--------------------------- MODULE DeprecationLogger ---------------------------
(***************************************************************************)
(* sasslogger/deprecation_processing.go: what becomes of each sighting of  *)
(* a deprecation.  A deprecation is a record of its flags; a logger holds  *)
(* the options it was made with and a count per deprecation.               *)
(***************************************************************************)
EXTENDS Naturals, FiniteSets, Folds, Functions

CONSTANT MaxRepetitions

ASSUME MaxRepetitionsNat == MaxRepetitions \in Nat

NewDeprecationProcessingLogger(silence, fatal, future, limit) ==
    [silence |-> silence, fatal |-> fatal, future |-> future, limit |-> limit,
     counts |-> <<>>]

Count(l, dep) == IF dep \in DOMAIN l.counts THEN l.counts[dep] ELSE 0

(* Mutant: the sighting at the limit is shown and counted as omitted. *)
AfterSightingEarly(l, dep) ==
    [l EXCEPT !.counts = [d \in DOMAIN @ \cup {dep} |->
        IF d = dep THEN Count(l, d) + (IF Count(l, d) + 1 = MaxRepetitions THEN 2 ELSE 1)
        ELSE @[d]]]

AfterSighting(l, dep) ==
    [l EXCEPT !.counts = [d \in DOMAIN @ \cup {dep} |->
        IF d = dep THEN Count(l, d) + 1 ELSE @[d]]]

\* the gates in their order, and the logger after them
handleDeprecation(l, dep) ==
    LET counted == AfterSighting(l, dep)
        As(verdict) == [logger |-> l, verdict |-> verdict]
    IN  IF dep.isFuture /\ dep \notin l.future THEN As("dropped")
        ELSE IF dep \in l.fatal THEN As("error")
        ELSE IF dep \in l.silence THEN As("dropped")
        ELSE IF ~l.limit THEN As("shown")
        ELSE [logger |-> counted,
              verdict |-> IF Count(counted, dep) > MaxRepetitions THEN "omitted" ELSE "shown"]

\* the deprecations Validate warns of, with the option it warns about
Validate(l) ==
    {<<"fatal", d>> : d \in {x \in l.fatal : \/ x.isFuture /\ x \notin l.future
                                             \/ x.isObsolete \/ x \in l.silence}}
    \cup {<<"silence", d>> : d \in {x \in l.silence : \/ x.isUserAuthored \/ x.isObsolete
                                                      \/ x.isFuture}}
    \cup {<<"future", d>> : d \in {x \in l.future : ~x.isFuture}}

\* how many warnings were omitted; nothing is said when there are none
Summarize(l) ==
    MapThenFoldSet(+, 0, LAMBDA d : l.counts[d] - MaxRepetitions,
                   LAMBDA s : CHOOSE d \in s : TRUE,
                   {d \in DOMAIN l.counts : l.counts[d] > MaxRepetitions})
=============================================================================
