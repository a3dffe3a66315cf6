------------------------------- MODULE Arguments -------------------------------
(***************************************************************************)
(* How the arguments of a call reach the parameters of what is called:     *)
(* evaluateArguments, evaluateMacroArguments, verifyParameterList,         *)
(* bindArguments and runUserDefinedCallable (eval/evaluate_helpers.go),    *)
(* runBuiltInCallable (eval/evaluate_statement.go), the choice of an       *)
(* overload (functions/callable_built_in.go) and the old if().             *)
(*                                                                         *)
(* A call has arguments by position and by name, and may spread a value    *)
(* (rest) and a map (keywordRest) after them.  A parameter has a name and, *)
(* unless it is Absent, a default; rest is the name of the parameter that  *)
(* takes what is left, or NoName.                                          *)
(***************************************************************************)
EXTENDS Integers, Sequences, FiniteSets, FiniteSetsExt, SequencesExt, Functions, TLC

NoName == ""
Absent == [kind |-> "absent"]

\* values; a map's keys are names, unless one of them is no string
Atom(name, slash)              == [kind |-> "atom", name |-> name, slash |-> slash]
List(items, separator)         == [kind |-> "list", items |-> items, separator |-> separator]
ArgumentListOf(items, keywords, separator) ==
    [kind |-> "arguments", items |-> items, keywords |-> keywords, separator |-> separator]
MapOf(entries, stringKeys)     == [kind |-> "map", entries |-> entries, stringKeys |-> stringKeys]

\* a number written as a/b becomes the quotient
withoutSlash(v) == IF v.kind = "atom" THEN [v EXCEPT !.slash = FALSE] ELSE v
AllWithoutSlash(f) == [x \in DOMAIN f |-> withoutSlash(f[x])]

-----------------------------------------------------------------------------
(* Evaluating what the call says                                           *)

Spread(rest) ==
    CASE rest.kind = "absent"    -> [items |-> <<>>, keywords |-> <<>>, separator |-> "undecided"]
      [] rest.kind = "map"       -> [items |-> <<>>, keywords |-> rest.entries, separator |-> "undecided"]
      [] rest.kind = "arguments" -> rest
      [] rest.kind = "list"      -> [items |-> rest.items, keywords |-> <<>>, separator |-> rest.separator]
      [] rest.kind = "atom"      -> [items |-> <<rest>>, keywords |-> <<>>, separator |-> "undecided"]

BadMap(v) == v.kind = "map" /\ ~v.stringKeys
BadSpread(args) == \/ BadMap(args.rest)
                   \/ args.keywordRest.kind # "absent" /\ args.keywordRest.kind # "map"
                   \/ BadMap(args.keywordRest)
KeywordsOf(v) == IF v.kind = "map" THEN v.entries ELSE <<>>

(* Of two arguments of one name the one spread later stays.                 *)
evaluateArguments(args) ==
    LET spread == Spread(args.rest) IN
    [positional |-> AllWithoutSlash(args.positional \o spread.items),
     named      |-> AllWithoutSlash(KeywordsOf(args.keywordRest) @@ spread.keywords @@ args.named),
     separator  |-> spread.separator]

(* Only what is spread is evaluated; without rest nothing is.               *)
evaluateMacroArguments(args) ==
    LET spread == Spread(args.rest) IN
    IF args.rest = Absent THEN [positional |-> args.positional, named |-> args.named]
    ELSE [positional |-> args.positional \o AllWithoutSlash(spread.items),
          named |-> AllWithoutSlash(KeywordsOf(args.keywordRest)) @@ AllWithoutSlash(spread.keywords)
                      @@ args.named]

-----------------------------------------------------------------------------
(* Parameters                                                              *)

Names(params) == {params.parameters[i].name : i \in DOMAIN params.parameters}
NamedUsed(params, positional, names) ==
    {i \in DOMAIN params.parameters : i > positional /\ params.parameters[i].name \in names}

\* what is wrong with the i-th parameter
Fault(params, positional, names, i) ==
    LET param == params.parameters[i] IN
    IF i <= positional THEN IF param.name \in names THEN "twice" ELSE "ok"
    ELSE IF param.name \notin names /\ param.default = Absent THEN "missing" ELSE "ok"

verifyParameterList(params, positional, names) ==
    LET Faulty == {i \in DOMAIN params.parameters : Fault(params, positional, names, i) # "ok"} IN
    CASE Faulty # {} -> Fault(params, positional, names, Min(Faulty))
      [] Faulty = {} /\ params.rest # NoName -> "ok"
      [] OTHER -> IF positional > Len(params.parameters) THEN "too many"
                  ELSE IF Cardinality(NamedUsed(params, positional, names)) < Cardinality(names)
                  THEN "unknown" ELSE "ok"

matchesSignatureExact(params, positional, names) ==
    /\ \A i \in DOMAIN params.parameters : Fault(params, positional, names, i) = "ok"
    /\ \/ params.rest # NoName
       \/ /\ positional <= Len(params.parameters)
          /\ Cardinality(NamedUsed(params, positional, names)) >= Cardinality(names)

(* The first overload that fits, or else the nearest in number, of two as   *)
(* near the last one with no fewer parameters than arguments.               *)
callbackFor(overloads, positional, names) ==
    LET Fits     == {i \in DOMAIN overloads : matchesSignatureExact(overloads[i], positional, names)}
        Over(i)  == Len(overloads[i].parameters) - positional
        Near(i)  == IF Over(i) < 0 THEN -Over(i) ELSE Over(i)
        Nearer(best, i) == IF \/ Near(i) > Near(best)
                              \/ Near(i) = Near(best) /\ Over(i) < 0
                           THEN best ELSE i
    IN  IF Fits # {} THEN Min(Fits)
        ELSE FoldLeft(Nearer, 1, [i \in 1..Len(overloads) - 1 |-> i + 1])

-----------------------------------------------------------------------------
(* Binding                                                                 *)

\* the value of the i-th parameter, and the names the parameters leave
ValueFor(params, given, i) ==
    LET param == params.parameters[i] IN
    IF i <= Len(given.positional) THEN given.positional[i]
    ELSE IF param.name \in DOMAIN given.named THEN given.named[param.name]
    ELSE withoutSlash(param.default)

(* Mutant: a name that is used stays among the keywords. *)
LeftWithUsed(params, given) == given.named

Left(params, given) ==
    LET taken == {params.parameters[i].name : i \in Len(given.positional) + 1..Len(params.parameters)}
    IN  Restrict(given.named, DOMAIN given.named \ taken)

RestOf(params, given) ==
    ArgumentListOf(SubSeq(given.positional, Len(params.parameters) + 1, Len(given.positional)),
                   Left(params, given),
                   IF given.separator = "undecided" THEN "comma" ELSE given.separator)

bindArguments(params, given) ==
    LET locals == [name \in Names(params) |->
                      ValueFor(params, given,
                          CHOOSE i \in DOMAIN params.parameters : params.parameters[i].name = name)]
    IN  IF params.rest = NoName THEN locals ELSE (params.rest :> RestOf(params, given)) @@ locals

Fails(why)   == [status |-> why]
\* accessed: whether the body reads the keywords of its rest parameter
Unused(params, given, accessed) ==
    params.rest # NoName /\ DOMAIN Left(params, given) # {} /\ ~accessed

runUserDefinedCallable(params, args, accessed) ==
    LET given == evaluateArguments(args)
        fault == verifyParameterList(params, Len(given.positional), DOMAIN given.named)
    IN  IF BadSpread(args) THEN Fails("not a map of names")
        ELSE IF fault # "ok" THEN Fails(fault)
        ELSE IF Unused(params, given, accessed) THEN Fails("unknown")
        ELSE [status |-> "ok", locals |-> bindArguments(params, given)]

(* A built-in function gets its arguments in one list. *)
runBuiltInCallable(overloads, args, accessed) ==
    LET given  == evaluateArguments(args)
        chosen == callbackFor(overloads, Len(given.positional), DOMAIN given.named)
        params == overloads[chosen]
        fault  == verifyParameterList(params, Len(given.positional), DOMAIN given.named)
        filled == given.positional \o
                    [k \in 1..Len(params.parameters) - Len(given.positional) |->
                        ValueFor(params, given, k + Len(given.positional))]
    IN  IF BadSpread(args) THEN Fails("not a map of names")
        ELSE IF fault # "ok" THEN Fails(fault)
        ELSE IF Unused(params, given, accessed) THEN Fails("unknown")
        ELSE [status |-> "ok", overload |-> chosen,
              arguments |-> IF params.rest = NoName THEN filled
                            ELSE Append(SubSeq(filled, 1, Len(params.parameters)),
                                        RestOf(params, given))]

-----------------------------------------------------------------------------
(* if($condition, $if-true, $if-false), which evaluates one of the two.     *)

LegacyIfParameters == <<"condition", "if-true", "if-false">>
LegacyIfDeclaration ==
    [parameters |-> [i \in 1..3 |-> [name |-> LegacyIfParameters[i], default |-> Absent]],
     rest |-> NoName]
IsTruthy(v) == ~(v.kind = "atom" /\ v.name \in {"null", "false"})

VisitLegacyIfExpression(args) ==
    LET given    == evaluateMacroArguments(args)
        fault    == verifyParameterList(LegacyIfDeclaration, Len(given.positional), DOMAIN given.named)
        Branch(i) == IF Len(given.positional) >= i THEN given.positional[i]
                     ELSE given.named[LegacyIfParameters[i]]
    IN  IF BadSpread(args) THEN Fails("not a map of names")
        ELSE IF fault # "ok" THEN Fails(fault)
        ELSE [status |-> "ok",
              value |-> withoutSlash(IF IsTruthy(Branch(1)) THEN Branch(2) ELSE Branch(3))]
=============================================================================
