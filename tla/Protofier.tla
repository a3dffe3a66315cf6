------------------------------- MODULE Protofier -------------------------------
(***************************************************************************)
(* Values on their way to a function of the host and back                  *)
(* (embedded/protofier.go, opaque_registry.go).  Functions and mixins      *)
(* travel as IDs that hold for the compilation, argument lists as IDs that *)
(* hold for the call; all else travels as data.                            *)
(*                                                                         *)
(* A Protofier p has the elements of the two registries and the argument   *)
(* lists of its call.  An object's ref tells it from every other: what is  *)
(* made from a response is told by its place there.  A host may list a     *)
(* map's entries and an argument list's keywords in any order, and the     *)
(* code ranges over Go maps of them: deprotofy is a set.  Left out:        *)
(* colours, invalid signatures and fields the host did not set.            *)
(***************************************************************************)
EXTENDS Calculation

Function(ref, callable) == [kind |-> "function", ref |-> ref, callable |-> callable]
Mixin(ref, callable)    == [kind |-> "mixin", ref |-> ref, callable |-> callable]
String(text, quoted)    == [kind |-> "string", text |-> text, quoted |-> quoted]
Singleton(value)        == [kind |-> "singleton", value |-> value]
List(contents, separator, brackets) ==
    [kind |-> "list", contents |-> contents, separator |-> separator, brackets |-> brackets]
ArgumentList(ref, contents, keywords, separator) ==
    [kind |-> "argumentList", ref |-> ref, contents |-> contents, keywords |-> keywords,
     separator |-> separator]
SassMap(entries) == [kind |-> "map", entries |-> entries]
-----------------------------------------------------------------------------
(* The registry of opaque IDs, which count from zero                       *)

Registered(element, elements) ==
    IF element \in ToSet(elements) THEN elements ELSE Append(elements, element)
GetID(element, elements) == (CHOOSE i \in DOMAIN elements : elements[i] = element) - 1
Get(id, elements) == IF id < Len(elements) THEN elements[id + 1] ELSE Error

(* Mutant: the registries are the call's, like its argument lists. *)
NewProtofierForgets(functions, mixins) ==
    [functions |-> <<>>, mixins |-> <<>>, argumentLists |-> <<>>]

NewProtofier(functions, mixins) ==
    [functions |-> functions, mixins |-> mixins, argumentLists |-> <<>>]
-----------------------------------------------------------------------------
(* To the host                                                             *)

\* what a value holds, in the order it is walked
Contained(v) ==
    CASE v.kind = "list" -> v.contents
      [] v.kind = "argumentList" -> v.contents \o [i \in DOMAIN v.keywords |-> v.keywords[i][2]]
      [] v.kind = "map" -> FlattenSeq(v.entries)
      [] OTHER -> <<>>
\* an argument list takes its ID before what it holds, as functions and mixins do
Entered(v, p) ==
    CASE v.kind = "argumentList" -> [p EXCEPT !.argumentLists = Append(@, v)]
      [] v.kind = "function" -> [p EXCEPT !.functions = Registered(v, @)]
      [] v.kind = "mixin" -> [p EXCEPT !.mixins = Registered(v, @)]
      [] OTHER -> p
Pairs(values) == [i \in 1..(Len(values) \div 2) |-> SubSeq(values, 2 * i - 1, 2 * i)]

\* the message, given those of what is held; scalars are written out field by field
Message(v, p, wires) ==
    CASE v.kind = "list" -> [v EXCEPT !.contents = wires]
      [] v.kind = "argumentList" ->
            [kind |-> "argumentList", id |-> Len(p.argumentLists), separator |-> v.separator,
             contents |-> SubSeq(wires, 1, Len(v.contents)),
             keywords |-> {<<v.keywords[i][1], wires[Len(v.contents) + i]>> : i \in DOMAIN v.keywords}]
      [] v.kind = "map" -> SassMap(Pairs(wires))
      [] v.kind = "function" -> [kind |-> "compilerFunction", id |-> GetID(v, p.functions)]
      [] v.kind = "mixin" -> [kind |-> "compilerMixin", id |-> GetID(v, p.mixins)]
      [] OTHER -> v
Written(v, p, held) == [p |-> held.p, wire |-> Message(v, p, held.wires)]

RECURSIVE Protofy(_, _)
Sent(sofar, r) == [p |-> r.p, wires |-> Append(sofar.wires, r.wire)]
protofyValues(values, p) ==
    FoldLeft(LAMBDA sofar, v : Sent(sofar, Protofy(v, sofar.p)), [p |-> p, wires |-> <<>>], values)
ProtofyInto(v, p) == Written(v, p, protofyValues(Contained(v), p))
Protofy(v, p) == ProtofyInto(v, Entered(v, p))
-----------------------------------------------------------------------------
(* From the host                                                           *)

AnyError(values) == \E i \in DOMAIN values : values[i].kind = "error"

CalculationOf(name, args) ==
    LET Arity == CASE name = "calc"  -> {1}
                   [] name = "clamp" -> 1..3
                   [] name \in {"min", "max"} -> 1..Len(args)
                   [] OTHER -> {}
    IN  IF Len(args) \notin Arity THEN Error ELSE Called(name, args)
CalculationValue(w, args) ==
    CASE AnyError(args) -> Error
      [] w.kind = "calculation"   -> CalculationOf(w.name, args)
      [] w.kind = "operation"     -> Operate(w.op, args[1], args[2])
      [] w.kind = "number"        -> SassNumberWithUnits(w.n, w.d, w.num, w.den)
      [] w.kind = "string"        -> Text(w.text)
      [] w.kind = "interpolation" -> Parenthesized(w.text)
RECURSIVE deprotofyCalculationValue(_)
Operands(w) == CASE w.kind = "calculation" -> w.args
                 [] w.kind = "operation"   -> <<w.left, w.right>>
                 [] OTHER -> <<>>
deprotofyCalculationValue(w) ==
    CalculationValue(w, FoldLeft(LAMBDA args, x : Append(args, deprotofyCalculationValue(x)),
                                 <<>>, Operands(w)))

argumentListForID(id, p) == IF id \in DOMAIN p.argumentLists THEN p.argumentLists[id] ELSE Error

\* a Go map tells its keys apart by their address: only shared objects are one key
OneObject(a, b) == a = b /\ \/ a.kind \in {"singleton", "function", "mixin", "argumentList"}
                            \/ a.kind = "string" /\ a.text = <<>>
ValueEquals(a, b) == CASE IsNumber(a) /\ IsNumber(b) -> Equals(a, b)
                       [] a.kind # b.kind   -> FALSE
                       [] a.kind = "string" -> a.text = b.text
                       [] a.kind \in {"function", "mixin"} -> a.callable = b.callable
                       [] OTHER -> a = b
\* of the entries that are one, the last; of those that are equal, the first it comes upon
NewSassMap(entries) ==
    LET contents == {i \in DOMAIN entries :
                        ~\E j \in DOMAIN entries : j > i /\ OneObject(entries[i][1], entries[j][1])}
        Added(map, i) == IF \E k \in DOMAIN map : ValueEquals(map[k][1], entries[i][1]) THEN map
                         ELSE Append(map, entries[i])
    IN  {SassMap(FoldLeft(Added, <<>>, order)) : order \in SetToSeqs(contents)}

TooLongToBeUndecided(w) == w.separator = "undecided" /\ Len(w.contents) > 1

\* what a message holds; the keywords come in any order
Holds(w) ==
    CASE w.kind = "list" -> w.contents
      [] w.kind = "argumentList" /\ w.id = 0 ->
            w.contents \o [i \in 1..Cardinality(w.keywords) |-> SetToSeq(w.keywords)[i][2]]
      [] w.kind = "map" -> FlattenSeq(w.entries)
      [] OTHER -> <<>>
KeywordsOf(w, values) ==
    SetToSeqs({<<SetToSeq(w.keywords)[i][1], values[Len(w.contents) + i]>> :
                  i \in 1..Cardinality(w.keywords)})
Decoded(w, p, place, values) ==
    CASE AnyError(values) -> {Error}
      [] w.kind \in {"string", "singleton"} -> {w}
      [] w.kind \in {"number", "calculation"} -> {deprotofyCalculationValue(w)}
      [] w.kind = "compilerFunction" -> {Get(w.id, p.functions)}
      [] w.kind = "compilerMixin" -> {Get(w.id, p.mixins)}
      [] w.kind = "hostFunction" -> {Function(place, place)}
      [] w.kind = "argumentList" /\ w.id # 0 -> {argumentListForID(w.id, p)}
      [] w.kind \in {"argumentList", "list"} /\ TooLongToBeUndecided(w) -> {Error}
      [] w.kind = "argumentList" -> {ArgumentList(place, SubSeq(values, 1, Len(w.contents)),
                                                  keywords, w.separator) : keywords \in KeywordsOf(w, values)}
      [] w.kind = "list" -> {[w EXCEPT !.contents = values]}
      [] w.kind = "map" -> NewSassMap(Pairs(values))

RECURSIVE deprotofy(_, _, _)
deprotofyValues(wires, p, place) ==
    FoldLeft(LAMBDA sofar, i : {Append(values, v) : values \in sofar,
                                                    v \in deprotofy(wires[i], p, Append(place, i))},
             {<<>>}, [i \in DOMAIN wires |-> i])
deprotofy(w, p, place) ==
    UNION {Decoded(w, p, place, values) : values \in deprotofyValues(Holds(w), p, place)}

\* the lists the host says it read, up to the first there is none of
DeprotofyResponse(read, success, p, place) ==
    LET unknown == {i \in DOMAIN read : read[i] \notin DOMAIN p.argumentLists}
        known   == IF unknown = {} THEN read ELSE SubSeq(read, 1, Min(unknown) - 1)
    IN  [accessed |-> {p.argumentLists[id].ref : id \in ToSet(known)},
         results  |-> IF unknown = {} THEN deprotofy(success, p, place) ELSE {Error}]
=============================================================================
