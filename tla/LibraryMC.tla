------------------------------- MODULE LibraryMC -------------------------------
(***************************************************************************)
(* The program's pure algorithms and small data structures, each called    *)
(* with every input of a small set, one call or operation a step, and what *)
(* they return against what it is meant to be.                             *)
(*                                                                         *)
(* topic says what is called, given holds the inputs so far, at what the   *)
(* component has kept of them.                                             *)
(***************************************************************************)
EXTENDS Varint, DeprecationLogger, SourceMap, Calculation

CONSTANTS MaxLength,     \* the maxLength of the VarintBuilder
          Ids, Types, PseudoClasses, Rootish, PseudoElements, Placeholders, Universal,
          Parent, SuffixNames

Media == INSTANCE MediaQuery
Nest  == INSTANCE Nesting
Paths == INSTANCE ImportPaths
Map   == INSTANCE LinkedHashMap
Args  == INSTANCE Arguments
Expr  == INSTANCE Expressions
Stmt  == INSTANCE Statements
Host  == INSTANCE Protofier

VARIABLES topic, given, at
vars == <<topic, given, at>>

Give(x) == given' = Append(given, x) /\ UNCHANGED topic
JustGive(x) == Give(x) /\ UNCHANGED at
UpTo(S, n) == UNION {[1..k -> S] : k \in 1..n}
-----------------------------------------------------------------------------
(* Varints: a builder is fed until it is done.                             *)

FeedVarint ==
    /\ topic = "varint" /\ ~at.done
    /\ \E b \in Byte : Give(b) /\ at' = Add(at, b, MaxLength)

\* the number little-endian digits denote
Denoted(s) == LET from[k \in 1..(Len(s) + 1)] ==
                    IF k > Len(s) THEN 0 ELSE (s[k] % Radix) + Radix * from[k + 1]
              IN  from[1]
WellFormed(s) == s # <<>> /\ \A k \in 1..Len(s) : Continues(s[k]) <=> k < Len(s)

(* The builder accepts exactly the well-formed varints of a number below    *)
(* 2^maxLength in as many bytes as such a number can need, and returns that *)
(* number: the last byte smuggles no bits past the limit.  It is done at    *)
(* the byte that ends the sequence or makes it too long, and at no other.   *)
AcceptsExactly ==
    topic = "varint" =>
        LET accepted == at.verdict = "value" IN
        /\ accepted <=> /\ WellFormed(given)
                        /\ Denoted(given) < 2^MaxLength
                        /\ (Len(given) - 1) * PayloadBits < MaxLength
        /\ accepted => at.value = Denoted(given)
        /\ at.done <=> WellFormed(given) \/ (given # <<>> /\ Len(given) * PayloadBits >= MaxLength)

(* EncodeVarint writes the shortest varint the builder reads back as the    *)
(* number it was given; a packet's compilation ID and message are read back *)
(* as they were written, and a packet that is no more than a piece of a     *)
(* varint is refused.                                                       *)
RoundTrip ==
    topic = "varint" =>
        /\ parsePacket(given, MaxLength).ok <=> at.verdict = "value"
        /\ at.verdict = "value" =>
             /\ WellFormed(EncodeVarint(at.value)) /\ Len(EncodeVarint(at.value)) <= Len(given)
             /\ Feed(EncodeVarint(at.value), MaxLength).value = at.value
             /\ \A message \in {<<>>, given} :
                  parsePacket(serializePacket(at.value, message), MaxLength)
                    = [ok |-> TRUE, id |-> at.value, message |-> message]

(* Both: a number is written in one way, and in no other way read.          *)
VarintsExact == AcceptsExactly /\ RoundTrip
-----------------------------------------------------------------------------
(* Media queries: every pair of those that can be written.                 *)

Features == {"color", "hover"}
Queries ==
    {q \in {Media!Query(m, t, c, f) : m \in {"", "only", "not"}, t \in {"", "all", "screen", "print"},
                                      c \in BOOLEAN, f \in {<<>>} \cup UpTo(Features, 2)} :
        /\ q.modifier # "" => q.type # ""
        /\ q.type = "" => q.conditions # <<>>
        /\ ~q.conj => q.type = "" /\ Len(q.conditions) > 1}
Devices == [type : {"screen", "print"}, features : SUBSET Features]

GiveQuery == topic = "media" /\ Len(given) < 2 /\ \E q \in Queries : JustGive(q)

(* A merged query matches the devices both of its parts match, and two      *)
(* queries merge to none only when no device matches both: an inner @media  *)
(* that leaves the outer one applies exactly where it would have within.    *)
(* Two negated queries are left out: see the README on Merge.               *)
MergeIsIntersection ==
    topic = "media" /\ Len(given) = 2 =>
        LET q == given[1]
            o == given[2]
            r == Media!Merge(q, o)
            Both(d) == Media!Matches(q, d) /\ Media!Matches(o, d)
        IN  ~(q.modifier = "not" /\ o.modifier = "not") =>
              /\ r.result = "query" => \A d \in Devices : Media!Matches(r.query, d) = Both(d)
              /\ r.result = "empty" => \A d \in Devices : ~Both(d)
-----------------------------------------------------------------------------
(* Selectors of up to three compounds, in pairs.                           *)

One(c)                == Nest!Complex(<<>>, <<Nest!Component(c, <<>>)>>)
Two(c, k, d)          == Nest!Complex(<<>>, <<Nest!Component(c, k), Nest!Component(d, <<>>)>>)
Three(c, k, d, l, e)  == Nest!Complex(<<>>, <<Nest!Component(c, k), Nest!Component(d, l),
                                              Nest!Component(e, <<>>)>>)
Combs == {<<>>, <<">">>, <<"+">>, <<"~">>}
Compounds == {<<"a">>, <<"a", "b">>, <<"b">>, <<"i">>, <<"e">>, <<"*">>}
Ancestors == {<<"a">>, <<"a", "b">>, <<"i">>}
Complexes ==
    {One(c) : c \in Compounds}
    \cup {Two(c, k, d) : c \in Ancestors, d \in Compounds, k \in Combs}
    \cup {Three(c, k, d, l, <<"c">>) : c \in Ancestors, d \in Ancestors, k \in Combs, l \in Combs}

GiveSelector == topic = "selector" /\ Len(given) < 2 /\ \E x \in Complexes : JustGive(x)

(* A selector said to be a superselector matches whatever the other does:   *)
(* @extend drops the other for it.                                          *)
SuperselectorCovers ==
    topic = "selector" /\ Len(given) = 2 =>
        (Nest!IsSuperselector(given[1], given[2]) => Nest!Covers(given[1], given[2]))

\* no sibling combinator follows another
Plain(x) == \A k \in 2..Len(x.comps) :
                ~ {x.comps[k - 1].combs, x.comps[k].combs} \subseteq {<<"+">>, <<"~">>}

(* What two selectors unify to is matched by elements of both alone, so     *)
(* that weaving gives an extender no more than the extended rule has.       *)
(* Chains of sibling combinators are left out: see the README.              *)
UnifiedWithinBoth ==
    topic = "selector" /\ Len(given) = 2 /\ Plain(given[1]) /\ Plain(given[2]) =>
        \A r \in {Nest!Unify(<<given[1]>>, <<given[2]>>)[i] :
                    i \in DOMAIN Nest!Unify(<<given[1]>>, <<given[2]>>)} :
            Nest!Covers(given[1], r) /\ Nest!Covers(given[2], r)

(* What @extend and @at-root go by when they compare and combine selectors. *)
SelectorsCompared == SuperselectorCovers /\ UnifiedWithinBoth
-----------------------------------------------------------------------------
(* Nesting: a list of selectors within a parent list.                      *)

P == <<Parent>>
Nested == {One(<<"c">>), Nest!Complex(<<">">>, <<Nest!Component(<<"c">>, <<>>)>>),
           One(<<Parent, "c">>), One(<<Parent \o "-s">>), One(P), One(<<"e", "c">>),
           Two(<<"b">>, <<>>, P), Two(P, <<"+">>, <<"c">>), Two(P, <<">">>, <<Parent, "c">>),
           Two(P, <<>>, P), Three(<<"b">>, <<">">>, P, <<>>, <<"c">>),
           Three(P, <<>>, <<"b">>, <<">">>, P)}
ParentLists == {<<One(<<"a">>)>>, <<One(<<"b", "a">>), One(<<"c">>)>>,
                <<Two(<<"b">>, <<>>, <<"a">>)>>, <<Two(<<"b">>, <<">">>, <<"a">>), One(<<"*">>)>>,
                <<One(<<"c">>), Two(<<"a">>, <<"+">>, <<"b">>)>>}

GiveParents == topic = "nesting" /\ given = <<>> /\ \E list \in ParentLists : JustGive(list)
GiveNested  == topic = "nesting" /\ Len(given) = 1 /\ \E list \in UpTo(Nested, 2) : JustGive(list)

Owns == {{}, {"a"}, {"b"}, {"c"}, {"a", "c"}, {"a-s"}, {"b-s", "ae"}, {"ae", "c"}}
Documents ==
    {<<Nest!Element(0, 0, o)>> : o \in Owns}
    \cup {<<Nest!Element(0, 0, p), Nest!Element(up, 1 - up, o)>> : p \in Owns, o \in Owns, up \in 0..1}
    \cup {<<Nest!Element(0, 0, p), Nest!Element(up, 1 - up, o), Nest!Element(2, 0, q)>> :
             p \in Owns, o \in Owns, q \in Owns, up \in 0..1}

\* what the nested list says, and when it can be told from what it becomes
Says(doc, list, parent) ==
    \E i \in DOMAIN list : LET x == Nest!Explicit(list[i]) IN
        Nest!MatchesNested(doc, Len(doc), x.comps, Len(x.comps), parent)
Later(list) == {c \in UNION {{<<Nest!Explicit(list[i]).comps, k>> :
                                 k \in 2..Len(Nest!Explicit(list[i]).comps)} : i \in DOMAIN list} :
                   Nest!IsParentSelector(Head(c[1][c[2]].sel))}
Single(parent) == \A i \in DOMAIN parent : Len(parent[i].comps) = 1
Agrees(result, list, parent) ==
    /\ (Single(parent) \/ \A c \in Later(list) : c[1][c[2] - 1].combs = <<>>) =>
         \A doc \in Documents \cup UNION {Nest!Instances(result[i]) : i \in DOMAIN result} :
            Nest!MatchesList(doc, Len(doc), result) => Says(doc, list, parent)
    /\ (Single(parent) \/ Later(list) = {}) =>
         \A doc \in Documents : Says(doc, list, parent) => Nest!MatchesList(doc, Len(doc), result)
    /\ result # <<>>

(* A nested list matches the elements "&" and its parents say it matches:   *)
(* what is written without "&" below a parent, a suffix in the name of the  *)
(* parent's last simple selector, and each pair of the lists.  Behind a "&" *)
(* with ancestors of its own, what becomes of it is not always the same:    *)
(* nothing more is matched below plain spaces, and nothing less when the    *)
(* "&" comes first.  append() of sass:selector means the same with "&"      *)
(* written before each compound.                                            *)
NestedMeansParent ==
    topic = "nesting" /\ Len(given) = 2 =>
        LET parent == given[1]
            list   == given[2]
            result == Nest!nestImpl(given)
            Without == \A i \in DOMAIN list : ~Nest!ContainsParentSelector(list[i])
            appended == Nest!appendImpl(given)
        IN  /\ result # Nest!NoResult => Agrees(result, list, parent)
            /\ Without /\ appended # Nest!NoResult =>
                 Agrees(appended, [i \in DOMAIN list |->
                            [list[i] EXCEPT !.comps[1].sel = Nest!prependParent(@)]], parent)

(* Compared, unified and nested, selectors match what their meaning says.   *)
SelectorsMean == SelectorsCompared /\ NestedMeansParent
-----------------------------------------------------------------------------
(* Calculations of up to two operators, and roundings.                     *)

Px(n)  == Number(n, 1, <<"px">>, <<>>)
Bare(n) == Number(n, 1, <<>>, <<>>)
Var    == Text(<<Token("var")>>)
Interpolated == Text(<<NumberToken(Number(2, 1, <<"em">>, <<>>)), Token("+"), NumberToken(Px(1))>>)
Atoms  == {Bare(2), Px(3), Number(-2, 1, <<"em">>, <<>>), Number(1, 1, <<"s">>, <<>>), Var,
           Call("calc", <<Interpolated>>)}
Few    == {Bare(2), Number(-2, 1, <<"em">>, <<>>), Var}
Over(S) == {Binary(op, x, y) : op \in Operators, x \in S, y \in S}
Calls(x, y) == {Call("min", <<x, y>>), Call("max", <<y, x, Px(3)>>), Call("calc", <<x>>),
                Call("clamp", <<Px(1), x, y>>), Paren(x)}
Roundings == [x : {Px(n) : n \in -7..7} \cup {Number(n, 2, <<"in">>, <<>>) : n \in -3..3},
              step : {Px(n) : n \in {-3, -2, 2, 3}} \cup {Number(1, 1, <<"in">>, <<>>)}]

GiveExpression ==
    /\ topic = "calculation" /\ given = <<>>
    /\ \E e \in Atoms \cup Over(Atoms) : JustGive(e)
GoOn ==
    /\ topic = "calculation" /\ Len(given) = 1
    /\ \E y \in Few \cup Over(Few) :
         \/ \E op \in Operators : JustGive(Binary(op, given[1], y))
         \/ \E e \in Calls(given[1], y) : JustGive(e)
GiveRounding == topic = "rounding" /\ given = <<>> /\ \E r \in Roundings : JustGive(r)

Environments == {[em |-> 5, var |-> Quantity(3, 1, 0, 0)], [em |-> 7, var |-> Quantity(7, 1, 1, 0)]}
Means(read, meant) == read.d # 0 /\ SameQuantity(read, meant)
Keeps(e, env, meant, result) ==
    meant.d # 0 => IF result.kind = "error" THEN MeetsComplexUnits(e)
                   ELSE Means(Reading(WriteCalculationValue(result), env), meant)
KeepsValue(e) ==
    \A env \in Environments : Keeps(e, env, Meaning(e, env), VisitCalculationExpression(e))

(* The multiples of a step next to x, in pixels by a common denominator.    *)
InPx(x) == QuantityOf(x, [em |-> 1, var |-> Undefined])
Halves(q) == (2 * q.n) \div q.d
AbsoluteOf(n) == IF n < 0 THEN -n ELSE n
RoundsWithin(x, step, lower, upper, rounded, modulo, rem) ==
    /\ rounded["up"] = upper /\ rounded["down"] = lower
    /\ rounded["nearest"] \in {lower, upper}
    /\ \A m \in {lower, upper} : AbsoluteOf(rounded["nearest"] - x) <= AbsoluteOf(m - x)
    /\ step > 0 => rounded["to-zero"] = IF x < 0 THEN upper ELSE lower
    /\ modulo = IF step > 0 THEN x - lower ELSE x - upper
    /\ rem = IF x < 0 THEN x - upper ELSE x - lower
RoundsTo(r) ==
    LET x     == Halves(InPx(r.x))
        step  == Halves(InPx(r.step))
        size  == AbsoluteOf(step)
        lower == size * (x \div size)
    IN  RoundsWithin(x, step, lower, IF lower = x THEN x ELSE lower + size,
            [s \in {"up", "down", "nearest", "to-zero"} |->
                Halves(InPx(RoundWithStep(s, r.x, r.step)))],
            Halves(InPx(Modulo(r.x, r.step))), Halves(InPx(NewRem(r.x, r.step))))

(* A calculation that means something is written as one that means the same *)
(* whatever an em and a var() turn out to be: simplifying it, turning its   *)
(* signs and leaving parentheses out change nothing, and nothing but a unit *)
(* CSS could not name makes it an error.  Rounding goes to the multiples of *)
(* its step that each strategy names, and mod() and rem() leave the rest.   *)
CalcKeepsValue ==
    /\ topic = "calculation" /\ given # <<>> => KeepsValue(Last(given))
    /\ topic = "rounding" /\ given # <<>> => RoundsTo(given[1])
-----------------------------------------------------------------------------
(* Numbers: up to two operations on one, the best of three, and decimals.  *)

Units   == {<<<<>>, <<>>>>, <<<<"px">>, <<>>>>, <<<<"in">>, <<>>>>, <<<<"s">>, <<>>>>, <<<<>>, <<"in">>>>,
            <<<<"px", "s">>, <<>>>>, <<<<"s">>, <<"in">>>>, <<<<"px", "in">>, <<>>>>}
Operands == {Number(n, 1, u[1], u[2]) : n \in {-3, 2}, u \in Units}
\* 1/200 is lost in what tells fractions apart, and gone again in other units
Close   == {Number(q[1], q[2], u, <<>>) : q \in {<<1, 1>>, <<201, 200>>, <<4, 1>>, <<804, 200>>},
                                         u \in {<<>>, <<"px">>, <<"in">>}}
             \cup {Number(1, 1, <<"s">>, <<>>)}

Result(op, x, y) == CASE op = "+" -> Plus(x, y)
                      [] op = "-" -> Minus(x, y)
                      [] op = "*" -> Times(x, y)
                      [] op = "/" -> DividedBy(x, y)
                      [] op = "%" -> Modulo(x, y)
NoEnvironment == [em |-> 1, var |-> Undefined]
Meant(x) == QuantityOf(x, NoEnvironment)
SameDimension(p, q) == p.len = q.len /\ p.time = q.time
Remainder(p, q) ==
    IF p.d = 0 \/ q.d = 0 \/ ~SameDimension(p, q) THEN Undefined
    ELSE Apply("-", p, Quantity(q.n * Floor(p.n * q.d, p.d * q.n), q.d, q.len, q.time))

GiveNumber ==
    /\ topic = "number" /\ given = <<>>
    /\ \E x \in Operands : Give(x) /\ at' = [result |-> x, meant |-> Meant(x)]
\* a sum of numbers with and without units has no meaning to keep
GiveOperation ==
    /\ topic = "number" /\ Len(given) \in 1..2 /\ IsNumber(at.result)
    /\ \E op \in Operators \cup {"%"}, y \in Operands :
         /\ op \in {"+", "-", "%"} => HasUnits(at.result) = HasUnits(y)
         /\ Give(<<op, y>>)
         /\ at' = [result |-> Result(op, at.result, y),
                   meant  |-> IF op = "%" THEN Remainder(at.meant, Meant(y))
                              ELSE Apply(op, at.meant, Meant(y))]
GiveThree == topic = "best" /\ given = <<>> /\ \E list \in [1..3 -> Close] : given' = list /\ UNCHANGED <<topic, at>>

Digits == {0, 4, 5, 9}
GiveDigits ==
    /\ topic = "decimal" /\ given = <<>>
    /\ \E neg \in BOOLEAN, digits \in UpTo(Digits, 5), exp \in {-4, -3, -2, -1, 1, 2, 3} :
         /\ digits[1] # 0 /\ Last(digits) # 0
         /\ JustGive([neg |-> neg, digits |-> digits, exp |-> exp])

SimplestForm(x) == ~\E i \in DOMAIN x.num, j \in DOMAIN x.den : Convertible(x.num[i], x.den[j])
ConvertsTo(x, y) ==
    LET there == ConvertToMatch(x, y)
    IN  IF ~SameDimension(Meant(x), Meant(y)) THEN there = Error
        ELSE /\ there.num = y.num /\ there.den = y.den
             /\ Equals(x, there) /\ HashCode(x) = HashCode(there)
             /\ SameQuantity(Meant(ConvertToMatch(there, x)), Meant(x))
AlikeOrNot(x, y) ==
    /\ SameQuantity(Meant(x), Meant(y)) => Equals(x, y)
    /\ Equals(x, y) => /\ SameDimension(Meant(x), Meant(y)) /\ Equals(y, x)
                       /\ HashCode(x) = HashCode(y)
    /\ ~(LessThan(x, y) /\ LessThan(y, x))
    /\ <<x.num, x.den>> = <<y.num, y.den>> /\ "px" \notin ToSet(x.num \o x.den) =>
         Cardinality({r \in 1..3 : <<LessThan(x, y), Equals(x, y), LessThan(y, x)>>[r]}) = 1

(* A number is what was computed whatever units it is held in: each          *)
(* operation keeps the quantity and leaves no two units that would cancel,   *)
(* and fails exactly when there is no quantity.  Equal quantities convert    *)
(* to each other and back, are equal and hash alike.  What is equal up to    *)
(* the last digits is neither more nor less, in the units equality goes by.  *)
QuantitiesKept ==
    topic = "number" /\ given # <<>> =>
        IF at.meant.d = 0 THEN at.result = Error
        ELSE /\ IsNumber(at.result) /\ SameQuantity(Meant(at.result), at.meant)
             /\ SimplestForm(at.result)
             /\ \A y \in Operands : ConvertsTo(at.result, y) /\ AlikeOrNot(at.result, y)

(* math.max, math.min and math.clamp give one of their arguments that none   *)
(* of the others exceeds, by the comparison they use, although that goes by  *)
(* the units of its left side; lengths and times have no best.               *)
BestStands ==
    topic = "best" /\ given # <<>> =>
        LET best    == maxFunction(given)
            least   == minFunction(given)
            clamped == clampFunction(given[1], given[2], given[3])
            Alike   == \A i \in 2..3 : Matched(given[1], given[i])
            Mixed   == \E i, j \in 1..3 : ~IsComparableTo(given[i], given[j])
        IN  /\ \A i, j \in 1..3 : AlikeOrNot(given[i], given[j])
            /\ Alike => /\ {best, least, clamped} \subseteq ToSet(given)
                        /\ \A i \in 1..3 : ~LessThan(best, given[i]) /\ ~GreaterThan(least, given[i])
                        /\ ~LessThan(clamped, given[1])
                        /\ LessThan(given[1], given[3]) => ~LessThan(given[3], clamped)
            /\ ~Alike => clamped = Error
            /\ Mixed /\ (\A i \in 1..3 : HasUnits(given[i])) => best = Error /\ least = Error

Unscaled(text) == FoldLeft(LAMBDA acc, k : 10 * acc + k, 0, text.int \o text.frac)
(* A number is written rounded to its last digit, half away from zero, with  *)
(* no sign of a zero, no zero after the last digit nor before the first, and *)
(* as the same number in either style.                                       *)
WrittenRounded ==
    topic = "decimal" /\ given # <<>> =>
        LET text == removeExponent(given[1].neg, given[1].digits, given[1].exp)
            exact == [n |-> Unscaled(text), d |-> 10^Len(text.frac)]
            Reads(written) ==
                /\ Len(written.frac) <= Precision
                /\ Unscaled(written) * 10^(Precision - Len(written.frac))
                      = RoundHalfAway(exact.n * 10^Precision, exact.d)
                /\ written.frac # <<>> => Last(written.frac) # 0
                /\ Len(written.int) > 1 => written.int[1] # 0
                /\ written.neg <=> text.neg /\ Unscaled(written) # 0
            digits == Decimal(FALSE, <<>>, given[1].digits)
        IN  /\ exact.n = Unscaled(digits)
                           * 10^(given[1].exp - (Len(digits.frac) - 1) + Len(text.frac))
            /\ Reads(WriteNumberTo(text, FALSE))
            /\ Reads(WriteNumberTo(text, TRUE))
            /\ WriteNumberTo(text, FALSE).int # <<>>

(* Numbers hold what was computed, compared and written, calculations too. *)
NumbersHold == CalcKeepsValue /\ QuantitiesKept /\ BestStands /\ WrittenRounded
-----------------------------------------------------------------------------
(* A compilation that calls a function of the host, and again with what it  *)
(* was answered.                                                            *)

OnePx  == Number(1, 1, <<"px">>, <<>>)
HalfPxPerS == Number(1, 2, <<"px">>, <<"s">>)
TwoOf  == Number(2, 1, <<>>, <<>>)
StringA == Host!String(<<Token("a")>>, TRUE)
EmptyString == Host!String(<<>>, FALSE)
TrueValue == Host!Singleton("true")
\* two references to one function, one to another
FirstRef  == Host!Function(<<0, 1>>, "f")
SecondRef == Host!Function(<<0, 2>>, "f")
OtherRef  == Host!Function(<<0, 3>>, "g")
AMixin    == Host!Mixin(<<0, 1>>, "m")
InnerArgs == Host!ArgumentList(<<0, 4>>, <<OnePx>>, <<<<"k", AMixin>>>>, "undecided")
OuterArgs == Host!ArgumentList(<<0, 5>>, <<OtherRef, InnerArgs>>,
                               <<<<"k", InnerArgs>>, <<"j", SecondRef>>>>, "comma")
SomeMap   == Host!SassMap(<<<<StringA, FirstRef>>, <<OnePx, InnerArgs>>, <<TrueValue, HalfPxPerS>>>>)
Variable  == Text(<<Token("var")>>)
SomeCalcs == {NewCalc(Operate(op, Variable, x)) : op \in {"+", "*"}, x \in {OnePx, Number(-1, 1, <<"em">>, <<>>)}}
               \cup {NewExtremum("min", <<OnePx, Variable>>), NewClamp(<<Variable>>), Node("round", <<OnePx>>)}

Values == {HalfPxPerS, EmptyString, FirstRef, AMixin, InnerArgs, OuterArgs, SomeMap,
           Host!List(<<>>, "undecided", TRUE), Host!List(<<SecondRef, SomeMap>>, "slash", FALSE)}
            \cup SomeCalcs
\* what a host may make: a value, one of no meaning, one that names what is not there
HostMade ==
    {Host!List(<<[kind |-> "hostFunction"], [kind |-> "hostFunction"]>>, sep, FALSE) : sep \in {"space", "undecided"}}
      \cup {[kind |-> "argumentList", id |-> 0, contents |-> <<OnePx>>, separator |-> "undecided",
             keywords |-> {<<"k", OnePx>>, <<"j", [kind |-> "hostFunction"]>>}],
            Host!SassMap(<<<<TrueValue, OnePx>>, <<StringA, OnePx>>, <<TrueValue, StringA>>,
                           <<Host!String(<<Token("a")>>, FALSE), HalfPxPerS>>>>),
            [kind |-> "compilerFunction", id |-> 2], [kind |-> "compilerMixin", id |-> 1],
            Node("calc", <<Operation("+", OnePx, Variable)>>), Node("calc", <<OnePx, OnePx>>), Node("hypot", <<OnePx>>),
            Node("max", <<OnePx, Operation("*", [kind |-> "interpolation",
                                                  text |-> <<NumberToken(OnePx), Token("+"), Token("var")>>], TwoOf)>>)}

\* the wires a value is on, itself and within it, each with what it stands for
Held(v, w) ==
    IF v.kind # "argumentList" THEN Host!Contained(w)
    ELSE w.contents \o [i \in DOMAIN v.keywords |-> (CHOOSE k \in w.keywords : k[1] = v.keywords[i][1])[2]]
RECURSIVE Wired(_, _)
WiredAll(values, wires) == UNION {Wired(values[i], wires[i]) : i \in DOMAIN values}
Wired(v, w) == {<<v, w>>} \cup WiredAll(Host!Contained(v), Held(v, w))

NewCompilation == [p |-> Host!NewProtofier(<<>>, <<>>), functions |-> <<>>, mixins |-> <<>>,
                   wired |-> {}, kept |-> {}, results |-> {}, accessed |-> {}]
CallHost ==
    /\ topic = "host" /\ Len(given) \in {0, 2}
    /\ \E args \in IF given = <<>> THEN UpTo(Values, 2)
                   ELSE {<<r>> : r \in at.results} \cup {<<OuterArgs, r>> : r \in at.results} :
         LET sent == Host!protofyValues(args, Host!NewProtofier(at.functions, at.mixins))
         IN  /\ ~Host!AnyError(args)
             /\ Give(args)
             /\ at' = [at EXCEPT !.p = sent.p, !.functions = sent.p.functions, !.mixins = sent.p.mixins,
                                 !.kept = {x \in at.wired : x[1].kind \in {"function", "mixin"}},
                                 !.wired = WiredAll(args, sent.wires)]
AnswerCall ==
    /\ topic = "host" /\ Len(given) = 1
    /\ \E read \in {<<>>, <<1>>, <<2, 1>>, <<3>>}, success \in HostMade \cup {x[2] : x \in at.wired} :
         LET answer == Host!DeprotofyResponse(read, success, at.p, <<Len(given)>>)
         IN  Give([read |-> read, success |-> success])
             /\ at' = [at EXCEPT !.results = answer.results, !.accessed = @ \cup answer.accessed]

\* but for the order of a map
RECURSIVE Unordered(_)
Unordered(v) ==
    CASE v.kind = "list" -> [v EXCEPT !.contents = [i \in DOMAIN @ |-> Unordered(@[i])]]
      [] v.kind = "map"  -> Host!SassMap({<<Unordered(e[1]), Unordered(e[2])>> : e \in ToSet(v.entries)})
      [] OTHER -> v
Unwelcome(v) == v.kind = "calculation" /\ v.name \notin {"calc", "clamp", "min", "max"}
ComesBack(v, w, back) ==
    IF \E x \in Wired(v, w) : Unwelcome(x[1]) THEN back = {Error}
    ELSE {Unordered(r) : r \in back} = {Unordered(v)}

RECURSIVE MeantOnWire(_, _)
MeantOnWire(w, env) ==
    CASE w.kind = "number" -> QuantityOf(w, env)
      [] w.kind \in {"string", "interpolation"} -> Reading(w.text, env)
      [] w.kind = "operation" -> Apply(w.op, MeantOnWire(w.left, env), MeantOnWire(w.right, env))
      [] w.kind = "calculation" ->
            ApplyCall(w.name, [i \in DOMAIN w.args |-> MeantOnWire(w.args[i], env)])
\* what a value says, against what the host made
RECURSIVE Conveys(_, _)
AllConvey(values, wires) == Len(values) = Len(wires) /\ \A i \in DOMAIN wires : Conveys(values[i], wires[i])
Conveys(v, w) ==
    CASE w.kind = "hostFunction" -> v.kind = "function" /\ Head(v.ref) # 0
      [] w.kind = "list" -> /\ v.kind = "list" /\ AllConvey(v.contents, w.contents)
                            /\ <<v.separator, v.brackets>> = <<w.separator, w.brackets>>
      [] w.kind = "argumentList" ->
            /\ v.kind = "argumentList" /\ AllConvey(v.contents, w.contents)
            /\ Len(v.keywords) = Cardinality(w.keywords)
            /\ \A k \in w.keywords : \E x \in ToSet(v.keywords) : x[1] = k[1] /\ Conveys(x[2], k[2])
      [] w.kind = "map" ->
            /\ v.kind = "map"
            /\ \A e \in ToSet(v.entries) : \E x \in ToSet(w.entries) : AllConvey(e, x)
            /\ \A x \in ToSet(w.entries) :
                 Cardinality({i \in DOMAIN v.entries : Host!ValueEquals(v.entries[i][1], x[1])}) = 1
      [] w.kind \in {"number", "string", "singleton"} -> v = w
      [] OTHER -> TRUE     \* an ID, see ComesBack, or a calculation, see MeansTheSame
MeansTheSame(v, w) ==
    \A env \in Environments :
       LET meant == MeantOnWire(w, env)
       IN  meant.d # 0 => Means(Reading(WriteCalculationValue(v), env), meant)
Refused(w) ==
    \/ w.kind = "list" /\ w.separator = "undecided" /\ Len(w.contents) > 1
    \/ w.kind = "compilerFunction" /\ \A x \in at.wired \cup at.kept : w # x[2]
    \/ w.kind = "compilerMixin" /\ \A x \in at.wired \cup at.kept : w # x[2]
    \/ w.kind = "calculation" /\ (Unwelcome(w) \/ (w.name = "calc" /\ Len(w.args) # 1))

(* Whatever of its arguments a host gives back, the compilation gets the     *)
(* value itself, wherever it was within them, but for the order of a map;    *)
(* functions and mixins also in a later call.  The argument lists marked as  *)
(* read are the very ones the host names.  What a host makes is what it      *)
(* says, each key of a map once, and an error where it says nothing.         *)
HostKeepsValues ==
    topic = "host" =>
        /\ Len(given) \in {1, 3} =>
              \A x \in at.wired \cup at.kept :
                 ComesBack(x[1], x[2], Host!deprotofy(x[2], at.p, <<9>>))
        /\ Len(given) = 2 =>
              LET ids     == ToSet(given[2].read)
                  lists   == {x \in at.wired : x[2].kind = "argumentList"}
                  known   == ids \subseteq {x[2].id : x \in lists}
                  success == given[2].success
              IN  /\ known => at.accessed = {x[1].ref : x \in {y \in lists : y[2].id \in ids}}
                  /\ ~known => at.results = {Error}
                  /\ known /\ success \in HostMade =>
                        IF Refused(success) THEN at.results = {Error}
                        ELSE \A r \in at.results :
                                /\ Conveys(r, success)
                                /\ success.kind = "calculation" => MeansTheSame(r, success)

(* "Entries preserve insertion order" (value/map.go), those a host gives too. *)
MapOrderKept ==
    topic = "host" => \A x \in at.wired : x[1].kind = "map" => Host!deprotofy(x[2], at.p, <<9>>) = {x[1]}
-----------------------------------------------------------------------------
(* A hash map: two spellings of one key, one key of the same hash, another. *)

MaxEdits == 5
Keys == {[class |-> 1, hash |-> 1, spelling |-> "a"], [class |-> 1, hash |-> 1, spelling |-> "A"],
         [class |-> 2, hash |-> 1, spelling |-> "b"], [class |-> 3, hash |-> 2, spelling |-> "c"]}

EditMap ==
    /\ topic = "map" /\ Len(given) < MaxEdits
    /\ \E k \in Keys :
         \/ Give([put |-> TRUE, key |-> k]) /\ at' = Map!Put(at, k, Len(given))
         \/ Give([put |-> FALSE, key |-> k]) /\ at' = Map!Delete(at, k)

\* a list of pairs after the edits
Listed == FoldLeft(LAMBDA list, i :
    LET edit == given[i]
        same(e) == e.key.class = edit.key.class
        held == {j \in DOMAIN list : same(list[j])}
    IN  IF ~edit.put THEN SelectSeq(list, LAMBDA e : ~same(e))
        ELSE IF held = {} THEN Append(list, [key |-> edit.key, value |-> i - 1])
        ELSE [list EXCEPT ![Max(held)].value = i - 1],
    <<>>, [i \in DOMAIN given |-> i])

(* The buckets and the links stay in step with each other and with a plain  *)
(* list of pairs: a walk from either end, a lookup and the length tell the  *)
(* same, a deleted entry is reached by none of them, no empty bucket stays, *)
(* and a copy has the same entries.                                         *)
MapInStep ==
    topic = "map" =>
        /\ Map!Entries(at) = Listed /\ at.len = Len(Listed)
        /\ Map!Walk(at, at.tail, "prev") = Reverse(Map!Walk(at, at.head, "next"))
        /\ \A k \in Keys : Map!Get(at, k) =
                [i \in 1..Len(SelectSeq(Listed, LAMBDA e : e.key.class = k.class)) |->
                    SelectSeq(Listed, LAMBDA e : e.key.class = k.class)[i].value]
        /\ \A h \in DOMAIN at.buckets : at.buckets[h] # <<>>
        /\ Map!Entries(Map!Copy(at)) = Listed
-----------------------------------------------------------------------------
(* A logger and what it is told.                                           *)

MaxSightings == 5
Deprecation(name, future, obsolete) ==
    [name |-> name, isFuture |-> future, isObsolete |-> obsolete, isUserAuthored |-> FALSE]
Deprecations == {Deprecation("active", FALSE, FALSE), Deprecation("future", TRUE, FALSE)}

MakeLogger ==
    /\ topic = "deprecation" /\ given = <<>>
    /\ \E s, f, u \in SUBSET Deprecations, limit \in BOOLEAN :
         /\ Give(<<s, f, u, limit>>)
         /\ at' = [logger |-> NewDeprecationProcessingLogger(s, f, u, limit), verdicts |-> <<>>]
Sight ==
    /\ topic = "deprecation" /\ given # <<>> /\ Len(given) <= MaxSightings
    /\ \E d \in Deprecations :
         LET h == handleDeprecation(at.logger, d) IN
         /\ Give(d)
         /\ at' = [logger |-> h.logger, verdicts |-> Append(at.verdicts, h.verdict)]

Verdicts(d, v) == {i \in DOMAIN at.verdicts : given[i + 1] = d /\ at.verdicts[i] = v}

(* With a limit each deprecation is shown MaxRepetitions times at the most, *)
(* one is omitted only when that many were shown before it, and Summarize   *)
(* counts just those omitted.  An option Validate does not warn about does  *)
(* what it says at every sighting.                                          *)
RepetitionsCounted ==
    topic = "deprecation" /\ given # <<>> =>
        LET l == at.logger
            Omitted == UNION {Verdicts(d, "omitted") : d \in Deprecations}
            All(d) == {i \in DOMAIN at.verdicts : given[i + 1] = d}
            Warned(option, d) == <<option, d>> \in Validate(l)
        IN  /\ l.limit => \A d \in Deprecations : Cardinality(Verdicts(d, "shown")) <= MaxRepetitions
            /\ \A d \in Deprecations : \A i \in Verdicts(d, "omitted") :
                   l.limit /\ Cardinality({j \in Verdicts(d, "shown") : j < i}) = MaxRepetitions
            /\ Summarize(l) = Cardinality(Omitted)
            /\ \A d \in l.fatal : Warned("fatal", d) \/ All(d) = Verdicts(d, "error")
            /\ \A d \in l.silence : \/ Warned("silence", d) \/ Warned("fatal", d)
                                    \/ All(d) = Verdicts(d, "dropped")
            /\ \A d \in l.future : Warned("future", d) \/ d \in l.silence
                                     \/ Verdicts(d, "dropped") = {}
-----------------------------------------------------------------------------
(* Loading foo with a load path d, before and after a file comes or goes.  *)

File(dir, partial, stem, import, ext) ==
    [dir |-> dir, partial |-> partial, stem |-> stem, import |-> import, ext |-> ext]
Files == {File(<<"d">>, p, "foo", i, e) : p \in BOOLEAN, i \in BOOLEAN, e \in {"sass", "scss", "css"}}
         \cup {File(<<"d", "foo">>, p, "index", FALSE, "scss") : p \in BOOLEAN}
Changes == {f \in Files : ~f.import /\ f.stem = "foo"}
Asked == [url : {File(<<>>, p, "foo", FALSE, e) : p \in BOOLEAN, e \in {"", "scss", "css"}},
          fromImport : BOOLEAN]

GiveFiles == topic = "paths" /\ given = <<>> /\ \E f, g \in Files : JustGive({f, g})
GiveChange == topic = "paths" /\ Len(given) = 1 /\ \E f \in Changes : JustGive(f)

(* When a file that comes or goes changes what a URL is resolved to, to     *)
(* another file, none, or an ambiguity, CouldCanonicalize says that the URL *)
(* could have meant that file: ClearCanonicalize drops the cached answer.   *)
(* Changes of an index or an .import file are left out: see the README.     *)
ClearReachesEveryChange ==
    topic = "paths" /\ Len(given) = 2 =>
        \A a \in Asked :
            LET With(fs) == Paths!Canonicalize(fs, <<"d">>, a.url, a.fromImport) IN
            With(given[1] \ {given[2]}) # With(given[1] \cup {given[2]})
                => Paths!CouldCanonicalize(a.url, given[2])
-----------------------------------------------------------------------------
(* CSS written with spans one in another.                                  *)

MaxWrites == 7
Source(file, line, col) == [file |-> file, line |-> line, col |-> col]
Sources == {Source(0, 0, 0), Source(0, 1, 2), Source(1, 3, 1)}

\* open: inSpan as it was before each span still open; mapped: the characters that need an entry
WriteCss ==
    /\ topic = "sourcemap" /\ Len(given) < MaxWrites
    /\ \/ \E s \in Sources : /\ Len(at.open) < 2 /\ Give("open")
                             /\ at' = [at EXCEPT !.buffer = OpenSpan(@, s),
                                                 !.open = Append(@, at.buffer.inSpan)]
       \/ /\ at.open # <<>> /\ Give("close")
          /\ at' = [at EXCEPT !.buffer = CloseSpan(@, Last(at.open)), !.open = Front(@)]
       \/ /\ Give("rune")
          /\ at' = [at EXCEPT !.buffer = WriteRune(@),
                 !.mapped = IF at.buffer.inSpan /\ at.buffer.entries # <<>>
                            THEN @ \cup {<<at.buffer.line, at.buffer.col>>} ELSE @]
       \/ Give("newline") /\ at' = [at EXCEPT !.buffer = writeLine(@)]

Later2(e, f) == f.line > e.line \/ (f.line = e.line /\ f.col > e.col)

\* the entries the segments of each line stand for
Decoded(lines) ==
    LET Four(s) == LET a == decodeVLQ(s, 1)      b == decodeVLQ(s, a.next)
                       c == decodeVLQ(s, b.next) d == decodeVLQ(s, c.next)
                   IN  <<a.value, b.value, c.value, d.value>>
        Segments == FlattenSeq([l \in DOMAIN lines |-> [k \in DOMAIN lines[l] |->
                        [line |-> l - 1, first |-> k = 1, fields |-> Four(lines[l][k])]]])
        Next1(e, s) == Entry(s.line, s.fields[1] + (IF s.first THEN 0 ELSE e.col),
                          Source(e.source.file + s.fields[2], e.source.line + s.fields[3],
                                 e.source.col + s.fields[4]))
    IN  FoldLeft(LAMBDA acc, s : Append(acc,
                    Next1(IF acc = <<>> THEN Entry(0, 0, Source(0, 0, 0)) ELSE Last(acc), s)),
                 <<>>, Segments)

(* Each character of a span has an entry on its own line at or before it, a *)
(* target has one entry at the most and they come in order, and what the    *)
(* map is coded as, with or without a prefix, is read back as the entries.  *)
MapIsFaithful ==
    topic = "sourcemap" =>
        LET entries == at.buffer.entries IN
        /\ \A i \in 2..Len(entries) : Later2(entries[i - 1], entries[i])
        /\ \A c \in at.mapped : \E i \in DOMAIN entries :
               entries[i].line = c[1] /\ entries[i].col <= c[2]
        /\ \A lines \in 0..1, cols \in 0..1 :
               LET moved == WithPrefix(entries, lines, cols)
               IN  Decoded(encodeEntries(moved)) = moved
-----------------------------------------------------------------------------
(* Calls: what is called with which parameters, in one or two overloads.   *)

ParameterNames == <<"condition", "if-true">>
Parameter(name, hasDefault) ==
    [name |-> name, default |-> IF hasDefault THEN Args!Atom("default", TRUE) ELSE Args!Absent]
ParameterLists ==
    [parameters : {[i \in 1..n |-> Parameter(ParameterNames[i], d[i])] : n \in 0..2, d \in [1..2 -> BOOLEAN]},
     rest : {Args!NoName, "args"}]

ByName(names, how) == [n \in names |-> Args!Atom(how \o n, how = "spread ")]
Spreads == {Args!Absent, Args!Atom("r", TRUE), Args!List(<<>>, "undecided"),
            Args!List(<<Args!Atom("r", TRUE), Args!Atom("s", FALSE)>>, "space"),
            Args!ArgumentListOf(<<Args!Atom("r", FALSE)>>, ByName({"if-true", "x"}, "kept "), "slash"),
            Args!MapOf(ByName({"condition", "if-false"}, "spread "), TRUE), Args!MapOf(<<>>, FALSE)}
KeywordSpreads == {Args!Absent, Args!Atom("r", FALSE), Args!MapOf(ByName({"if-true", "x"}, "last "), TRUE)}
CallsWritten ==
    {[positional |-> SubSeq(<<first, Args!Atom("q", TRUE), Args!Atom("o", FALSE)>>, 1, n),
      named |-> ByName(names, "named "), rest |-> rest, keywordRest |-> keywordRest] :
        first \in {Args!Atom("p", TRUE), Args!Atom("null", FALSE)}, n \in 0..3,
        names \in SUBSET {"condition", "if-true", "if-false"},
        rest \in Spreads, keywordRest \in KeywordSpreads}
CallsMade == {c \in CallsWritten : c.rest = Args!Absent => c.keywordRest = Args!Absent}

GiveCall       == topic = "call" /\ given = <<>> /\ \E c \in CallsMade : JustGive(c)
GiveParameters == topic = "call" /\ Len(given) = 1 /\ \E p \in ParameterLists : JustGive(p)
GiveOverload   == /\ topic = "call" /\ Len(given) = 2 /\ given[1].rest = Args!Absent
                  /\ \E p \in ParameterLists : JustGive(p)

\* what the caller sends: values in order, and by name the one said last
SentItems(c) == c.positional \o (CASE c.rest.kind \in {"list", "arguments"} -> c.rest.items
                                   [] c.rest.kind = "atom" -> <<c.rest>>
                                   [] OTHER -> <<>>)
SentNamed(c) == LET last  == IF c.keywordRest.kind = "map" THEN c.keywordRest.entries ELSE <<>>
                    later == CASE c.rest.kind = "arguments" -> c.rest.keywords
                               [] c.rest.kind = "map" -> c.rest.entries
                               [] OTHER -> <<>>
                IN  last @@ later @@ c.named

\* each parameter has one value, and each value somewhere to go
Placed(c, p, read) ==
    LET n       == Len(SentItems(c))
        Spare   == DOMAIN SentNamed(c) \ Args!Names(p)
        Named(i) == p.parameters[i].name \in DOMAIN SentNamed(c)
    IN  /\ ~Args!BadSpread(c)
        /\ \A i \in DOMAIN p.parameters :
               IF Named(i) THEN i > n ELSE i <= n \/ p.parameters[i].default # Args!Absent
        /\ IF p.rest = Args!NoName THEN n <= Len(p.parameters) /\ Spare = {} ELSE read \/ Spare = {}

\* all that was sent and the defaults of the rest, in their places, quotients instead of a/b
Delivered(c, p, locals) ==
    LET n    == Len(p.parameters)
        item == SentItems(c)
        name == SentNamed(c)
        Spare == DOMAIN name \ Args!Names(p)
        Same(v, w) == v.name = w.name /\ ~v.slash
    IN  /\ \A i \in 1..n : LET there == locals[p.parameters[i].name] IN
               Same(there, IF i <= Len(item) THEN item[i]
                         ELSE IF p.parameters[i].name \in DOMAIN name THEN name[p.parameters[i].name]
                         ELSE p.parameters[i].default)
        /\ p.rest # Args!NoName =>
               /\ Len(locals[p.rest].items) = IF Len(item) > n THEN Len(item) - n ELSE 0
               /\ \A k \in DOMAIN locals[p.rest].items : Same(locals[p.rest].items[k], item[n + k])
               /\ DOMAIN locals[p.rest].keywords = Spare
               /\ \A x \in Spare : Same(locals[p.rest].keywords[x], name[x])

\* @mixin g($args...) { @include f($args...); }
OnlyRest    == [parameters |-> <<>>, rest |-> "args"]
Passed(c)   == Args!runUserDefinedCallable(OnlyRest, c, TRUE).locals["args"]
Forward(c)  == [positional |-> <<>>, named |-> <<>>, rest |-> Passed(c), keywordRest |-> Args!Absent]

CallArrives(c, p, read) ==
    LET run     == Args!runUserDefinedCallable(p, c, read)
        builtIn == Args!runBuiltInCallable(<<p>>, c, read)
    IN  /\ run.status = "ok" <=> Placed(c, p, read)
        /\ run.status = "ok" => Delivered(c, p, run.locals)
        /\ ~Args!BadSpread(c) => Args!runUserDefinedCallable(p, Forward(c), read) = run
        /\ builtIn.status = run.status
        /\ run.status = "ok" => builtIn.arguments =
               [i \in 1..Len(p.parameters) |-> run.locals[p.parameters[i].name]]
                   \o (IF p.rest = Args!NoName THEN <<>> ELSE <<run.locals[p.rest]>>)
OverloadFits(c, p, q) ==
    LET both == Args!runBuiltInCallable(<<p, q>>, c, TRUE) IN
    IF Placed(c, p, TRUE) \/ Placed(c, q, TRUE)
    THEN both.status = "ok" /\ both.overload = IF Placed(c, p, TRUE) THEN 1 ELSE 2
    ELSE both.status # "ok"
IfChooses(c) ==
    LET chosen == Args!VisitLegacyIfExpression(c)
        run    == Args!runUserDefinedCallable(Args!LegacyIfDeclaration, c, FALSE)
    IN  /\ chosen.status = run.status
        /\ run.status = "ok" =>
             chosen.value = run.locals[IF run.locals["condition"].name = "null" THEN "if-false" ELSE "if-true"]

(* Each argument of a call, written out or spread from a list, an argument  *)
(* list or a map, arrives once, under its parameter or in the rest, and a   *)
(* call is refused exactly when one has no place or a parameter no value.   *)
(* A callable that only hands on its $args... changes nothing, built-in and *)
(* user-defined callables agree, of two overloads the first that fits runs, *)
(* and the lazy if() is the function it looks like.                         *)
ArgumentsArrive ==
    topic = "call" =>
        /\ Len(given) = 1 => IfChooses(given[1])
        /\ Len(given) = 2 => \A read \in BOOLEAN : CallArrives(given[1], given[2], read)
        /\ Len(given) = 3 => OverloadFits(given[1], given[2], given[3])
-----------------------------------------------------------------------------
(* Expressions: every sequence of tokens that parses so far.               *)

MaxTokens == 6
TokensGiven == {"1", "$", "f(", "(", ")", "[", "]", ",", ":", "+", "*", "/", "==", " -"}
Complete(p, tokens) == ~Expr!Broken(p) /\ p.at = Len(tokens) + 1

\* on as far as it is read to its end, or a parser waits there for what may come
GiveToken ==
    /\ topic = "expression" /\ Len(given) < MaxTokens
    /\ \E t \in TokensGiven : \E parsed \in {Expr!Expression(Append(given, t))} :
         /\ IF Len(given) + 1 = MaxTokens THEN Complete(parsed, Append(given, t)) ELSE parsed.at > Len(given) + 1
         /\ Give(t) /\ at' = parsed

\* the parts of an expression, and its tokens in order
Parts(t) == CASE t.kind \in {"number", "other"} -> <<>>
              [] t.kind = "binary" -> <<t.left, t.right>>
              [] t.kind = "unary"  -> <<t.operand>>
              [] t.kind = "paren"  -> <<t.expression>>
              [] t.kind = "call"   -> t.arguments
              [] t.kind = "list"   -> t.items
              [] t.kind = "map"    -> FlattenSeq(t.pairs)
RECURSIVE Words(_)
WordsOf(ts, between(_)) ==
    FlattenSeq([i \in DOMAIN ts |-> Words(ts[i]) \o IF i < Len(ts) THEN between(i) ELSE <<>>])
Words(t) ==
    LET ByCommas == WordsOf(Parts(t), LAMBDA i : <<",">>)
        Items    == IF t.separator = "comma" THEN ByCommas ELSE WordsOf(t.items, LAMBDA i : <<>>)
    IN  CASE t.kind = "number" -> <<"1">>
          [] t.kind = "other"  -> <<"$">>
          [] t.kind = "binary" -> Words(t.left) \o <<t.op>> \o Words(t.right)
          [] t.kind = "unary"  -> <<t.op>> \o Words(t.operand)
          [] t.kind = "paren"  -> <<"(">> \o Words(t.expression) \o <<")">>
          [] t.kind = "call"   -> <<"f(">> \o ByCommas \o <<")">>
          [] t.kind = "map"    -> <<"(">> \o WordsOf(Parts(t), LAMBDA i : <<IF i % 2 = 1 THEN ":" ELSE ",">>) \o <<")">>
          [] t.kind = "list"   -> IF t.brackets THEN <<"[">> \o Items \o <<"]">>
                                  ELSE IF t.items = <<>> THEN <<"(", ")">> ELSE Items
\* without commas that end a list, and the signs of numbers and names
Significant(tokens) ==
    LET after(i) == Expr!Token(tokens, i + 1)
        Kept(i)  == /\ ~(tokens[i] = "," /\ after(i) \in {")", "]", "end"})
                    /\ ~(tokens[i] = " -" /\ after(i) \in {"1", "f("})
    IN  FlattenSeq([i \in DOMAIN tokens |-> IF Kept(i) THEN <<tokens[i]>> ELSE <<>>])

BareList(t) == t.kind = "list" /\ ~t.brackets /\ t.items # <<>>
Tighter(t, op)  == t.kind = "binary" => Expr!Precedence(t.op) > Expr!Precedence(op)
AsTightly(t, op) == t.kind = "binary" => Expr!Precedence(t.op) >= Expr!Precedence(op)
RECURSIVE Grouped(_)
Grouped(t) ==
    /\ \A i \in DOMAIN Parts(t) : Grouped(Parts(t)[i])
    /\ t.kind = "binary" => /\ ~BareList(t.left) /\ AsTightly(t.left, t.op)
                            /\ ~BareList(t.right) /\ Tighter(t.right, t.op)
    /\ t.kind = "unary"  => ~BareList(t.operand) /\ t.operand.kind # "binary"
    /\ t.kind = "list"   => \A i \in DOMAIN t.items :
                               BareList(t.items[i]) => t.separator = "comma" /\ t.items[i].separator = "space"

\* quotients of nothing but numbers and calls
RECURSIVE OnlySlashes(_), Separates(_, _, _)
OnlySlashes(t) == \/ t.kind \in {"number", "call"}
                  \/ t.kind = "binary" /\ t.op = "/" /\ OnlySlashes(t.left) /\ OnlySlashes(t.right)
(* Of a chain of operators a / at the top separates exactly if it has none  *)
(* but /, numbers and calls, and is not in parentheses that hold no words.  *)
Separates(t, dividing, top) ==
    LET words  == t.kind = "list" /\ Len(t.items) > 1 /\ (t.separator = "space" \/ t.brackets)
        inside == t.kind \in {"paren", "map"} \/ (dividing /\ ~words)
    IN  /\ t.kind = "binary" /\ top => (t.slash <=> ~dividing /\ OnlySlashes(t))
        /\ \A i \in DOMAIN Parts(t) : Separates(Parts(t)[i], inside, t.kind # "binary")
\* no parentheses around a list that is not all there is in them
RECURSIVE HasList(_), PlainLists(_)
HasList(t) == \/ t.kind = "list" /\ Len(t.items) > 1
              \/ \E i \in DOMAIN Parts(t) : HasList(Parts(t)[i])
PlainLists(t) ==
    LET Alone(ts) == \A i \in DOMAIN ts : ~HasList(ts[i]) IN
    /\ \A i \in DOMAIN Parts(t) : PlainLists(Parts(t)[i])
    /\ t.kind = "map" => Alone(Parts(t))
    /\ t.kind = "paren" => Alone(IF BareList(t.expression) THEN t.expression.items ELSE <<t.expression>>)

(* An expression is made of its tokens, all of them and in order, grouped   *)
(* by precedence and to the left, however often the parser went back in     *)
(* them; and a / in it separates only where it is not part of another       *)
(* operation, nor in parentheses of its own.  Lists next to others within   *)
(* parentheses are left out of the last: see the README.                    *)
ParsedAsWritten ==
    topic = "expression" /\ given # <<>> =>
        (Complete(at, given) => /\ Words(at.expression) = Significant(given)
                                /\ Grouped(at.expression)
                                /\ PlainLists(at.expression) => Separates(at.expression, FALSE, TRUE))

(* "Rewind and reparse from the expression start so (1/2, 1) never divides  *)
(* its first element": what the comment on the comma in _expression says.   *)
CommaNeverDivides ==
    LET list == Expr!Expression(<<"(", "1", "/", "1", ",", "1", ")">>).expression.expression
    IN  topic = "expression" => list.items[1].slash

(* "A / of two slash-compatible operands outside parentheses stays a slash- *)
(* separated number", inside it divides: so it does in (f(1)/1), and should *)
(* in (f(1 1)/1).                                                           *)
ParenthesesDivide ==
    \A arguments \in {<<"1">>, <<"1", "1">>} :
        topic = "expression" =>
            ~Expr!Expression(<<"(", "f(">> \o arguments \o <<")", "/", "1", ")">>).expression.expression.slash
-----------------------------------------------------------------------------
(* Statements: every stylesheet of two lines, a third within or after a    *)
(* rule the second one opens or not indented as that one is, and a fourth  *)
(* within a loop among nested declarations.                                *)

Probes == {"@mixin", "@function", "@content", "@extend", "@import", "@use", "@else", "@return", "@each",
           "a: b", "a:b", "result: b", "m.$a: b"}
Synonyms == {"@for", "@while", "@error", "@warn", "@supports", "@-moz-document", "@at-root a", "@include using"}
StatementsGiven == Stmt!AtRules \cup {"$a: b", "m.$a: b", "a b", "a: b", "a:b", "a:", "a:b +", "--a: b", "result: b",
                                      "+m", "=m", "//", "/* */"}
StatementsNext ==
    CASE given = <<>>      -> StatementsGiven
      [] Len(given) = 1    -> StatementsGiven \ Synonyms
      [] Last(given).opens /\ Len(given) = 2 -> Probes
      [] Len(given) = 3    -> IF Last(given).opens /\ Last(given).statement = "@each" /\ "declaration" \in ToSet(at.read)
                              THEN {"a:b", "@content", "@extend", "--a: b"} ELSE {}
      [] OTHER             -> {"a b"}
\* an empty block has braces, and a deeper line is in the block the last one opens
Fits(l) ==
    LET above == IF given = <<>> THEN Stmt!Line(0, "spaces", "", at.syntax # "sass") ELSE Last(given) IN
    /\ l.by # "spaces" => l.indent > 0 /\ l.statement = "a b" /\ at.syntax = "sass"
    /\ l.opens => l.statement # "/* */" /\ (l.statement = "//" => at.syntax = "sass")
    /\ Len(given) >= 2 /\ l.statement # "a: b" => (l.opens <=> l.statement \in {"@mixin", "@function", "@else", "@each"})
    /\ IF given = <<>> THEN l.indent = 0 \/ (l.statement = "a b" /\ at.syntax = "sass")
       ELSE IF at.syntax = "sass"
            THEN (l.indent > above.indent <=> above.opens) /\ l.indent <= above.indent + (IF Len(given) = 1 THEN 2 ELSE 1)
       ELSE l.indent <= above.indent + (IF above.opens THEN 1 ELSE 0)

GiveLine ==
    /\ topic = "statements" /\ ~at.refused /\ Len(given) < 4
    /\ \E indent \in 0..3, by \in {"spaces", "tabs", "both"}, s \in StatementsNext, opens \in BOOLEAN :
         LET l == Stmt!Line(indent, by, s, opens) IN
         Fits(l) /\ Give(l) /\ at' = Stmt!Feed(at, l)

\* the lines a line is within, the rule these belong to, and the @if or @else before it
Around(n) == {j \in 1..(n - 1) : \A k \in (j + 1)..n : given[k].indent > given[j].indent}
InAny(n, rules) == \E j \in Around(n) : at.read[j] \in rules
Loops == {"each", "for", "while", "if", "else"}
Owner(n) == LET rules == {j \in Around(n) : at.read[j] \notin Loops}
            IN  IF rules = {} THEN "none" ELSE at.read[Max(rules)]
AfterIf(n) ==
    LET before == {j \in 1..(n - 1) : /\ given[j].indent <= given[n].indent
                                      /\ ~(at.syntax = "scss" /\ at.read[j] = "comment")}
    IN  before # {} /\ LET j == Max(before) IN
            /\ given[j].indent = given[n].indent
            /\ at.read[j] = "if" \/ (at.read[j] = "else" /\ given[j].statement = "@else if")

\* rules a statement may only stand in, and rules it may not
MayStand(n, s) ==
    LET Inside(rules) == InAny(n, rules) IN
    CASE s = "@content" -> Inside({"mixin"})
      [] s = "@extend"  -> Inside({"style rule", "mixin", "content block"})
      [] s \in {"@mixin", "=m", "@function"} -> ~Inside(Loops \cup {"mixin", "content block"})
      [] s = "@import"  -> ~Inside(Loops \cup {"mixin"})
      [] s \in {"@use", "@forward"} -> /\ Around(n) = {}
                                       /\ \A j \in 1..(n - 1) : at.read[j] \in {"use", "forward", "variable",
                                                                               "comment", "charset"}
      [] s \in {"@return", "@else", "@else if"} -> FALSE
      [] OTHER -> TRUE
RuleOf == [s \in {"@mixin", "=m"} |-> "mixin"] @@ [s \in {"@import", "@import url"} |-> "import"]
          @@ ("@content" :> "content" @@ "@extend" :> "extend" @@ "@function" :> "function" @@ "@use" :> "use"
              @@ "@forward" :> "forward" @@ "@each" :> "each" @@ "@for" :> "for" @@ "@while" :> "while" @@ "@if" :> "if"
              @@ "@debug" :> "debug" @@ "@error" :> "error" @@ "@warn" :> "warn" @@ "@media" :> "media"
              @@ "@supports" :> "supports" @@ "@-moz-document" :> "-moz-document" @@ "@at-root" :> "at-root"
              @@ "@at-root a" :> "style rule" @@ "@include using" :> "content block" @@ "@return" :> "return")
InPlainCss == {"@media", "@supports", "@-moz-document", "@import", "@import url"}
Forbidden  == (DOMAIN RuleOf \cup {"@include", "@function"}) \ (InPlainCss \cup {"@use", "@forward", "=m"})

AtRuleRead(n, s, opens) ==
    CASE s \in {"@include", "+m"} -> IF opens THEN "content block" ELSE "include"
      [] s \in DOMAIN RuleOf -> RuleOf[s]
      [] OTHER -> "unknown"
\* in a rule or a callable that holds declarations, or in any other place
PropertyRead(n, s, opens) ==
    LET indented == at.syntax = "sass"
        raw == s = "--a: b" \/ (s = "result: b" /\ InAny(n, {"unknown"}) /\
                 \E j \in Around(n) : given[j].statement = "@function --f" /\ at.read[j] = "unknown")
        property == s = "a: b" \/ s = "result: b" \/ (s = "a:" /\ opens) \/ (s = "a:b" /\ ~indented /\ ~opens)
    IN  CASE ~InAny(n, {"style rule", "unknown", "mixin", "content block"}) ->
                 IF s = "m.$a: b" /\ at.syntax # "css" THEN "variable" ELSE "style rule"
          [] raw -> "custom property"
          [] s = "m.$a: b" -> IF at.syntax = "css" THEN "refused" ELSE "variable"
          [] s = "a:" /\ ~opens -> "refused"
          [] property -> IF opens /\ at.syntax = "css" THEN "refused" ELSE "declaration"
          [] s = "a:b +" /\ ~indented /\ ~opens -> "nothing"
          [] OTHER -> "style rule"
ReadIn(n, s, opens) ==
    LET owner == Owner(n) IN
    CASE s = "/* */" -> "comment"
      [] s = "//" -> IF at.syntax = "css" THEN "refused" ELSE "comment"
      [] s = "$a: b" -> IF at.syntax = "css" THEN "refused" ELSE "variable"
      [] s \in {"@else", "@else if"} /\ AfterIf(n) -> "else"
      [] s = "@charset" /\ Around(n) = {} -> "charset"
      [] owner = "function" ->
             IF s \in Stmt!Controls \cup {"@return"} THEN RuleOf[s]
             ELSE IF s = "m.$a: b" THEN "variable" ELSE "refused"
      [] owner = "declaration" ->
             IF s \in Stmt!Controls \cup Stmt!Includes \cup {"@content"}
             THEN (IF MayStand(n, s) THEN AtRuleRead(n, s, opens) ELSE "refused")
             ELSE IF s \in {"a: b", "a:b", "result: b"} \/ (s = "a:" /\ opens) THEN "declaration"
             ELSE IF s = "m.$a: b" THEN "variable" ELSE "refused"
      [] at.syntax = "css" /\ s \in Stmt!AtRules ->
             IF s \in Forbidden THEN "refused" ELSE IF s \in InPlainCss THEN RuleOf[s] ELSE "unknown"
      [] s \in Stmt!AtRules \/ (at.syntax = "sass" /\ s \in {"+m", "=m"}) ->
             IF MayStand(n, s) THEN AtRuleRead(n, s, opens) ELSE "refused"
      [] s \in {"+m", "=m"} -> "style rule"
      [] OTHER -> PropertyRead(n, s, opens)

Blocks == Loops \cup {"style rule", "mixin", "content block", "function", "media", "supports", "-moz-document", "at-root"}
Indents(n) ==
    LET indented == {j \in 1..n : given[j].indent > 0}
        siblings == {j \in 1..(n - 1) : Around(j) = Around(n)}
        comment  == Owner(n) = "comment"
    IN  /\ \A j \in indented : given[j].by = given[Min(indented)].by /\ given[j].by # "both"
        /\ comment \/ \A j \in siblings : given[j].indent = given[n].indent
        /\ given[1].indent = 0
\* a block where there must be one, and none where there may not
Shaped(rule, l) ==
    IF at.syntax = "sass" THEN l.opens => rule \in Blocks \cup {"unknown", "declaration", "comment"}
    ELSE l.opens <=> rule \in Blocks \/ (l.opens /\ rule \in {"unknown", "declaration", "custom property"})

(* What a line is read as, and whether it is refused, follows from the      *)
(* lines it is within: each rule the parser entered, it also left, for all  *)
(* that follows and in each of the syntaxes.  @use and @forward come before *)
(* all rules, an @else after its @if.                                       *)
StatementsInPlace ==
    topic = "statements" /\ given # <<>> =>
        LET n    == Len(given)
            l    == given[n]
            raw  == Owner(n) \in {"comment", "custom property"}
            rule == IF raw THEN (IF Owner(n) = "comment" THEN "comment" ELSE "value")
                    ELSE ReadIn(n, l.statement, l.opens)
        IN  IF \/ at.syntax = "sass" /\ ~Indents(n)
               \/ rule = "refused" \/ (~raw /\ ~Shaped(rule, l))
            THEN at.refused ELSE ~at.refused /\ at.read[n] = rule

(* What is parsed is what was written: the tokens of an expression, and     *)
(* the lines of a stylesheet.                                               *)
SyntaxKept == ParsedAsWritten /\ StatementsInPlace

(* "A value followed by a semicolon (outside the indented syntax) is         *)
(* definitely a property, so re-raise in that case": what the comment in    *)
(* declarationOrBuffer says of a value that cannot be parsed.               *)
MalformedReported ==
    topic = "statements" => "nothing" \notin ToSet(at.read)
-----------------------------------------------------------------------------
Init ==
    /\ given = <<>>
    /\ \/ topic \in {"media", "selector", "nesting", "calculation", "rounding", "number", "best",
                     "decimal", "deprecation", "paths", "call",
                     "expression"}
          /\ at = <<>>
       \/ topic = "varint" /\ at = NewVarintBuilder
       \/ topic = "statements" /\ \E syntax \in {"scss", "sass", "css"} : at = Stmt!NewParser(syntax)
       \/ topic = "map" /\ at = Map!New
       \/ topic = "host" /\ at = NewCompilation
       \/ topic = "sourcemap" /\ at = [buffer |-> NewBuffer, open |-> <<>>, mapped |-> {}]

Next == \/ FeedVarint \/ GiveQuery \/ GiveSelector \/ GiveParents \/ GiveNested
        \/ GiveExpression \/ GoOn \/ GiveNumber \/ GiveOperation \/ GiveThree \/ GiveDigits
        \/ CallHost \/ AnswerCall \/ GiveRounding \/ EditMap \/ MakeLogger \/ Sight
        \/ GiveFiles \/ GiveChange \/ WriteCss
        \/ GiveCall \/ GiveParameters \/ GiveOverload \/ GiveToken \/ GiveLine

Spec == Init /\ [][Next]_vars
=============================================================================
