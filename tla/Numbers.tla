-------------------------------- MODULE Numbers --------------------------------
(***************************************************************************)
(* Numbers with units (value/number.go and the classes over it), how they  *)
(* compare up to the last digits (util/number.go), the functions of        *)
(* sass:math that choose among them (functions/math.go), and how they are  *)
(* written (util/number_write.go).                                         *)
(*                                                                         *)
(* A number is a fraction n/d with units: inches and pixels convert, em    *)
(* stands for the units no other converts to.  A single unit, several and  *)
(* none are classes of their own in the code.  Left out: infinities, NaN   *)
(* and what is irrational.                                                 *)
(***************************************************************************)
EXTENDS Integers, Sequences, FiniteSetsExt, SequencesExt

CONSTANTS PxPerInch,
          InverseEpsilon,   \* fractions that round to the same 1/InverseEpsilon are equal
          Precision         \* digits written after the point

ASSUME PxPerInchPositive == PxPerInch \in Nat \ {0}
ASSUME InverseEpsilonPositive == InverseEpsilon \in Nat \ {0}
ASSUME PrecisionPositive == Precision \in Nat \ {0}

Number(n, d, num, den) == [kind |-> "number", n |-> IF d < 0 THEN -n ELSE n,
                           d |-> IF d < 0 THEN -d ELSE d, num |-> num, den |-> den]
Error == [kind |-> "error"]
IsNumber(a) == a.kind = "number"
-----------------------------------------------------------------------------
(* Fractions                                                               *)

Floor(n, d) == IF d < 0 THEN (-n) \div (-d) ELSE n \div d
Ceil(n, d) == -Floor(-n, d)
Sign(n) == IF n < 0 THEN -1 ELSE 1
\* halves go away from zero
RoundHalfAway(n, d) == IF Sign(n) = Sign(d) THEN Floor(2 * n + d, 2 * d) ELSE Ceil(2 * n - d, 2 * d)

\* two numbers in one bucket differ by no more than its width
FuzzyHashCode(q) == RoundHalfAway(q.n * InverseEpsilon, q.d)
FuzzyEquals(p, q) == p.n * q.d = q.n * p.d \/ FuzzyHashCode(p) = FuzzyHashCode(q)
FuzzyLessThan(p, q) == p.n * q.d < q.n * p.d /\ ~FuzzyEquals(p, q)
FuzzyLessThanOrEquals(p, q) == p.n * q.d < q.n * p.d \/ FuzzyEquals(p, q)
-----------------------------------------------------------------------------
(* Units                                                                   *)

Lengths == {"px", "in"}
Size(unit) == IF unit = "in" THEN PxPerInch ELSE 1
Convertible(u, v) == u = v \/ {u, v} \subseteq Lengths
\* knownCompatibilities: em is a length of unknown size
SameFamily(u, v) == u = v \/ {u, v} \subseteq Lengths \cup {"em"}

HasUnits(x) == x.num # <<>> \/ x.den # <<>>
HasComplexUnits(x) == HasUnits(x) /\ ~(Len(x.num) = 1 /\ x.den = <<>>)

\* each unit paired off with the first of the others that converts to it
Cancel(units, others) ==
    FoldLeft(LAMBDA acc, u :
                LET hits == {i \in DOMAIN acc.others : Convertible(u, acc.others[i])}
                IN  IF hits = {} THEN [acc EXCEPT !.kept = Append(@, u)]
                    ELSE [acc EXCEPT !.n = @ * Size(u), !.d = @ * Size(acc.others[Min(hits)]),
                                     !.others = RemoveAt(@, Min(hits))],
             [n |-> 1, d |-> 1, kept |-> <<>>, others |-> others], units)

SassNumberWithUnits(n, d, num, den) ==
    LET c == Cancel(den, num) IN Number(n * c.d, d * c.n, c.others, c.kept)

MultiplyUnits(n, d, x, otherNum, otherDen) ==
    LET a == Cancel(x.num, otherDen)
        b == Cancel(otherNum, x.den)
    IN  SassNumberWithUnits(n * a.n * b.n, d * a.d * b.d, a.kept \o b.kept, b.others \o a.others)

\* x in the units of y; a number without units takes any
Matched(x, y) == LET a == Cancel(y.num, x.num)
                     b == Cancel(y.den, x.den)
                 IN  a.kept \o a.others \o b.kept \o b.others = <<>>
Coerce(x, y) ==
    LET a == Cancel(y.num, x.num)
        b == Cancel(y.den, x.den)
    IN  IF HasUnits(x) /\ HasUnits(y) THEN [n |-> x.n * a.d * b.n, d |-> x.d * a.n * b.d]
        ELSE [n |-> x.n, d |-> x.d]

IsComparableTo(x, y) == ~HasUnits(x) \/ ~HasUnits(y) \/ Matched(x, y)
HasCompatibleUnits(x, y) ==
    Len(x.num) = Len(y.num) /\ Len(x.den) = Len(y.den) /\ IsComparableTo(x, y)
\* neither has complex units
HasPossiblyCompatibleUnits(x, y) ==
    HasUnits(x) = HasUnits(y) /\ (HasUnits(x) => SameFamily(x.num[1], y.num[1]))

\* unlike coercing, converting gives no unit to a number without one, nor takes it
ConvertToMatch(x, y) ==
    LET c == Coerce(x, y) IN IF Matched(x, y) THEN SassNumberWithUnits(c.n, c.d, y.num, y.den) ELSE Error
-----------------------------------------------------------------------------
(* Arithmetic and comparison: of two numbers that do not match, none.      *)

Shape(x, y) == IF HasUnits(x) THEN x ELSE y
Plus(x, y) ==
    LET c == Coerce(y, x)
    IN  IF ~IsComparableTo(x, y) THEN Error
        ELSE Number(x.n * c.d + c.n * x.d, x.d * c.d, Shape(x, y).num, Shape(x, y).den)
Minus(x, y) == Plus(x, [y EXCEPT !.n = -@])
Times(x, y) == MultiplyUnits(x.n * y.n, x.d * y.d, x, y.num, y.den)
DividedBy(x, y) == MultiplyUnits(x.n * y.d, x.d * y.n, x, y.den, y.num)

\* what is left of x after whole steps, by the quotient of the two
Quotient(x, y) == LET c == Coerce(y, x) IN [n |-> x.n * c.d, d |-> x.d * c.n]
Multiple(x, y, k) ==
    LET c == Coerce(y, x) IN Number(k * c.n, c.d, Shape(x, y).num, Shape(x, y).den)
Whole(q) == Floor(q.n, q.d)
Modulo(x, y) ==
    IF IsComparableTo(x, y) THEN Minus(x, Multiple(x, y, Whole(Quotient(x, y)))) ELSE Error

LessThan(x, y) == FuzzyLessThan(x, Coerce(y, x))
LessThanOrEquals(x, y) == FuzzyLessThanOrEquals(x, Coerce(y, x))
GreaterThan(x, y) == FuzzyLessThan(Coerce(y, x), x)
GreaterThanOrEquals(x, y) == FuzzyLessThanOrEquals(Coerce(y, x), x)

\* a length goes by inches, the first of its table
Canonical(unit) == IF unit \in Lengths THEN "in" ELSE unit
CanonicalUnits(units) ==
    LET canonical == [i \in DOMAIN units |-> Canonical(units[i])]
    IN  [u \in ToSet(canonical) |-> Cardinality({i \in DOMAIN units : canonical[i] = u})]
CanonicalValue(x) ==
    LET LengthsAmong(units) == Len(SelectSeq(units, LAMBDA u : u \in Lengths))
        Product(units) == FoldLeft(LAMBDA acc, u : acc * Size(u), 1, units)
    IN  [n |-> x.n * Product(x.num) * PxPerInch^LengthsAmong(x.den),
         d |-> x.d * Product(x.den) * PxPerInch^LengthsAmong(x.num)]
Equals(x, y) ==
    /\ CanonicalUnits(x.num) = CanonicalUnits(y.num)
    /\ CanonicalUnits(x.den) = CanonicalUnits(y.den)
    /\ FuzzyEquals(CanonicalValue(x), CanonicalValue(y))

(* Mutant: the value is hashed in the units it is written with. *)
HashCodeAsWritten(x) == FuzzyHashCode(x)

HashCode(x) == FuzzyHashCode(CanonicalValue(x))
-----------------------------------------------------------------------------
(* sass:math                                                               *)

\* each argument against the best so far, in that one's units
Chosen(better(_, _), numbers) ==
    FoldLeft(LAMBDA best, x : IF ~IsNumber(best) \/ ~IsComparableTo(best, x) THEN Error
                              ELSE IF better(x, best) THEN x ELSE best,
             numbers[1], numbers)
maxFunction(numbers) == Chosen(LAMBDA x, best : LessThan(best, x), numbers)
minFunction(numbers) == Chosen(LAMBDA x, best : GreaterThan(best, x), numbers)

\* all three have units or none has
clampFunction(min, number, max) ==
    IF ~Matched(number, min) \/ ~Matched(max, min) THEN Error
    ELSE IF GreaterThanOrEquals(min, max) \/ GreaterThanOrEquals(min, number) THEN min
    ELSE IF GreaterThanOrEquals(number, max) THEN max ELSE number

compatibleImpl(x, y) == HasCompatibleUnits(x, y) \/ IsComparableTo(x, y)
-----------------------------------------------------------------------------
(* Writing.  A decimal is a sign and the digits before and after its point. *)

Decimal(neg, int, frac) == [neg |-> neg, int |-> int, frac |-> frac]
Zeros(k) == [i \in 1..k |-> 0]

\* the digits of a number whose first stands for 10^exp
removeExponent(neg, digits, exp) ==
    IF exp < 0 THEN Decimal(neg, <<0>>, Zeros(-exp - 1) \o digits)
    ELSE IF exp < Len(digits) - 1
    THEN Decimal(neg, SubSeq(digits, 1, exp + 1), SubSeq(digits, exp + 2, Len(digits)))
    ELSE Decimal(neg, digits \o Zeros(exp - (Len(digits) - 1)), <<>>)

\* the last digit goes up, and the nines before it carry
Carried(digits) ==
    LET last == Max({i \in DOMAIN digits : digits[i] # 9})
    IN  [SubSeq(digits, 1, last) EXCEPT ![last] = @ + 1]

writeRoundedTo(text, compressed) ==
    LET point  == Len(text.int) + 1      \* a leading zero takes the carry
        digits == <<0>> \o text.int \o SubSeq(text.frac, 1, Precision)
        up     == IF text.frac[Precision + 1] >= 5 THEN Carried(digits) ELSE digits
        filled == up \o Zeros(IF Len(up) < point THEN point - Len(up) ELSE 0)
        kept   == SubSeq(filled, 1, Max({point} \cup {i \in DOMAIN filled : filled[i] # 0}))
        first  == IF kept[1] # 0 THEN 1 ELSE IF compressed /\ kept[2] = 0 THEN 3 ELSE 2
    IN  IF kept = <<0, 0>> THEN Decimal(FALSE, <<0>>, <<>>)
        ELSE Decimal(text.neg, SubSeq(kept, first, point), SubSeq(kept, point + 1, Len(kept)))

Length(text) == (IF text.neg THEN 1 ELSE 0) + Len(text.int) + 1 + Len(text.frac)
WriteNumberTo(text, compressed) ==
    IF text.frac = <<>> THEN text
    ELSE IF Length(text) < Precision + 2
    THEN IF compressed /\ ~text.neg /\ text.int[1] = 0 THEN [text EXCEPT !.int = Tail(@)] ELSE text
    ELSE IF Len(text.frac) <= Precision THEN text
    ELSE writeRoundedTo(text, compressed)
=============================================================================
