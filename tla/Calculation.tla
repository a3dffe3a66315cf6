------------------------------ MODULE Calculation ------------------------------
(***************************************************************************)
(* CSS calculations: evaluating one (eval/evaluate_expression.go),         *)
(* simplifying it (value/calculation.go over value/number.go), and writing *)
(* what is left (value/visitor_calc.go).                                   *)
(*                                                                         *)
(* What is written is a sequence of tokens.  Left out: infinities and NaN, *)
(* the functions of one argument, quoted strings, and the legacy functions *)
(* that mix numbers with and without units.                                *)
(***************************************************************************)
EXTENDS Numbers

Text(tokens) == [kind |-> "string", text |-> tokens]
Operation(op, left, right) == [kind |-> "operation", op |-> op, left |-> left, right |-> right]
Node(name, args) == [kind |-> "calculation", name |-> name, args |-> args]

Token(t) == [t |-> t]
NumberToken(x) == [t |-> "number", number |-> x]

Numbers(args) == {i \in DOMAIN args : IsNumber(args[i])}

-----------------------------------------------------------------------------
(* Simplification                                                          *)

Operators == {"+", "-", "*", "/"}
Precedence(op) == IF op \in {"+", "-"} THEN 1 ELSE 2

\* white space, "/" or "*", or a text that is a var()
NeedsParentheses(text) ==
    Head(text).t = "var" \/ \E i \in DOMAIN text : text[i].t \in Operators
Parenthesized(text) == Text(<<Token("(")>> \o text \o <<Token(")")>>)

Simplify(a) ==
    IF a.kind = "calculation" /\ a.name = "calc"
    THEN IF a.args[1].kind = "string" /\ NeedsParentheses(a.args[1].text)
         THEN Parenthesized(a.args[1].text) ELSE a.args[1]
    ELSE a

VerifyCompatibleNumbers(args) ==
    /\ \A i \in Numbers(args) : ~HasComplexUnits(args[i])
    /\ \A i, j \in Numbers(args) : HasPossiblyCompatibleUnits(args[i], args[j])
VerifyLength(args, n) == Len(args) = n \/ \E i \in DOMAIN args : args[i].kind = "string"

\* an incompatible pair is an error, a negative right side turns the operator
Operate(operator, before, after) ==
    LET left  == Simplify(before)
        right == Simplify(after)
        both  == IsNumber(left) /\ IsNumber(right)
    IN  IF operator \in {"+", "-"}
        THEN IF both /\ HasCompatibleUnits(left, right)
             THEN IF operator = "+" THEN Plus(left, right) ELSE Minus(left, right)
             ELSE IF ~VerifyCompatibleNumbers(<<left, right>>) THEN Error
             ELSE IF IsNumber(right) /\ right.n < 0
             THEN Operation(IF operator = "+" THEN "-" ELSE "+", left, [right EXCEPT !.n = -@])
             ELSE Operation(operator, left, right)
        ELSE IF both THEN IF operator = "*" THEN Times(left, right) ELSE DividedBy(left, right)
        ELSE Operation(operator, left, right)

NewCalc(argument) ==
    LET v == Simplify(argument)
    IN  IF v.kind \in {"number", "calculation"} THEN v ELSE Node("calc", <<v>>)

\* min() and max(): one number when each compares with the best before it
Best(name, x, y) == IF (IF name = "min" THEN LessThan(y, x) ELSE LessThan(x, y)) THEN y ELSE x
NewExtremum(name, arguments) ==
    LET args == [i \in DOMAIN arguments |-> Simplify(arguments[i])]
        best == FoldLeft(LAMBDA acc, a : IF ~IsNumber(acc) \/ ~IsNumber(a) THEN Error
                                         ELSE IF ~IsComparableTo(acc, a) THEN Error
                                         ELSE Best(name, acc, a), args[1], args)
    IN  IF IsNumber(best) THEN best
        ELSE IF VerifyCompatibleNumbers(args) THEN Node(name, args) ELSE Error

\* the lower bound is tried first, although the greater of the two wins in CSS
NewClamp(arguments) ==
    LET args == [i \in DOMAIN arguments |-> Simplify(arguments[i])]
        AllNumbers == Len(args) = 3 /\ Numbers(args) = 1..3
    IN  IF AllNumbers /\ HasCompatibleUnits(args[1], args[2]) /\ HasCompatibleUnits(args[1], args[3])
        THEN IF ~LessThan(args[1], args[2]) THEN args[1]
             ELSE IF ~LessThan(args[2], args[3]) THEN args[3] ELSE args[2]
        ELSE IF VerifyCompatibleNumbers(args) /\ VerifyLength(args, 3) THEN Node("clamp", args)
        ELSE Error

\* the sign of the modulus is taken from the result of %, that of rem() from the dividend
WithSignOf(x, y, r) == IF Sign(x.n) = Sign(y.n) \/ r.n = 0 THEN r ELSE Minus(r, y)
NewRem(x, y) == WithSignOf(x, y, Modulo(x, y))

\* up, down and to-zero turn with the signs
StepsOf(strategy, q, x, step) ==
    CASE strategy = "nearest" -> RoundHalfAway(q.n, q.d)
      [] strategy = "up" -> IF step.n < 0 THEN Floor(q.n, q.d) ELSE Ceil(q.n, q.d)
      [] strategy = "down" -> IF step.n < 0 THEN Ceil(q.n, q.d) ELSE Floor(q.n, q.d)
      [] strategy = "to-zero" -> IF x.n < 0 THEN Ceil(q.n, q.d) ELSE Floor(q.n, q.d)
RoundWithStep(strategy, x, step) ==
    Multiple(x, step, StepsOf(strategy, Quotient(x, step), x, step))
-----------------------------------------------------------------------------
(* Evaluation.  A source expression is a number, a text, "paren" or        *)
(* "binary" expression, or a "call".                                       *)

Paren(e) == [kind |-> "paren", of |-> e]
Binary(op, left, right) == [kind |-> "binary", op |-> op, left |-> left, right |-> right]
Call(name, args) == [kind |-> "call", name |-> name, args |-> args]

Called(name, args) == CASE name = "calc"  -> NewCalc(args[1])
                        [] name = "clamp" -> NewClamp(args)
                        [] OTHER          -> NewExtremum(name, args)

RECURSIVE VisitCalculationExpression(_)
VisitCalculationExpression(e) ==
    CASE e.kind \in {"number", "string"} -> e
      [] e.kind = "paren" ->
            LET inner == VisitCalculationExpression(e.of)
            IN  IF inner.kind = "string" THEN Parenthesized(inner.text) ELSE inner
      [] e.kind = "binary" ->
            LET left  == VisitCalculationExpression(e.left)
                right == VisitCalculationExpression(e.right)
            IN  IF "error" \in {left.kind, right.kind} THEN Error ELSE Operate(e.op, left, right)
      [] e.kind = "call" ->
            LET args == [i \in DOMAIN e.args |-> VisitCalculationExpression(e.args[i])]
            IN  IF \E i \in DOMAIN args : args[i].kind = "error" THEN Error
                ELSE Called(e.name, args)
-----------------------------------------------------------------------------
(* Writing                                                                 *)

WriteCalcUnits(x) ==
    FlattenSeq([i \in 1..Len(x.num) - 1 |->
                    <<Token("*"), NumberToken(Number(1, 1, <<x.num[i + 1]>>, <<>>))>>])
    \o FlattenSeq([i \in DOMAIN x.den |->
                    <<Token("/"), NumberToken(Number(1, 1, <<x.den[i]>>, <<>>))>>])
WriteNumber(x) ==
    <<NumberToken([x EXCEPT !.num = SubSeq(@, 1, Min({1, Len(@)})), !.den = <<>>])>>
      \o WriteCalcUnits(x)

(* Mutant: the right side of a subtraction goes without. *)
ParenthesizeCalcRHSLoose(outer, right) ==
    outer = "/" \/ (outer = "*" /\ Precedence(right) = 1)

ParenthesizeCalcRHS(outer, right) ==
    outer = "/" \/ (outer \in {"*", "-"} /\ Precedence(right) = 1)
ParenthesizeRight(outer, right) ==
    \/ right.kind = "operation" /\ ParenthesizeCalcRHS(outer, right.op)
    \/ IsNumber(right) /\ outer = "/" /\ HasComplexUnits(right)

Between(needed, tokens) == IF needed THEN <<Token("(")>> \o tokens \o <<Token(")")>> ELSE tokens
Joined(parts) == FlattenSeq([i \in DOMAIN parts |->
                                (IF i > 1 THEN <<Token(",")>> ELSE <<>>) \o parts[i]])

RECURSIVE WriteCalculationValue(_)
WriteCalculationValue(a) ==
    CASE a.kind = "number" -> WriteNumber(a)
      [] a.kind = "string" -> a.text
      [] a.kind = "operation" ->
            Between(a.left.kind = "operation" /\ Precedence(a.left.op) < Precedence(a.op),
                    WriteCalculationValue(a.left))
              \o <<Token(a.op)>>
              \o Between(ParenthesizeRight(a.op, a.right), WriteCalculationValue(a.right))
      [] a.kind = "calculation" ->
            <<Token(a.name)>> \o Between(TRUE, Joined([i \in DOMAIN a.args |->
                                                  WriteCalculationValue(a.args[i])]))
-----------------------------------------------------------------------------
(* What a calculation means, where an em is env.em pixels and every var()  *)
(* is env.var: a fraction of a dimension, or Undefined (d = 0).            *)

Quantity(n, d, len, time) == [n |-> n, d |-> d, len |-> len, time |-> time]
Undefined == Quantity(0, 0, 0, 0)
SameQuantity(x, y) == x.n * y.d = y.n * x.d /\ x.len = y.len /\ x.time = y.time

Scale(unit, env) == IF unit = "em" THEN env.em ELSE Size(unit)
Product(units, env) == FoldLeft(LAMBDA acc, u : acc * Scale(u, env), 1, units)
Exponent(x, set) == Len(SelectSeq(x.num, LAMBDA u : u \in set))
                      - Len(SelectSeq(x.den, LAMBDA u : u \in set))
QuantityOf(x, env) ==
    Quantity(x.n * Product(x.num, env), x.d * Product(x.den, env),
             Exponent(x, Lengths \cup {"em"}), Exponent(x, {"s"}))

Apply(op, x, y) ==
    LET down == IF y.n < 0 THEN -1 ELSE 1
    IN  CASE x.d = 0 \/ y.d = 0 \/ (op = "/" /\ y.n = 0) -> Undefined
          [] op \in {"+", "-"} /\ (x.len # y.len \/ x.time # y.time) -> Undefined
          [] op = "+" -> Quantity(x.n * y.d + y.n * x.d, x.d * y.d, x.len, x.time)
          [] op = "-" -> Quantity(x.n * y.d - y.n * x.d, x.d * y.d, x.len, x.time)
          [] op = "*" -> Quantity(x.n * y.n, x.d * y.d, x.len + y.len, x.time + y.time)
          [] op = "/" -> Quantity(x.n * y.d * down, x.d * y.n * down, x.len - y.len, x.time - y.time)
Extreme(name, x, y) ==
    IF x.d = 0 \/ y.d = 0 \/ x.len # y.len \/ x.time # y.time THEN Undefined
    ELSE IF (x.n * y.d < y.n * x.d) = (name = "min") THEN x ELSE y
\* a clamp whose bounds are in the wrong order is left undefined
ApplyCall(name, args) ==
    CASE name \in {"calc", "("} -> args[1]
      [] name \in {"min", "max"} ->
            FoldLeft(LAMBDA acc, x : Extreme(name, acc, x), args[1], Tail(args))
      [] name = "clamp" ->
            IF Len(args) # 3 THEN Undefined
            ELSE IF SameQuantity(Extreme("min", args[1], args[3]), args[1])
            THEN Extreme("max", args[1], Extreme("min", args[2], args[3])) ELSE Undefined

\* the tokens from i on as CSS reads them, to the first that cannot follow
RECURSIVE Sum(_, _, _), ProductFrom(_, _, _), Primary(_, _, _), Arguments(_, _, _, _)
RECURSIVE SumRest(_, _, _), ProductRest(_, _, _)
Read(value, next) == [value |-> value, next |-> next]
At(tokens, i, ts) == i <= Len(tokens) /\ tokens[i].t \in ts
Primary(tokens, i, env) ==
    CASE ~At(tokens, i, {"number", "var", "(", "calc", "min", "max", "clamp"}) -> Read(Undefined, i)
      [] At(tokens, i, {"number"}) -> Read(QuantityOf(tokens[i].number, env), i + 1)
      [] At(tokens, i, {"var"}) -> Read(env.var, i + 1)
      [] At(tokens, i, {"("}) ->
            LET inner == Sum(tokens, i + 1, env) IN Read(inner.value, inner.next + 1)
      [] OTHER -> LET args == Arguments(tokens, i + 2, env, <<>>)
                  IN  Read(ApplyCall(tokens[i].t, args.value), args.next)
Arguments(tokens, i, env, before) ==
    LET one == Sum(tokens, i, env)
        all == Append(before, one.value)
    IN  IF At(tokens, one.next, {","}) THEN Arguments(tokens, one.next + 1, env, all)
        ELSE Read(all, one.next + 1)
ProductRest(tokens, left, env) ==
    IF ~At(tokens, left.next, {"*", "/"}) THEN left
    ELSE LET right == Primary(tokens, left.next + 1, env)
         IN  ProductRest(tokens,
                 Read(Apply(tokens[left.next].t, left.value, right.value), right.next), env)
ProductFrom(tokens, i, env) == ProductRest(tokens, Primary(tokens, i, env), env)
SumRest(tokens, left, env) ==
    IF ~At(tokens, left.next, {"+", "-"}) THEN left
    ELSE LET right == ProductFrom(tokens, left.next + 1, env)
         IN  SumRest(tokens,
                 Read(Apply(tokens[left.next].t, left.value, right.value), right.next), env)
Sum(tokens, i, env) == SumRest(tokens, ProductFrom(tokens, i, env), env)
Reading(tokens, env) ==
    LET all == Sum(tokens, 1, env) IN IF all.next > Len(tokens) THEN all.value ELSE Undefined

\* what the source says, each text a calculation of its own
RECURSIVE Meaning(_, _)
Meaning(e, env) ==
    CASE e.kind = "number" -> QuantityOf(e, env)
      [] e.kind = "string" -> Reading(e.text, env)
      [] e.kind = "paren"  -> Meaning(e.of, env)
      [] e.kind = "binary" -> Apply(e.op, Meaning(e.left, env), Meaning(e.right, env))
      [] e.kind = "call"   -> ApplyCall(e.name, [i \in DOMAIN e.args |-> Meaning(e.args[i], env)])

\* whether a number of more than one unit comes up on the way
IsComplexNumber(v) == v.kind = "number" /\ HasComplexUnits(v)
RECURSIVE MeetsComplexUnits(_)
MeetsComplexUnits(e) ==
    \/ IsComplexNumber(VisitCalculationExpression(e))
    \/ e.kind = "paren" /\ MeetsComplexUnits(e.of)
    \/ e.kind = "binary" /\ (MeetsComplexUnits(e.left) \/ MeetsComplexUnits(e.right))
    \/ e.kind = "call" /\ \E i \in DOMAIN e.args : MeetsComplexUnits(e.args[i])
=============================================================================
