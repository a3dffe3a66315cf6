------------------------------ MODULE Expressions ------------------------------
(***************************************************************************)
(* The operator-precedence parser of value/parse_stylesheet_expression.go  *)
(* over tokens: the loop of _expression with its pending operators, space  *)
(* and comma lists, parentheses, maps, brackets, unary operations and      *)
(* calls, and the question it decides on the way: whether a / separates    *)
(* two numbers or divides them.                                            *)
(*                                                                         *)
(* A token is a number "1", an operand that is none "$", the start of a    *)
(* call "f(", an operator with space around it, a minus " -" with space    *)
(* before it only, or punctuation.                                         *)
(***************************************************************************)
EXTENDS Integers, Sequences, SequencesExt

Operators == {"=", "or", "and", "==", "<", "+", "-", " -", "*", "/", "%"}
Precedence(op) == CASE op = "=" -> 0 [] op = "or" -> 1 [] op = "and" -> 2 [] op = "==" -> 3 [] op = "<" -> 4
                    [] op \in {"+", "-", " -"} -> 5 [] op \in {"*", "/", "%"} -> 6

Number   == [kind |-> "number"]
Other    == [kind |-> "other"]
Binary(op, left, right, slash)     == [kind |-> "binary", op |-> op, left |-> left, right |-> right, slash |-> slash]
Unary(op, operand)                 == [kind |-> "unary", op |-> op, operand |-> operand]
List(items, separator, brackets)   == [kind |-> "list", items |-> items, separator |-> separator, brackets |-> brackets]
Parenthesized(expression)          == [kind |-> "paren", expression |-> expression]
MapOf(pairs)                       == [kind |-> "map", pairs |-> pairs]
Call(arguments)                    == [kind |-> "call", arguments |-> arguments]
NoExpression == [kind |-> "none"]
Failed       == [kind |-> "failed"]

isSlashOperand(e) == e.kind \in {"number", "call"} \/ (e.kind = "binary" /\ e.slash)

Token(tokens, at) == IF at \in DOMAIN tokens THEN tokens[at] ELSE "end"
lookingAtExpression(token) == token \in {"1", "$", "or", "and", "f(", "(", "[", "+", "-", " -", "/", "%"}

\* what a parser returns: an expression, where it ends, and p.inParentheses
Parsed(expression, at, paren) == [expression |-> expression, at |-> at, paren |-> paren]
Fails(at) == Parsed(Failed, at, FALSE)
Broken(p) == p.expression = Failed

(* Every parser that another needs, by what it is to parse: one operand, or *)
(* the options of _expression.                                              *)
RECURSIVE Parse(_, _, _, _)
Single     == [single |-> TRUE]
Bracketed  == [brackets |-> TRUE,  untilComma |-> FALSE, equals |-> FALSE]
ToComma    == [brackets |-> FALSE, untilComma |-> TRUE,  equals |-> FALSE]
Argument   == [brackets |-> FALSE, untilComma |-> TRUE,  equals |-> TRUE]
Whole      == [brackets |-> FALSE, untilComma |-> FALSE, equals |-> FALSE]

-----------------------------------------------------------------------------
(* The locals of _expression: the expression being built, what waits to    *)
(* its left, whether a / may still separate, and the scanner.              *)

resolveOneOperation(s) ==
    LET op    == Last(s.operators)
        left  == Last(s.operands)
        kept  == s.slash /\ ~s.paren /\ op = "/"
        slash == kept /\ isSlashOperand(left) /\ isSlashOperand(s.single)
    IN  [s EXCEPT !.operators = Front(@), !.operands = Front(@),
                  !.single = Binary(op, left, s.single, slash), !.slash = slash]

RECURSIVE ResolveWhile(_, _)
ResolveWhile(s, precedence) ==
    IF s.operators # <<>> /\ Precedence(Last(s.operators)) >= precedence
    THEN ResolveWhile(resolveOneOperation(s), precedence) ELSE s
resolveOperations(s) == ResolveWhile(s, 0)

\* parses one operand and makes it the expression being built
WithSingle(tokens, s) ==
    LET p == Parse(Single, tokens, s.at, s.paren)
    IN  [s EXCEPT !.single = p.expression, !.at = p.at, !.paren = p.paren]

(* A list in parentheses: start again, no longer in parentheses.            *)
Restart(tokens, s) ==
    WithSingle(tokens, [s EXCEPT !.paren = FALSE, !.at = s.start, !.commas = <<>>, !.spaces = <<>>,
                                 !.operators = <<>>, !.operands = <<>>, !.slash = TRUE])

addSingleExpression(tokens, s, e) ==
    CASE s.single = NoExpression          -> [s EXCEPT !.single = e]
      [] s.single # NoExpression /\ s.paren /\ s.slash -> Restart(tokens, s)
      [] OTHER -> LET r == resolveOperations([s EXCEPT !.paren = FALSE])
                  IN  [r EXCEPT !.spaces = Append(@, r.single), !.slash = TRUE, !.single = e]

(* Mutant: an operator resolves only those that bind tighter. *)
addOperatorRight(tokens, s, op) ==
    LET r == ResolveWhile([s EXCEPT !.at = @ + 1, !.slash = @ /\ op = "/"], Precedence(op) + 1)
    IN  IF r.single = NoExpression THEN [r EXCEPT !.single = Failed]
        ELSE WithSingle(tokens, [r EXCEPT !.operators = Append(@, op), !.operands = Append(@, r.single)])

addOperator(tokens, s, op) ==
    LET r == ResolveWhile([s EXCEPT !.at = @ + 1, !.slash = @ /\ op = "/"], Precedence(op))
    IN  CASE r.single = NoExpression -> [r EXCEPT !.single = Failed]
          [] op = "%" /\ ~lookingAtExpression(Token(tokens, r.at)) -> addSingleExpression(tokens, r, Other)
          [] OTHER -> WithSingle(tokens, [r EXCEPT !.operators = Append(@, op),
                                                   !.operands = Append(@, r.single)])

resolveSpaceExpressions(s) ==
    LET r == resolveOperations(s) IN
    CASE r.spaces = <<>> -> r
      [] r.spaces # <<>> /\ r.single = NoExpression -> [r EXCEPT !.single = Failed]
      [] OTHER -> [r EXCEPT !.single = List(Append(r.spaces, r.single), "space", FALSE), !.spaces = <<>>]

AddComma(tokens, s) ==
    IF s.paren /\ s.slash THEN Restart(tokens, s)
    ELSE LET r == resolveSpaceExpressions([s EXCEPT !.paren = FALSE]) IN
         IF s.single = NoExpression \/ r.single = Failed THEN [r EXCEPT !.single = Failed]
         ELSE [r EXCEPT !.commas = Append(@, r.single), !.at = @ + 1, !.slash = TRUE, !.single = NoExpression]

-----------------------------------------------------------------------------
(* Operands                                                                *)

unaryOperation(tokens, at, paren) ==
    LET operand == Parse(Single, tokens, at + 1, paren)
    IN  IF Broken(operand) THEN operand
        ELSE [operand EXCEPT !.expression = Unary(tokens[at], operand.expression)]

RECURSIVE argumentInvocation(_, _, _, _), Elements(_, _, _, _), Pairs(_, _, _, _)
argumentInvocation(tokens, at, paren, sofar) ==
    LET argument == Parse(Argument, tokens, at, paren)
        after    == Token(tokens, argument.at)
        all      == Append(sofar, argument.expression)
    IN  CASE ~lookingAtExpression(Token(tokens, at)) ->
               IF Token(tokens, at) = ")" THEN Parsed(Call(sofar), at + 1, paren) ELSE Fails(at)
          [] Broken(argument) -> argument
          [] after = ","      -> argumentInvocation(tokens, argument.at + 1, argument.paren, all)
          [] after = ")"      -> Parsed(Call(all), argument.at + 1, argument.paren)
          [] OTHER            -> Fails(argument.at)

Elements(tokens, at, paren, sofar) ==
    LET element == Parse(ToComma, tokens, at, paren)
        all     == Append(sofar, element.expression)
        Close(items, end) == IF Token(tokens, end) = ")"
                             THEN Parsed(Parenthesized(List(items, "comma", FALSE)), end + 1, paren)
                             ELSE Fails(end)
    IN  CASE ~lookingAtExpression(Token(tokens, at)) -> Close(sofar, at)
          [] Broken(element) -> element
          [] Token(tokens, element.at) = "," -> Elements(tokens, element.at + 1, element.paren, all)
          [] OTHER -> Close(all, element.at)

\* from the colon after a key; sofar ends in that key
Pairs(tokens, at, paren, sofar) ==
    LET value == Parse(ToComma, tokens, at + 1, paren)
        all   == Append(Front(sofar), <<Last(sofar), value.expression>>)
        key   == Parse(ToComma, tokens, value.at + 1, value.paren)
    IN  CASE Broken(value) -> value
          [] Token(tokens, value.at) = ")" -> Parsed(MapOf(all), value.at + 1, paren)
          [] Token(tokens, value.at) = "," ->
               CASE Token(tokens, value.at + 1) = ")" -> Parsed(MapOf(all), value.at + 2, paren)
                 [] ~lookingAtExpression(Token(tokens, value.at + 1)) -> Fails(value.at + 1)
                 [] Broken(key) -> key
                 [] Token(tokens, key.at) = ":" -> Pairs(tokens, key.at, key.paren, Append(all, key.expression))
                 [] OTHER -> Fails(key.at)
          [] OTHER -> Fails(value.at)

(* In parentheses: nothing, one expression, a list or a map.  The caller    *)
(* is in parentheses afterwards if it was before.                           *)
parentheses(tokens, at, wasParen) ==
    LET Done(p) == [p EXCEPT !.paren = wasParen]
        first   == Parse(ToComma, tokens, at + 1, TRUE)
        after   == Token(tokens, first.at)
    IN  CASE Token(tokens, at + 1) = ")" -> Parsed(List(<<>>, "undecided", FALSE), at + 2, wasParen)
          [] ~lookingAtExpression(Token(tokens, at + 1)) -> Fails(at + 1)
          [] Broken(first) -> first
          [] after = ":"   -> Done(Pairs(tokens, first.at, first.paren, <<first.expression>>))
          [] after = ")"   -> Parsed(Parenthesized(first.expression), first.at + 1, wasParen)
          [] after = ","   -> Done(Elements(tokens, first.at + 1, first.paren, <<first.expression>>))
          [] OTHER         -> Fails(first.at)

parseSingleExpression(tokens, at, paren) ==
    LET token == Token(tokens, at)
        next  == Token(tokens, at + 1)
    IN  CASE token = "1"  -> Parsed(Number, at + 1, paren)
          [] token \in {"$", "or", "and"} -> Parsed(Other, at + 1, paren)
          [] token = "f(" -> argumentInvocation(tokens, at + 1, paren, <<>>)
          [] token = "("  -> parentheses(tokens, at, paren)
          [] token = "["  -> Parse(Bracketed, tokens, at, paren)
          [] token = " -" /\ next = "1"  -> Parsed(Number, at + 2, paren)
          [] token = " -" /\ next = "f(" -> argumentInvocation(tokens, at + 2, paren, <<>>)
          [] token \in {"+", "-", "/"} \/ (token = " -" /\ next \notin {"1", "f("}) -> unaryOperation(tokens, at, paren)
          [] token = "%"  -> Parsed(Other, at + 1, paren)
          [] OTHER        -> Fails(at)

-----------------------------------------------------------------------------
(* The main loop                                                           *)

\* whether the token starts an operand where an expression may stand already
StartsOperand(s, token, next) ==
    \/ token \in {"1", "$", "f(", "(", "["}
    \/ token = " -" /\ next \in {"1", "f("}
    \/ token \in {"+", "-", " -", "/"} /\ s.single = NoExpression

RECURSIVE Loop(_, _, _)
Loop(tokens, s, opts) ==
    LET token   == Token(tokens, s.at)
        next    == Token(tokens, s.at + 1)
        operand == Parse(Single, tokens, s.at, s.paren)
        Add     == addSingleExpression(tokens, [s EXCEPT !.at = operand.at, !.paren = operand.paren],
                                       operand.expression)
    IN  CASE s.single = Failed \/ (opts.untilComma /\ token = ",") -> s
          [] StartsOperand(s, token, next) ->
               IF Broken(operand) THEN [s EXCEPT !.single = Failed, !.at = operand.at] ELSE Loop(tokens, Add, opts)
          [] token \in Operators /\ ~StartsOperand(s, token, next) ->
               IF token = "=" /\ ~opts.equals THEN [s EXCEPT !.single = Failed]
               ELSE Loop(tokens, addOperator(tokens, s, token), opts)
          [] token = "," /\ ~opts.untilComma -> Loop(tokens, AddComma(tokens, s), opts)
          [] OTHER -> s

(* _expression: the locals, the loop, and the folding of what it leaves.    *)
Fold(s, wasParen, brackets) ==
    LET r     == resolveSpaceExpressions(s)
        flat  == resolveOperations(s)
        items == IF r.single = NoExpression THEN r.commas ELSE Append(r.commas, r.single)
    IN  CASE r.single = Failed    -> Fails(s.at)
          [] r.single # Failed /\ s.commas # <<>> -> Parsed(List(items, "comma", brackets), s.at, wasParen)
          [] s.commas = <<>> /\ brackets /\ s.spaces # <<>> ->
               Parsed(List(Append(flat.spaces, flat.single), "space", TRUE), s.at, s.paren)
          [] s.commas = <<>> /\ brackets /\ s.spaces = <<>> ->
               Parsed(List(<<r.single>>, "undecided", TRUE), s.at, s.paren)
          [] OTHER -> Parsed(r.single, s.at, s.paren)

ParseExpression(tokens, at, wasParen, opts) ==
    LET start == IF opts.brackets THEN at + 1 ELSE at
        fresh == [at |-> start, start |-> start, paren |-> wasParen, single |-> NoExpression, commas |-> <<>>,
                  spaces |-> <<>>, operators |-> <<>>, operands |-> <<>>, slash |-> TRUE]
        s     == Loop(tokens, WithSingle(tokens, fresh), opts)
    IN  CASE opts.untilComma /\ Token(tokens, at) = "," -> Fails(at)
          [] opts.brackets /\ Token(tokens, start) = "]" -> Parsed(List(<<>>, "undecided", TRUE), start + 1, wasParen)
          [] s.single = Failed -> Fails(s.at)
          [] opts.brackets /\ Token(tokens, s.at) # "]" -> Fails(s.at)
          [] opts.brackets /\ Token(tokens, s.at) = "]" -> Fold([s EXCEPT !.at = @ + 1], wasParen, TRUE)
          [] OTHER -> Fold(s, wasParen, FALSE)

Parse(what, tokens, at, paren) ==
    IF what = Single THEN parseSingleExpression(tokens, at, paren)
    ELSE ParseExpression(tokens, at, paren, what)

Expression(tokens) == Parse(Whole, tokens, 1, FALSE)
=============================================================================
