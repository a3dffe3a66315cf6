------------------------------- MODULE Statements ------------------------------
(***************************************************************************)
(* Which statements may stand where: how the three parsers (SCSS, the      *)
(* indented syntax and plain CSS) read the lines of a stylesheet, with the *)
(* fields they set on the way into a rule and restore on the way out of it.*)
(*                                                                         *)
(* A line has its indentation, what it is written with, its statement and  *)
(* whether it opens a block: in SCSS and CSS with a brace, the indentation *)
(* is then the depth of braces; in the indented syntax by the deeper line  *)
(* that follows.  The calls of children() that have not returned yet are   *)
(* on the stack "open", each with the fields to restore when it does.      *)
(* Selectors, expressions and arguments are left out: that a line is one   *)
(* statement, and complete, is given.                                      *)
(***************************************************************************)
EXTENDS Integers, SequencesExt, TLC

Line(indent, by, statement, opens) ==
    [indent |-> indent, by |-> by, statement |-> statement, opens |-> opens]

NewParser(syntax) ==
    [syntax |-> syntax, isUseAllowed |-> TRUE, inMixin |-> FALSE, inContentBlock |-> FALSE,
     inControlDirective |-> FALSE, inUnknownAtRule |-> FALSE, inPlainCssFunction |-> FALSE,
     inStyleRule |-> FALSE, indentBy |-> "undecided", open |-> <<>>, read |-> <<>>, refused |-> FALSE]
-----------------------------------------------------------------------------
(* What a handler makes of its line: the rule it reads, whether children   *)
(* follow and how they are parsed, the fields it sets before them and what *)
(* it makes of those afterwards, and whether an @else may follow.          *)
Plain(rule) ==
    [rule |-> rule, block |-> FALSE, child |-> "statement", set |-> <<>>, restore |-> <<>>, chain |-> FALSE]
withChildren(rule, child) == [Plain(rule) EXCEPT !.block = TRUE, !.child = child]
Refused == Plain("refused")
Setting(h, field, value) == [h EXCEPT !.set = (field :> value) @@ @]
Within(h, p, field) == [Setting(h, field, TRUE) EXCEPT !.restore = (field :> p[field]) @@ @]

contentRule(p)  == IF p.inMixin THEN Plain("content") ELSE Refused
debugRule       == Plain("debug")
errorRule       == Plain("error")
warnRule        == Plain("warn")
returnRule      == Plain("return")
forwardRule(p)  == IF p.isUseAllowed THEN Plain("forward") ELSE Refused
useRule(p)      == IF p.isUseAllowed THEN Plain("use") ELSE Refused
mediaRule       == withChildren("media", "statement")
supportsRule    == withChildren("supports", "statement")
mozDocumentRule == withChildren("-moz-document", "statement")
disallowedAtRule   == Refused
cssForbiddenAtRule == Refused

eachRule(p, child)  == Within(withChildren("each", child), p, "inControlDirective")
forRule(p, child)   == Within(withChildren("for", child), p, "inControlDirective")
whileRule(p, child) == Within(withChildren("while", child), p, "inControlDirective")
ifRule(p, child) == [Within(withChildren("if", child), p, "inControlDirective") EXCEPT !.chain = TRUE]

extendRule(p) == IF p.inStyleRule \/ p.inMixin \/ p.inContentBlock THEN Plain("extend") ELSE Refused

importRule(p, dynamic) ==
    IF dynamic /\ (p.inControlDirective \/ p.inMixin) THEN disallowedAtRule ELSE Plain("import")

\* once out of a content block, out of all of them
includeRuleLeaves(p, l) ==
    IF l.statement = "@include using" \/ l.opens
    THEN [Setting(withChildren("content block", "statement"), "inContentBlock", TRUE)
             EXCEPT !.restore = "inContentBlock" :> FALSE]
    ELSE Plain("include")
includeRule(p, l) ==
    IF l.statement = "@include using" \/ l.opens
    THEN Within(withChildren("content block", "statement"), p, "inContentBlock")
    ELSE Plain("include")

mixinRule(p) ==
    IF p.inMixin \/ p.inContentBlock \/ p.inControlDirective THEN Refused
    ELSE [Setting(withChildren("mixin", "statement"), "inMixin", TRUE)
             EXCEPT !.restore = "inMixin" :> FALSE]

unknownAtRule(p, l, function) ==
    LET inside == Within(withChildren("unknown", "statement"), p, "inUnknownAtRule")
    IN  IF ~l.opens THEN Plain("unknown")
        ELSE IF function THEN Within(inside, p, "inPlainCssFunction") ELSE inside

functionRule(p, l) ==
    IF l.statement = "@function --f" THEN unknownAtRule(p, l, TRUE)
    ELSE IF p.inMixin \/ p.inContentBlock \/ p.inControlDirective THEN Refused
    ELSE withChildren("function", "function")

withStyleRuleChildren(p) == Within(withChildren("style rule", "statement"), p, "inStyleRule")
styleRule(p) == Setting(withStyleRuleChildren(p), "isUseAllowed", FALSE)
atRootRule(p, l) ==
    IF l.statement = "@at-root a" THEN styleRule(p) ELSE withChildren("at-root", "statement")
-----------------------------------------------------------------------------
(* Declarations, and what may be one.  "a:b" is without a space, "a:" has  *)
(* no value and "a:b +" none that can be parsed.                           *)

variableDeclaration(p) == IF p.syntax = "css" THEN Refused ELSE Plain("variable")

tryDeclarationChildren(p, l) ==
    IF p.syntax = "css" THEN Refused ELSE withChildren("declaration", "declaration")
Declared(p, l) == IF l.opens THEN tryDeclarationChildren(p, l) ELSE Plain("declaration")

\* in SCSS a block is part of the value
customProperty(p, l) ==
    IF l.opens /\ p.syntax # "sass" THEN withChildren("custom property", "value") ELSE Plain("custom property")

\* nothing is read, nor reported, of a value that cannot be parsed and ends with a semicolon
declarationOrBuffer(p, l) ==
    LET styled == styleRule(p) IN
    CASE l.statement = "m.$a: b"  -> variableDeclaration(p)
      [] l.statement = "--a: b"   -> customProperty(p, l)
      [] l.statement = "result: b" /\ p.inPlainCssFunction -> customProperty(p, l)
      [] l.statement \in {"a: b", "result: b"} -> Declared(p, l)
      [] l.statement = "a:"       -> IF l.opens THEN tryDeclarationChildren(p, l) ELSE Refused
      [] l.statement = "a:b"      -> IF p.syntax = "sass" \/ l.opens THEN styled ELSE Plain("declaration")
      [] l.statement = "a:b +"    -> IF p.syntax = "sass" \/ l.opens THEN styled ELSE Plain("nothing")
      [] OTHER                    -> styled
declarationOrStyleRule(p, l) ==
    LET h == declarationOrBuffer(p, l)
    IN  IF h.rule = "variable" THEN h ELSE Setting(h, "isUseAllowed", FALSE)

variableDeclarationOrStyleRule(p, l) ==
    IF l.statement = "m.$a: b" /\ p.syntax # "css" THEN variableDeclaration(p) ELSE styleRule(p)

propertyOrVariableDeclaration(p, l) ==
    CASE l.statement = "m.$a: b" -> variableDeclaration(p)
      [] l.statement \in {"a: b", "result: b", "a:b"} -> Declared(p, l)
      [] l.statement = "a:" /\ l.opens -> tryDeclarationChildren(p, l)
      [] OTHER -> Refused
-----------------------------------------------------------------------------
(* At-rules, by what contains them.                                        *)

\* the at-rules that are handled alike wherever Sass script is allowed
Control(p, l, child) ==
    CASE l.statement = "@each"  -> eachRule(p, child)
      [] l.statement = "@for"   -> forRule(p, child)
      [] l.statement = "@if"    -> ifRule(p, child)
      [] l.statement = "@while" -> whileRule(p, child)
      [] l.statement = "@debug" -> debugRule
      [] l.statement = "@error" -> errorRule
      [] l.statement = "@warn"  -> warnRule
      [] OTHER                  -> disallowedAtRule
Controls == {"@each", "@for", "@if", "@while", "@debug", "@error", "@warn"}
Includes == {"@include", "@include using"}

atRule(p, l, root) ==
    LET used == IF l.statement = "@use" THEN useRule(p) ELSE forwardRule(p)
        h == CASE l.statement \in Controls            -> Control(p, l, "statement")
               [] l.statement \in {"@at-root", "@at-root a"} -> atRootRule(p, l)
               [] l.statement = "@content"            -> contentRule(p)
               [] l.statement = "@extend"             -> extendRule(p)
               [] l.statement \in {"@function", "@function --f"} -> functionRule(p, l)
               [] l.statement \in {"@import", "@import url"} -> importRule(p, l.statement = "@import")
               [] l.statement \in Includes            -> includeRule(p, l)
               [] l.statement = "@media"              -> mediaRule
               [] l.statement = "@mixin"              -> mixinRule(p)
               [] l.statement = "@-moz-document"      -> mozDocumentRule
               [] l.statement = "@supports"           -> supportsRule
               [] l.statement \in {"@else", "@else if", "@return"} -> disallowedAtRule
               [] OTHER                               -> unknownAtRule(p, l, FALSE)
    IN  IF l.statement \in {"@use", "@forward"} THEN (IF root THEN used ELSE disallowedAtRule)
        ELSE Setting(h, "isUseAllowed", FALSE)

cssFunctionRule(p, l) ==
    IF l.statement = "@function --f" THEN unknownAtRule(p, l, TRUE) ELSE cssForbiddenAtRule
cssImportRule == Plain("import")
cssAtRule(p, l) ==
    CASE l.statement \in Controls \cup Includes \cup
             {"@at-root", "@at-root a", "@content", "@extend", "@mixin", "@return"} -> cssForbiddenAtRule
      [] l.statement \in {"@import", "@import url"} -> cssImportRule
      [] l.statement \in {"@function", "@function --f"} -> cssFunctionRule(p, l)
      [] l.statement = "@media"         -> mediaRule
      [] l.statement = "@-moz-document" -> mozDocumentRule
      [] l.statement = "@supports"      -> supportsRule
      [] OTHER                          -> unknownAtRule(p, l, FALSE)

declarationAtRule(p, l) ==
    CASE l.statement = "@content"    -> contentRule(p)
      [] l.statement \in Includes    -> includeRule(p, l)
      [] OTHER                       -> Control(p, l, "declaration")
-----------------------------------------------------------------------------
(* One statement, by the callback that parses the children it is among.    *)

AtRules == Controls \cup Includes \cup
    {"@at-root", "@at-root a", "@content", "@extend", "@function", "@function --f", "@import", "@import url",
     "@media", "@mixin", "@-moz-document", "@supports", "@else", "@else if", "@return", "@use", "@forward",
     "@charset", "@x"}

statement(p, l, root) ==
    CASE l.statement \in AtRules -> IF p.syntax = "css" THEN cssAtRule(p, l) ELSE atRule(p, l, root)
      [] p.syntax = "sass" /\ l.statement = "+m" -> Setting(includeRule(p, l), "isUseAllowed", FALSE)
      [] p.syntax = "sass" /\ l.statement = "=m" -> Setting(mixinRule(p), "isUseAllowed", FALSE)
      [] l.statement \in {"+m", "=m"} /\ p.syntax # "sass" -> styleRule(p)
      [] OTHER -> IF p.inStyleRule \/ p.inUnknownAtRule \/ p.inMixin \/ p.inContentBlock
                  THEN declarationOrStyleRule(p, l) ELSE variableDeclarationOrStyleRule(p, l)

declarationChild(p, l) ==
    IF l.statement \in AtRules THEN declarationAtRule(p, l) ELSE propertyOrVariableDeclaration(p, l)

functionChild(p, l) ==
    CASE l.statement \notin AtRules -> IF l.statement = "m.$a: b" THEN variableDeclaration(p) ELSE Refused
      [] l.statement = "@return"    -> returnRule
      [] OTHER                      -> Control(p, l, "function")

silentComment(p, l) ==
    CASE p.syntax = "sass" /\ l.opens -> withChildren("comment", "comment")
      [] p.syntax = "css"             -> Refused
      [] OTHER                        -> Plain("comment")

child(p, l, callback) ==
    CASE l.statement = "$a: b" -> variableDeclaration(p)
      [] l.statement = "//"    -> silentComment(p, l)
      [] l.statement = "/* */" -> Plain("comment")
      [] l.statement = "@charset" /\ callback = "root" -> Plain("charset")
      [] OTHER -> CASE callback = "declaration" -> declarationChild(p, l)
                    [] callback = "function"    -> functionChild(p, l)
                    [] OTHER                    -> statement(p, l, callback = "root")
-----------------------------------------------------------------------------
(* The lines, one after the other.                                         *)

NoIndentation == -1
Open(l, callback, restore, chain) ==
    [indent |-> l.indent, child |-> callback, restore |-> restore, own |-> NoIndentation, chain |-> chain]
Innermost(p) == IF p.open = <<>> THEN "root" ELSE Last(p.open).child
Refuse(p) == [p EXCEPT !.refused = TRUE]

\* children() returns in all blocks from the k-th on, the innermost first
Return(p, k) ==
    LET outer == [p EXCEPT !.open = SubSeq(@, 1, k - 1)]
    IN  FoldLeft(LAMBDA q, block : block.restore @@ q, outer, Reverse(SubSeq(p.open, k, Len(p.open))))

sassCheckIndentationConsistency(p, l) ==
    l.indent > 0 => /\ l.by # "both"
                    /\ p.indentBy \in {"undecided", l.by}
\* the children of a block are indented alike
sassWhileIndentedLower(p, l) ==
    IF p.open = <<>> THEN l.indent = 0
    ELSE Last(p.open).child = "comment" \/ Last(p.open).own \in {NoIndentation, l.indent}

Indented(p, l) ==
    LET by == IF l.indent > 0 THEN l.by ELSE p.indentBy
    IN  IF p.open = <<>> THEN [p EXCEPT !.indentBy = by]
        ELSE [p EXCEPT !.indentBy = by, !.open[Len(p.open)].own = l.indent]

\* an @else goes on with the fields as the @if set them
scanElse(p, l, k) ==
    [Return(p, k + 1) EXCEPT !.open[k] = Open(l, @.child, @.restore, l.statement = "@else if"),
                             !.read = Append(@, "else")]

children(p, l) ==
    LET h == child(p, l, Innermost(p))
        there == h.set @@ [p EXCEPT !.read = Append(@, h.rule)]
    IN  IF \/ h.rule = "refused"
           \/ IF p.syntax = "sass" THEN l.opens /\ ~h.block ELSE l.opens # h.block
        THEN Refuse(p)
        ELSE IF h.block THEN [there EXCEPT !.open = Append(@, Open(l, h.child, h.restore, h.chain))]
        ELSE there

Feed(p, l) ==
    LET k     == 1 + Cardinality({i \in DOMAIN p.open : p.open[i].indent < l.indent})
        chain == k <= Len(p.open) /\ p.open[k].chain
        past  == IF chain /\ p.syntax = "scss" /\ l.statement \in {"//", "/* */"} THEN k + 1 ELSE k
        q     == Return(p, past)
    IN  CASE p.syntax = "sass" /\ ~(sassCheckIndentationConsistency(p, l) /\ sassWhileIndentedLower(q, l)) ->
                 Refuse(p)
          [] chain /\ l.statement \in {"@else", "@else if"} ->
                 IF p.syntax # "sass" /\ ~l.opens THEN Refuse(p) ELSE scanElse(p, l, k)
          [] Innermost(q) \in {"comment", "value"} -> [Indented(q, l) EXCEPT !.read = Append(@, Innermost(q))]
          [] OTHER -> children(Indented(q, l), l)
===============================================================================
