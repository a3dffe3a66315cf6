------------------------------- MODULE CssTree -------------------------------
(***************************************************************************)
(* How evaluating nested statements builds the flat CSS tree: the visitor  *)
(* methods of eval/evaluate_statement.go that open a block, with the       *)
(* helpers that place nodes (addChildThrough, withParent,                  *)
(* copyParentAfterSibling) and @at-root (trimIncluded, scopeForAtRoot).    *)
(*                                                                         *)
(* A style sheet is read one statement at a time: a step opens a block,    *)
(* closes the innermost one, or emits a declaration or a comment.  The     *)
(* visitor's fields are variables; what each method saves in locals and    *)
(* restores when its block ends is a frame on `open`.                      *)
(*                                                                         *)
(* A selector is the sequence of the labels of the rules it was nested     *)
(* in; @supports and unknown at-rules are one kind each.  Plain CSS files, *)
(* which nest in the output, and @extend are left out.                     *)
(***************************************************************************)
EXTENDS MediaQuery, FiniteSetsExt, Functions

CONSTANTS
    Labels,         \* selectors a style rule is written with
    MediaLists,     \* query lists a @media rule is written with
    AtRootQueries,  \* [include, names] of the @at-root rules
    Leaves,         \* subset of {"declaration", "comment"}
    Devices,        \* devices the queries are read by
    MaxDepth,       \* bound: open blocks
    MaxNodes        \* bound: nodes of the tree

ASSUME CssTreeAssumption ==
    /\ Leaves \subseteq {"declaration", "comment"}
    /\ MaxDepth \in Nat /\ MaxNodes \in Nat

VARIABLES
    nodes,    \* the CSS tree, by the order nodes were made in: 1 is the style sheet
    parent,   \* v.parent
    rule,     \* v.styleRuleIgnoringAtRoot, 0 for nil
    atRoot,   \* v.atRootExcludingStyleRule
    media,    \* v.mediaQueries: a list may be nil, or empty and not nil
    sources,  \* v.mediaQuerySources
    flags,    \* v.inKeyframes, v.inUnknownAtRule, v.declarationName # ""
    open,     \* the blocks being visited, with what they restore
    behind    \* history: nodes a later statement has gone past while they are in use

visitor == <<parent, rule, atRoot, media, sources, flags>>
vars == <<nodes, visitor, open, behind>>

Root == 1
NilList == [nil |-> TRUE, list |-> <<>>]
List(queries) == [nil |-> FALSE, list |-> queries]
Node(kind, sel, queries) ==
    [kind |-> kind, sel |-> sel, queries |-> queries, above |-> {}]
Within(over, node) ==
    [kind |-> node.kind, sel |-> node.sel, queries |-> node.queries, above |-> over]
Parents == {"root", "style", "media", "supports", "unknown", "keyframes", "block"}

Init ==
    /\ nodes = [n \in {Root} |-> Node("root", <<>>, <<>>)]
    /\ parent = Root /\ rule = 0 /\ atRoot = FALSE
    /\ media = NilList /\ sources = {}
    /\ flags = [keyframes |-> FALSE, unknown |-> FALSE, nested |-> FALSE]
    /\ open = <<>> /\ behind = {}

(***************************************************************************)
(* The tree.  A node knows the nodes it is in, `above`, and nothing is     *)
(* ever moved; AddChild appends, so that of two children of one parent the *)
(* later one has the greater number.  An operator that changes the tree    *)
(* takes and returns it.                                                   *)
(***************************************************************************)
Newest(t) == Max(DOMAIN t)
Up(t, n) == {n} \cup t[n].above

Siblings(t, n) == {m \in DOMAIN t : t[m].above = t[n].above}
LastSibling(t, n) == Max(Siblings(t, n))

Invisible(t, n) == \A m \in DOMAIN t :
    n \in Up(t, m) => t[m].kind \in {"style", "media", "supports", "block"}

HasFollowingSibling(t, n) ==
    n # Root /\ \E m \in Siblings(t, n) : m > n /\ ~Invisible(t, m)

AddNode(t, node, over) == [m \in DOMAIN t \cup {Newest(t) + 1} |->
    IF m \in DOMAIN t THEN t[m] ELSE Within(over, node)]
AddChild(t, p, node) == AddNode(t, node, Up(t, p))
\* a copy without the children, after everything its parent has
AddCopy(t, n) == AddNode(t, t[n], t[n].above)

EqualsIgnoringChildren(t, n, m) ==
    /\ t[n].kind = t[m].kind /\ t[n].sel = t[m].sel
    /\ Len(t[n].queries) = Len(t[m].queries)
    /\ \A i \in DOMAIN t[n].queries : QueriesEqual(t[n].queries[i], t[m].queries[i])

\* the node a statement goes to: past the parents it bubbles through, and past
\* what follows them; a last child that has no children of its own is overlooked
Through(passed) == Max(Up(nodes, parent) \ passed)
Overlooks(p) == HasFollowingSibling(nodes, p) /\ nodes[LastSibling(nodes, p)].kind \notin Parents

AddChildThrough(node, passed) ==
    LET p    == Through(passed)
        last == LastSibling(nodes, p)
    IN  IF HasFollowingSibling(nodes, p) /\ nodes[last].kind \in Parents
        THEN IF EqualsIgnoringChildren(nodes, p, last)
             THEN AddChild(nodes, last, node)
             ELSE AddChild(AddCopy(nodes, p), Newest(nodes) + 1, node)
        ELSE AddChild(nodes, p, node)

\* mutant: nothing is ever copied
NeverNeedsCopy == FALSE

NeedsCopy == parent # Root /\ LastSibling(nodes, parent) # parent

CopyParentAfterSibling == IF NeedsCopy THEN AddCopy(nodes, parent) ELSE nodes

(***************************************************************************)
(* Blocks.                                                                 *)
(***************************************************************************)
StyleRule == IF atRoot THEN 0 ELSE rule
StyleRules == {n \in DOMAIN nodes : nodes[n].kind = "style"}
Returns == {open[i].parent : i \in DOMAIN open} \ {0}

\* the visitor goes from its parent to another: what this leaves behind of the
\* nodes that blocks will return into, and what else is out of order from now on
GoesOn(unordered) ==
    behind' = behind \cup unordered
                 \cup {n \in Up(nodes, parent) \ Up(nodes', parent') :
                         \E q \in Returns' : n \in nodes[q].above}

MayOpen == /\ ~flags.nested
           /\ Len(open) < MaxDepth
           /\ Cardinality(DOMAIN nodes) < MaxNodes

\* saved: the parent the block gives back, 0 if it has no withParent of its own
Opening(stmt, saved) ==
    open' = Append(open, [stmt |-> stmt, parent |-> saved, rule |-> rule,
                          atRoot |-> atRoot, media |-> media, sources |-> sources,
                          flags |-> flags])

\* withParent around the statement's node, and around a copy of the style rule in it
Enclose(node, passed) ==
    LET t == AddChildThrough(node, passed)
    IN  /\ nodes' = IF StyleRule = 0 THEN t ELSE AddChild(t, Newest(t), t[StyleRule])
        /\ parent' = Newest(nodes')

\* a block bubbles; what follows its parent may be overlooked
LeavesBehind(passed) ==
    GoesOn(IF Overlooks(Through(passed)) THEN {Through(passed)} ELSE {})

VisitStyleRule(label) ==
    LET sel == IF rule = 0 \/ atRoot THEN <<label>> ELSE Append(nodes[rule].sel, label)
    IN  /\ MayOpen /\ ~flags.keyframes
        /\ nodes' = AddChildThrough(Node("style", sel, <<>>), StyleRules)
        /\ parent' = Newest(nodes') /\ rule' = Newest(nodes')
        /\ atRoot' = FALSE
        /\ Opening([kind |-> "style", arg |-> label], parent)
        /\ LeavesBehind(StyleRules)
        /\ UNCHANGED <<media, sources, flags>>

VisitKeyframeBlock ==
    /\ MayOpen /\ flags.keyframes /\ nodes[parent].kind # "block"
    /\ nodes' = AddChildThrough(Node("block", <<>>, <<>>), StyleRules)
    /\ parent' = Newest(nodes')
    /\ Opening([kind |-> "block", arg |-> <<>>], parent)
    /\ LeavesBehind(StyleRules)
    /\ UNCHANGED <<rule, atRoot, media, sources, flags>>

\* mutant: an unrepresentable pair is skipped like an empty one
MergeSkips(q1, q2) ==
    LET results == FlattenSeq([i \in DOMAIN q1 |->
                       [j \in DOMAIN q2 |-> Merge(q1[i], q2[j])]])
        queries == SelectSeq(results, LAMBDA r : r.result = "query")
    IN  [merged  |-> TRUE,
         queries |-> [i \in DOMAIN queries |-> queries[i].query]]

MergeMediaQueries(q1, q2) ==
    LET results == FlattenSeq([i \in DOMAIN q1 |->
                       [j \in DOMAIN q2 |-> Merge(q1[i], q2[j])]])
        queries == SelectSeq(results, LAMBDA r : r.result = "query")
    IN  [merged  |-> Unrepresentable \notin Range(results),
         queries |-> [i \in DOMAIN queries |-> queries[i].query]]

\* mutant: a rule that could not be merged bubbles as if it had been
MediaRuleAlwaysBubbles(queries) ==
    LET merge == MergeMediaQueries(media.list, queries)
    IN  [queries |-> IF ~media.nil /\ merge.merged THEN merge.queries ELSE queries,
         from |-> Range(media.list) \cup sources \cup Range(queries)]

\* the queries of the CSS rule and those it was merged from; no queries: dropped
MediaRule(queries) ==
    LET merge == MergeMediaQueries(media.list, queries)
    IN  IF ~media.nil /\ merge.merged
        THEN [queries |-> merge.queries,
              from |-> Range(media.list) \cup sources \cup Range(queries)]
        ELSE [queries |-> queries, from |-> {}]

VisitMediaRule(queries) ==
    LET css == MediaRule(queries)
        left == {n \in DOMAIN nodes : /\ nodes[n].kind = "media" /\ css.from # {}
                                      /\ Range(nodes[n].queries) \subseteq css.from}
    IN  /\ MayOpen /\ ~flags.keyframes
        /\ css.queries # <<>>
        /\ Enclose(Node("media", <<>>, css.queries), StyleRules \cup left)
        /\ media' = List(css.queries) /\ sources' = css.from
        /\ Opening([kind |-> "media", arg |-> queries], parent)
        /\ LeavesBehind(StyleRules \cup left)
        /\ UNCHANGED <<rule, atRoot, flags>>

VisitSupportsRule ==
    /\ MayOpen /\ ~flags.keyframes
    /\ Enclose(Node("supports", <<>>, <<>>), StyleRules)
    /\ Opening([kind |-> "supports", arg |-> <<>>], parent)
    /\ LeavesBehind(StyleRules)
    /\ UNCHANGED <<rule, atRoot, media, sources, flags>>

VisitAtRule(name) ==
    /\ MayOpen /\ ~flags.keyframes
    /\ flags' = [flags EXCEPT ![name] = TRUE]
    /\ IF name = "keyframes"
       THEN /\ nodes' = AddChildThrough(Node(name, <<>>, <<>>), StyleRules)
            /\ parent' = Newest(nodes')
       ELSE Enclose(Node(name, <<>>, <<>>), StyleRules)
    /\ Opening([kind |-> name, arg |-> <<>>], parent)
    /\ LeavesBehind(StyleRules)
    /\ UNCHANGED <<rule, atRoot, media, sources>>

(***************************************************************************)
(* @at-root.                                                               *)
(***************************************************************************)
ExcludesName(query, name) == ("all" \in query.names \/ name \in query.names) # query.include

NameOf(kind) == IF kind = "style" THEN "rule" ELSE kind
Excludes(query, n) == ExcludesName(query, NameOf(nodes[n].kind))

\* the ancestors to copy, and the node to put the copies in: the innermost of the
\* included ancestors with nothing excluded around it
TrimIncluded(query) ==
    LET up     == Up(nodes, parent) \ {Root}
        inTree == {n \in up : \A m \in up : m <= n => ~Excludes(query, m)}
        root   == Max(inTree \cup {Root})
    IN  [root |-> root, included |-> {n \in up : n > root /\ ~Excludes(query, n)}]

\* the copies, nested the way the originals were; the numbers in between are not used
AddCopies(root, included) ==
    LET copies == {Newest(nodes) + n : n \in included}
    IN  [m \in DOMAIN nodes \cup copies |->
            IF m \in DOMAIN nodes THEN nodes[m]
            ELSE Within(Up(nodes, root) \cup {k \in copies : k < m},
                        nodes[m - Newest(nodes)])]

ScopeForAtRoot(query, included) ==
    /\ atRoot' = (atRoot \/ ExcludesName(query, "rule"))
    /\ IF ~media.nil /\ ExcludesName(query, "media")
       THEN media' = List(<<>>) /\ sources' = {}   \* make(..., 0) is not nil
       ELSE UNCHANGED <<media, sources>>
    /\ flags' = [flags EXCEPT
           !.unknown = @ /\ \E n \in included : nodes[n].kind = "unknown"]

VisitAtRootRule(query) ==
    LET trim == TrimIncluded(query)
        stmt == [kind |-> "at-root", arg |-> query]
    IN  /\ MayOpen /\ ~flags.keyframes
        /\ UNCHANGED rule
        /\ \/ /\ trim.root = parent
              /\ Opening(stmt, 0)
              /\ UNCHANGED <<nodes, parent, atRoot, media, sources, flags, behind>>
           \/ /\ trim.root # parent
              /\ Opening(stmt, parent)
              /\ nodes' = AddCopies(trim.root, trim.included)
              /\ parent' = IF trim.included = {} THEN trim.root ELSE Newest(nodes')
              /\ ScopeForAtRoot(query, trim.included)
              /\ GoesOn({})

(***************************************************************************)
(* Leaves, and the end of a block.                                         *)
(***************************************************************************)
Emit(kind) ==
    LET t == CopyParentAfterSibling
    IN  /\ Cardinality(DOMAIN nodes) < MaxNodes
        /\ parent' = IF NeedsCopy THEN Newest(t) ELSE parent
        /\ nodes' = AddChild(t, parent', Node(kind, <<>>, <<>>))
        /\ UNCHANGED <<rule, atRoot, media, sources, flags, open>>
        /\ GoesOn({})

MayDeclare == StyleRule # 0 \/ flags.unknown \/ flags.keyframes

VisitDeclaration ==
    "declaration" \in Leaves /\ MayDeclare /\ Emit("declaration")

VisitNestedDeclarations ==
    /\ MayDeclare /\ MayOpen
    /\ flags' = [flags EXCEPT !.nested = TRUE]
    /\ Opening([kind |-> "nested", arg |-> <<>>], 0)
    /\ UNCHANGED <<nodes, parent, rule, atRoot, media, sources, behind>>

VisitLoudComment == "comment" \in Leaves /\ Emit("comment")

Close ==
    /\ open # <<>>
    /\ LET f == Last(open)
       IN  /\ parent' = IF f.parent = 0 THEN parent ELSE f.parent
           /\ rule' = f.rule /\ atRoot' = f.atRoot
           /\ media' = f.media /\ sources' = f.sources /\ flags' = f.flags
    /\ open' = Front(open)
    /\ UNCHANGED <<nodes, behind>>

Next ==
    \/ \E l \in Labels : VisitStyleRule(l)
    \/ VisitKeyframeBlock
    \/ \E q \in MediaLists : VisitMediaRule(q)
    \/ VisitSupportsRule
    \/ \E name \in {"unknown", "keyframes"} : VisitAtRule(name)
    \/ \E q \in AtRootQueries : VisitAtRootRule(q)
    \/ VisitDeclaration
    \/ VisitNestedDeclarations
    \/ VisitLoudComment
    \/ Close

Spec == Init /\ [][Next]_vars
------------------------------------------------------------------------------
(***************************************************************************)
(* What the source says of a statement: of the blocks around it, the ones  *)
(* no @at-root between them and it excludes.                               *)
(***************************************************************************)
Hides(outer, inner) ==
    \/ /\ inner.kind = "at-root" /\ ExcludesName(inner.arg, NameOf(outer.kind))
    \/ /\ inner.kind = "keyframes" /\ outer.kind = "style"

Around(within) ==
    LET kept == {i \in DOMAIN within :
                    \A j \in DOMAIN within : j > i => ~Hides(within[i], within[j])}
        all  == [i \in DOMAIN within |-> [within[i] EXCEPT
                    !.kind = IF i \in kept THEN @ ELSE "hidden"]]
    IN  [sel   |-> LET s == SelectSeq(all, LAMBDA b : b.kind = "style")
                   IN  [i \in DOMAIN s |-> s[i].arg],
         rules |-> LET r == SelectSeq(all, LAMBDA b :
                              b.kind \in {"supports", "unknown", "keyframes", "block"})
                   IN  [i \in DOMAIN r |-> r[i].kind],
         devices |-> {d \in Devices : \A i \in DOMAIN all :
                         all[i].kind = "media" => AnyMatches(all[i].arg, d)}]

Stmts == [i \in DOMAIN open |-> open[i].stmt]

\* What @media, @supports, other at-rules and style rules a statement is written
\* in is what its node will be in, however the rules bubbled out of each other,
\* merged or were copied: one style rule with the nested selector, the same at-rules
\* in the same order, and media rules that match the same devices.
InContext ==
    LET up     == Up(nodes, parent) \ {Root}
        source == Around(Stmts)
        sels   == {nodes[n].sel : n \in {n \in up : nodes[n].kind = "style"}}
        rules  == {n \in up : nodes[n].kind \notin {"style", "media"}}
    IN  /\ Cardinality({n \in up : nodes[n].kind = "style"}) <= 1
        /\ sels = IF source.sel = <<>> THEN {} ELSE {source.sel}
        /\ Cardinality(rules) = Len(source.rules)
        /\ \A n \in rules :
             nodes[n].kind = source.rules[Cardinality({m \in rules : m <= n})]
        /\ {d \in Devices : \A n \in up :
               nodes[n].kind = "media" => AnyMatches(nodes[n].queries, d)}
             = source.devices

IsLeaf(n) == nodes[n].kind \notin Parents
OneAfter(k, n) == k < n /\ nodes[k].above = nodes[n].above

\* Declarations and comments come out in the order they were evaluated, whatever
\* rules were left, copied or merged between them: of two children of a node, what
\* is in the first was emitted first, except in nodes left behind while in use.
SourceOrder ==
    \A k, n \in DOMAIN nodes : OneAfter(k, n) =>
        \A l, m \in DOMAIN nodes :
            /\ IsLeaf(l) /\ k \in Up(nodes, l)
            /\ IsLeaf(m) /\ n \in Up(nodes, m)
            => l < m \/ nodes[l].above \cap behind # {}

\* copyParentAfterSibling "keeps later children from corrupting a parent that
\* already has a following sibling": nothing is left behind.
NothingBehind == behind = {}

Dropped(q) == MediaRule(q).queries = <<>>
Contradicts(q) == \A d \in Around(Stmts).devices : ~AnyMatches(q, d)
LeftMedia == \E i \in DOMAIN open :
                open[i].stmt.kind = "at-root" /\ ExcludesName(open[i].stmt.arg, "media")

\* A @media rule is dropped only when no device matches both it and the rules it is
\* in, unless an @at-root has left an outer @media.
DroppedNeverMatches == \A q \in MediaLists : Dropped(q) => Contradicts(q) \/ LeftMedia

\* A node keeps the context its statement was written in, or is dropped because
\* that context can never match.
ContextKept == InContext /\ DroppedNeverMatches

\* "media exclusion clears media queries" (scopeForAtRoot): inside an @at-root that
\* excludes media, a @media rule is judged by its own queries alone.
AtRootClearsMedia == \A q \in MediaLists : Dropped(q) => Contradicts(q)
===============================================================================
