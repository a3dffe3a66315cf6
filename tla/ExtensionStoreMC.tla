-------------------------- MODULE ExtensionStoreMC --------------------------
(***************************************************************************)
(* Small stylesheets, each with the documents its simple selectors make    *)
(* up: one element that answers to several of them, with at most two       *)
(* others, ancestors or preceding siblings, that answer to one each.       *)
(***************************************************************************)
EXTENDS ExtensionStore

One(c)             == Complex(<<>>, <<Component(c, <<>>)>>)
Two(c, k, d)       == Complex(<<>>, <<Component(c, k), Component(d, <<>>)>>)
Three(c, k, d, l, e) == Complex(<<>>, <<Component(c, k), Component(d, l), Component(e, <<>>)>>)

Rule(sel)       == [module |-> "upstream", sel |-> sel, media |-> NoMedia]
InMedia(sel)    == [Rule(sel) EXCEPT !.media = "screen"]
Downstream(sel) == [Rule(sel) EXCEPT !.module = "downstream"]
Ext(r, target)  == [in |-> r, target |-> target]

\* an element has one type and one ID
Possible(own) == Cardinality(own \cap Types) <= 1 /\ Cardinality(own \cap Ids) <= 1
Subject(simples) == {own \in SUBSET simples : Cardinality(own) \in 1..2 /\ Possible(own)}
Chains(simples) ==
    {<<Element(0, 0, own)>> : own \in {own \in SUBSET simples : Possible(own)}}
    \cup {<<Element(0, 0, {p}), Element(up, 1 - up, own)>> :
             p \in simples, up \in 0..1, own \in Subject(simples)}
    \cup {<<Element(0, 0, {p}), Element(1, 0, {q}), Element(u, 2 - u, {o})>> :
             p \in simples, q \in simples, o \in simples, u \in {2}}
Sheet(rules, extensions, simples) ==
    [rules |-> rules, extends |-> extensions, documents |-> Chains(simples)]

\* extensions of extensions, in a circle
Chained == Sheet(
    [r1 |-> Rule(<<One(<<"a">>)>>), r2 |-> Rule(<<One(<<"b">>)>>),
     r3 |-> Rule(<<Two(<<"x">>, <<>>, <<"t">>), One(<<"t">>)>>)],
    {Ext("r1", "t"), Ext("r2", "a"), Ext("r3", "b")}, {"a", "b", "t", "x"})
\* both halves of a compound, with ancestors to weave
Compounds == Sheet(
    [r1 |-> Rule(<<One(<<"t", "u">>)>>), r2 |-> Rule(<<Two(<<"a">>, <<>>, <<"x">>)>>),
     r3 |-> Rule(<<Two(<<"b">>, <<">">>, <<"y">>)>>)],
    {Ext("r2", "t"), Ext("r3", "u"), Ext("r3", "a")}, {"a", "b", "t", "u", "x", "y"})
\* targets in ancestors and siblings
Combinators == Sheet(
    [r1 |-> Rule(<<Two(<<"t">>, <<">">>, <<"u">>)>>), r2 |-> Rule(<<Two(<<"a">>, <<>>, <<"b">>)>>),
     r3 |-> Rule(<<Two(<<"c">>, <<"+">>, <<"d">>)>>)],
    {Ext("r2", "t"), Ext("r3", "u")}, {"a", "b", "c", "d", "t", "u"})
\* the loop that needs the extensions an extension adds to its own target
Loop == Sheet(
    [r1 |-> Rule(<<One(<<"c">>)>>), r2 |-> Rule(<<One(<<"x", "y", "a">>)>>),
     r3 |-> Rule(<<One(<<"z", "b">>)>>)],
    {Ext("r1", "a"), Ext("r2", "b"), Ext("r3", "c")}, {"a", "b", "c", "x", "y", "z"})
\* @media, an ID and a placeholder
Contexts == Sheet(
    [r1 |-> InMedia(<<One(<<"t">>)>>), r2 |-> InMedia(<<One(<<"a">>), One(<<"%p">>)>>),
     r3 |-> Rule(<<One(<<"i">>), Two(<<"b">>, <<>>, <<"u">>)>>), r4 |-> Rule(<<One(<<"i2", "u">>)>>)],
    {Ext("r2", "t"), Ext("r3", "t"), Ext("r3", "u"), Ext("r4", "b")},
    {"a", "b", "i", "t", "u"})
\* two modules
Across == Sheet(
    [r1 |-> Rule(<<One(<<"t">>)>>), r2 |-> Rule(<<Two(<<"a">>, <<>>, <<"b">>)>>),
     r3 |-> Downstream(<<One(<<"x">>)>>), r4 |-> Downstream(<<One(<<"y">>)>>)],
    {Ext("r2", "t"), Ext("r3", "b"), Ext("r4", "x"), Ext("r4", "t")},
    {"a", "b", "t", "x", "y"})
\* a target in the middle, one before a pseudo-element, and types that exclude one another
Kinds == Sheet(
    [r1 |-> Rule(<<Three(<<"a">>, <<"~">>, <<"t">>, <<>>, <<"b">>)>>),
     r2 |-> Rule(<<One(<<"e", "u">>), Two(<<"c">>, <<>>, <<"e">>)>>),
     r3 |-> Rule(<<One(<<"f", "t">>), One(<<"u", "before">>)>>)],
    {Ext("r2", "t"), Ext("r3", "c"), Ext("r3", "b")}, {"a", "b", "c", "e", "f", "t", "u"})
\* the upstream module extends what the downstream one extends with
Mutual == Sheet(
    [r1 |-> Rule(<<One(<<"t", "u">>)>>), r2 |-> Rule(<<One(<<"a">>)>>),
     r3 |-> Downstream(<<Two(<<"x">>, <<">">>, <<"a">>)>>), r4 |-> Downstream(<<One(<<"y">>), One(<<"t">>)>>)],
    {Ext("r2", "t"), Ext("r3", "u"), Ext("r4", "a"), Ext("r4", "x"), Ext("r2", "y")},
    {"a", "t", "u", "x", "y"})
\* an extension in @media meets a rule outside: the compilation fails
Conflict == Sheet(
    [r1 |-> Rule(<<One(<<"t">>)>>), r2 |-> InMedia(<<One(<<"a">>)>>),
     r3 |-> Rule(<<One(<<"a">>), One(<<"b", "t">>)>>)],
    {Ext("r2", "t"), Ext("r3", "t")}, {"a", "b", "t"})
AllSheets == {Chained, Compounds, Combinators, Loop, Contexts, Conflict, Across, Kinds, Mutual}

\* an extender less specific than a later one of the same simple selectors
Specific == Sheet(
    [r1 |-> Rule(<<Two(<<"t">>, <<>>, <<"e">>)>>), r2 |-> Rule(<<One(<<"a">>)>>), r3 |-> Rule(<<One(<<"x">>)>>),
     r4 |-> Rule(<<Two(<<"x">>, <<>>, <<"a">>)>>)],
    {Ext("r2", "t"), Ext("r3", "t"), Ext("r4", "t")}, {"t"})
SpecificOnly == {Specific}
=============================================================================
