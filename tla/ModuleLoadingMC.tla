--------------------------- MODULE ModuleLoadingMC ---------------------------
(* The programs of the module loading runs: an entry point m, a stylesheet  *)
(* a it loads, and a stylesheet b that either may load, which declares      *)
(* variables, emits CSS, or leads back.                                     *)
EXTENDS ModuleLoading

x  == <<"x">>
y  == <<"y">>
px == <<"p", "x">>
With(n, val, guarded) == n :> [val |-> val, guarded |-> guarded]

All     == [prefix |-> <<>>, mode |-> "all", names |-> {}]
Prefix  == [All EXCEPT !.prefix = <<"p">>]
Hide    == [All EXCEPT !.mode = "hide", !.names = {x}]
ShowOut == [Prefix EXCEPT !.mode = "show", !.names = {px}]

Declare(n, v, guarded) == [op |-> "declare", name |-> n, val |-> v, guarded |-> guarded]
Rule    == [op |-> "rule"]
Comment == [op |-> "comment"]
Static  == [op |-> "static"]
Use(u, w)        == [op |-> "use", url |-> u, with |-> w]
Forward(u, w, r) == [op |-> "forward", url |-> u, with |-> w, rule |-> r]
Import(u)        == [op |-> "import", url |-> u]
Load(u, w)       == [op |-> "loadcss", url |-> u, with |-> w]

WithX == With(x, 1, FALSE)
Links(u) ==
    {Use(u, w) : w \in {None, WithX, With(px, 1, FALSE), With(x, Null, FALSE)}}
      \cup {Forward(u, w, r) : w \in {None, WithX, With(x, 1, TRUE)}, r \in {All, Prefix, Hide, ShowOut}}
      \cup {Forward(u, With(y, 1, FALSE), r) : r \in {All, Prefix}}
      \cup {Load(u, w) : w \in {None, WithX}} \cup {Import(u)}
EntryLinks(u) ==
    {Use(u, w) : w \in {None, WithX, With(px, 1, FALSE)}} \cup {Forward(u, w, All) : w \in {None, WithX}}
      \cup {Load(u, w) : w \in {None, WithX}} \cup {Import(u)}
Plain(u) == {Use(u, None), Forward(u, None, All), Load(u, None), Import(u)}

InOrder(s, t) == s.op \in {"import", "loadcss"} => t.op \notin {"use", "forward"}
Entries(head) == {<<head, s, t, Rule, Static>> : s \in EntryLinks("a"), t \in EntryLinks("b")}
                   \cup {<<head, t, s, Rule>> : s \in EntryLinks("a"), t \in EntryLinks("b")}
Middles == {<<Declare(x, 2, TRUE), l, Rule>> : l \in Links("b")}
             \cup {<<Comment, l, Declare(x, 2, TRUE)>> : l \in Links("b")}
Leaves  == {<<Declare(x, 0, TRUE), Declare(y, 0, TRUE), Rule>>,
            <<Comment, Static, Rule>>, <<Declare(x, Null, FALSE)>>}

Program(m, a, b) == "m" :> m @@ "a" :> a @@ "b" :> b
Trees == {Program(m, a, b) : m \in {m \in Entries(Comment) : InOrder(m[2], m[3])},
                             a \in Middles, b \in Leaves}
Loops == {Program(<<s, Rule>>, <<l, Rule>>, <<t, Rule>>) :
             s \in EntryLinks("a"), l \in Links("b"), t \in UNION {Plain(u) : u \in {"m", "a", "b"}}}
Twice == {Program(<<Comment, w[1], w[2], Rule>>, <<Comment, l, Rule>>, b) :
             w \in {w \in Plain("a") \X Plain("a") : InOrder(w[1], w[2])},
             l \in Plain("b"), b \in Leaves}
MCPrograms == Twice \cup Trees \cup Loops
Unconfigured == {Program(<<Use("a", WithX)>>, <<l, Rule>>, b) : l \in Plain("b"), b \in Leaves}

MCFiles == {"m", "a", "b"}
=============================================================================
