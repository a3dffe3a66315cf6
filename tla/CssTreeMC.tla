------------------------------ MODULE CssTreeMC ------------------------------
EXTENDS CssTree

OnScreen == <<Query("", "screen", TRUE, <<>>)>>
OnPrint == <<Query("", "print", TRUE, <<>>)>>
WideOrTall == <<Query("", "", FALSE, <<"wide", "tall">>)>>
Lists == {OnScreen, OnPrint, WideOrTall}

Without(names) == [include |-> FALSE, names |-> names]
With(names) == [include |-> TRUE, names |-> names]
Queries == {Without({"rule"}), Without({"media"}), With({"rule"})}

AllDevices == [type : {"screen", "print"}, features : SUBSET {"wide", "tall"}]

Kinds == {nodes[n].kind : n \in DOMAIN nodes}
AtRoots == {i \in DOMAIN open : open[i].stmt.kind = "at-root"}

Focus ==
    \/ Cardinality(DOMAIN nodes) <= 4
    \/ /\ Kinds \cap {"keyframes", "block", "supports"} = {}
       /\ ~flags.nested
       /\ Cardinality(AtRoots) <= 1
       /\ \A n \in DOMAIN nodes :
             n < Newest(nodes) - 1 /\ nodes[n].kind \in Parents /\ n \notin Returns =>
             \E m \in DOMAIN nodes : n \in nodes[m].above
==============================================================================
