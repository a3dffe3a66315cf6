---------------------------- MODULE ImportCacheMC ----------------------------
(* Instances of ImportCache for TLC: a chain with an importer that may look *)
(* at the containing URL between two that do not.                           *)
EXTENDS ImportCache, TLC

CONSTANTS first, reader, last, own, u, s, b1, b2, r1

MCChain == <<first, reader, last>>
MCSchemeOf == (u :> "") @@ (s :> "pkg") @@ (b1 :> "file") @@ (b2 :> "file") @@ (r1 :> "")
Scheme1 == [x \in Urls \cup Bases |-> MCSchemeOf[x]]
MCNonCanonical == {<<reader, "pkg">>}
=============================================================================
