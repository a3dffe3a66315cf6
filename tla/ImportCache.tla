----------------------------- MODULE ImportCache -----------------------------
(***************************************************************************)
(* The two tiers of canonicalization caches of eval/import_cache.go: which *)
(* answers of the importers are kept, for whom, and what a watcher that    *)
(* calls ClearCanonicalize gets rid of.                                    *)
(*                                                                         *)
(* A load URL stands here for the pair of the URL and the @import flag:    *)
(* the flag is part of every key and of every question to an importer, and *)
(* nothing relates the answers with and without it.  Importers are what    *)
(* the Importer interface asks of them: deterministic until a file         *)
(* changes, and told the containing URL only through the context, which    *)
(* records that they looked.                                               *)
(***************************************************************************)
EXTENDS Integers, Sequences, FiniteSets

CONSTANTS
    Importers,    \* every importer a load may go to
    Chain,        \* c.importers, in order
    BaseImporters,\* the importers of the stylesheets the loads are in
    Urls,         \* the URLs stylesheets load
    Bases,        \* the canonical URLs of those stylesheets
    LoadBases,    \* the base URLs of the loads: bases, or None
    SchemeOf,     \* the scheme of each of these URLs; "" is none
    NonCanonical, \* the <<importer, scheme>> pairs of IsNonCanonicalScheme
    Readers,      \* the importers that may look at the containing URL
    None

ASSUME ImportCacheConstants ==
    /\ Chain \in Seq(Importers) /\ BaseImporters \subseteq Importers
    /\ \A j, k \in 1..Len(Chain) : Chain[j] = Chain[k] => j = k
    /\ LoadBases \subseteq Bases \cup {None} /\ Readers \subseteq Importers
    /\ DOMAIN SchemeOf = Urls \cup Bases /\ \A u \in DOMAIN SchemeOf : SchemeOf[u] # None
    /\ None \notin Importers \cup Bases

(* A URL an importer is asked for: as it is written (at is None), or, when  *)
(* it has no scheme, resolved against the directory of a base.  All bases   *)
(* of one scheme lie in one directory, so that loads from several of them   *)
(* meet in the cache.                                                       *)
Written(u) == [ref |-> u, at |-> None]
Resolve(b, u) == [ref |-> u, at |-> SchemeOf[b]]
Asked == [ref : Urls, at : {None}]
           \cup [ref : {u \in Urls : SchemeOf[u] = ""}, at : {SchemeOf[b] : b \in Bases}]
Scheme(url) == IF url.at = None THEN SchemeOf[url.ref] ELSE url.at

Offers == LoadBases \cup {None}

(* A canonical URL is named for all an importer can have made it from. *)
Absent == [kind |-> "absent"]
Miss   == [kind |-> "miss"]
Results == [kind : {"found"}, importer : Importers, url : Asked, containing : Offers]

(* How an importer answers for one URL: whether it looks at the containing  *)
(* URL, and for which of the containing URLs it recognizes the URL.         *)
Behaviours(i) ==
    [reads : {FALSE}, finds : {{}, Offers}]
      \cup IF i \in Readers THEN [reads : {TRUE}, finds : SUBSET Offers] ELSE {}

Calls == [url : Urls, importer : BaseImporters \cup {None}, base : LoadBases]

(* The base importer is asked only for URLs without a scheme, resolved when *)
(* there is a base; the chain's are asked for URLs as they are written.     *)
AsksBase(call) == call.importer # None /\ SchemeOf[call.url] = ""

BaseKey(call) ==
    [url |-> IF call.base = None THEN Written(call.url) ELSE Resolve(call.base, call.url),
     importer |-> call.importer]

ChainKey(k, u) == [url |-> Written(u), importer |-> Chain[k]]

Keys == {ChainKey(k, u) : k \in 1..Len(Chain), u \in Urls}
          \cup {BaseKey(call) : call \in {c \in Calls : AsksBase(c)}}

VARIABLES
    world,             \* [Keys -> Behaviours]: how each importer answers for each URL
    canonicalizeCache, \* [Urls -> what the whole chain answered]
    perImporter        \* [Keys -> what one importer answered]

caches == <<canonicalizeCache, perImporter>>
vars == <<world, caches>>

Init ==
    /\ world = [k \in Keys |-> [reads |-> FALSE, finds |-> {}]]
    /\ canonicalizeCache = [u \in Urls |-> Absent]
    /\ perImporter = [k \in Keys |-> Absent]

-----------------------------------------------------------------------------
(* canonicalizeWith: one call of an importer's Canonicalize *)

PassContainingUrl(i, url, base) ==
    base # None /\ (Scheme(url) = "" \/ <<i, Scheme(url)>> \in NonCanonical)

Containing(i, url, base) == IF PassContainingUrl(i, url, base) THEN base ELSE None

Answer(i, url, base) ==
    LET does == world[[url |-> url, importer |-> i]]
        containing == Containing(i, url, base)
    IN  IF containing \in does.finds
        THEN [kind |-> "found", importer |-> i, url |-> url,
              containing |-> IF does.reads THEN containing ELSE None]
        ELSE Miss

Cacheable(i, url, base) ==
    ~PassContainingUrl(i, url, base) \/ ~world[[url |-> url, importer |-> i]].reads

-----------------------------------------------------------------------------
(* Canonicalize, first part: the base importer *)

(* What the base importer contributes: an answer kept earlier, or one that  *)
(* may be kept.  An answer that may not be kept is dropped.                 *)
BaseReply(call) ==
    LET k == BaseKey(call) IN
    CASE ~AsksBase(call) -> Miss
      [] AsksBase(call) /\ perImporter[k] # Absent -> perImporter[k]
      [] AsksBase(call) /\ perImporter[k] = Absent ->
           IF Cacheable(k.importer, k.url, call.base)
           THEN Answer(k.importer, k.url, call.base) ELSE Miss

AfterBase(call) ==
    LET k == BaseKey(call) IN
    IF AsksBase(call) /\ perImporter[k] = Absent /\ Cacheable(k.importer, k.url, call.base)
    THEN [perImporter EXCEPT ![k] = Answer(k.importer, k.url, call.base)]
    ELSE perImporter

-----------------------------------------------------------------------------
(* Canonicalize, second part: the chain; per is perImporter after the first *)

Reply(per, k, u, base) ==
    IF per[ChainKey(k, u)] # Absent THEN per[ChainKey(k, u)]
                                    ELSE Answer(Chain[k], Written(u), base)

(* The importers among the first n that had to be asked and looked. *)
Spoilers(per, n, u, base) ==
    {k \in 1..n : per[ChainKey(k, u)] = Absent /\ ~Cacheable(Chain[k], Written(u), base)}

(* The first importer that recognizes the URL, or one past the last. *)
Stop(per, u, base) ==
    CHOOSE n \in 1..(Len(Chain) + 1) :
        /\ n <= Len(Chain) => Reply(per, n, u, base) # Miss
        /\ \A k \in 1..(n - 1) : Reply(per, k, u, base) = Miss

(* Mutant: once one importer looked, its own answer is kept as well. *)
AfterChainKeepsAll(per, n, u, base) ==
    IF Spoilers(per, n, u, base) = {} THEN per
    ELSE [key \in Keys |->
            IF \E k \in 1..n : key = ChainKey(k, u) /\ per[key] = Absent
            THEN Reply(per, CHOOSE k \in 1..n : key = ChainKey(k, u), u, base)
            ELSE per[key]]

(* perImporter after the first n importers.  Nothing of a chain in which no *)
(* importer looked; otherwise every answer of the others, the misses before *)
(* the first that looked included.                                          *)
AfterChain(per, n, u, base) ==
    LET spoilers == Spoilers(per, n, u, base) IN
    IF spoilers = {} THEN per
    ELSE [key \in Keys |->
            IF \E k \in 1..n \ spoilers : key = ChainKey(k, u) /\ per[key] = Absent
            THEN Reply(per, CHOOSE k \in 1..n : key = ChainKey(k, u), u, base)
            ELSE per[key]]

(* Whether the whole chain's answer is kept: not when an importer looked,   *)
(* nor when the hit came out of perImporter.                                *)
KeepChain(per, n, u, base) ==
    IF n <= Len(Chain)
    THEN per[ChainKey(n, u)] = Absent /\ Spoilers(per, n, u, base) = {}
    ELSE Spoilers(per, Len(Chain), u, base) = {}

(* The answer of the chain, and what a call that gets so far leaves behind. *)
ChainReply(per, u, base) ==
    LET n == Stop(per, u, base) IN
    IF canonicalizeCache[u] # Absent THEN canonicalizeCache[u]
    ELSE IF n <= Len(Chain) THEN Reply(per, n, u, base) ELSE Miss

(* What Canonicalize returns. *)
CanonicalizeResult(call) ==
    IF BaseReply(call) # Miss THEN BaseReply(call)
    ELSE ChainReply(AfterBase(call), call.url, call.base)

-----------------------------------------------------------------------------
(* The operations *)

Canonicalize(call) ==
    LET per == AfterBase(call)
        n == Stop(per, call.url, call.base)
        asked == IF n <= Len(Chain) THEN n ELSE Len(Chain)
    IN  /\ IF BaseReply(call) # Miss \/ canonicalizeCache[call.url] # Absent
           THEN perImporter' = per /\ UNCHANGED canonicalizeCache
           ELSE /\ perImporter' = AfterChain(per, asked, call.url, call.base)
                /\ canonicalizeCache' =
                     IF KeepChain(per, n, call.url, call.base)
                     THEN [canonicalizeCache EXCEPT ![call.url] =
                             ChainReply(per, call.url, call.base)]
                     ELSE canonicalizeCache
        /\ UNCHANGED world

(* Importer number k of the chain returns an error: the call ends there,    *)
(* with what the importers before it left.  (An error of the base importer  *)
(* changes nothing.)                                                        *)
CanonicalizeFails(call, k) ==
    LET per == AfterBase(call) IN
    /\ BaseReply(call) = Miss
    /\ canonicalizeCache[call.url] = Absent
    /\ k <= Stop(per, call.url, call.base)
    /\ per[ChainKey(k, call.url)] = Absent
    /\ perImporter' = AfterChain(per, k - 1, call.url, call.base)
    /\ UNCHANGED <<world, canonicalizeCache>>

(* CouldCanonicalize for a canonical URL that importer i makes from url: at *)
(* least that importer says it could.                                       *)
CouldCanonicalize(j, asked, i, url) == j = i /\ asked = url

(* Mutant: only what was found is dropped. *)
ClearCanonicalizeHits(i, url) ==
    /\ canonicalizeCache' = [u \in Urls |->
         IF canonicalizeCache[u].kind = "found" /\ \E k \in 1..Len(Chain) :
              CouldCanonicalize(Chain[k], Written(u), i, url)
         THEN Absent ELSE canonicalizeCache[u]]
    /\ perImporter' = [k \in Keys |->
         IF CouldCanonicalize(k.importer, k.url, i, url) THEN Absent ELSE perImporter[k]]

ClearCanonicalize(i, url) ==
    /\ canonicalizeCache' = [u \in Urls |->
         IF \E k \in 1..Len(Chain) : CouldCanonicalize(Chain[k], Written(u), i, url)
         THEN Absent ELSE canonicalizeCache[u]]
    /\ perImporter' = [k \in Keys |->
         IF CouldCanonicalize(k.importer, k.url, i, url) THEN Absent ELSE perImporter[k]]

(* A file an importer serves appears, goes or moves, and the watcher says so. *)
FileChanges(i, url, behaviour) ==
    /\ world' = [world EXCEPT ![[url |-> url, importer |-> i]] = behaviour]
    /\ ClearCanonicalize(i, url)

Next ==
    \/ \E call \in Calls : Canonicalize(call)
    \/ \E call \in Calls, k \in 1..Len(Chain) : CanonicalizeFails(call, k)
    \/ \E k \in Keys : \E behaviour \in Behaviours(k.importer) :
         FileChanges(k.importer, k.url, behaviour)

Spec == Init /\ [][Next]_vars

-----------------------------------------------------------------------------
(* Properties *)

(* Each cache holds answers of the importers its key names, and an importer *)
(* that does not look answers the same for every containing URL.            *)
TypeOK ==
    /\ world \in [Keys -> [reads : BOOLEAN, finds : SUBSET Offers]]
    /\ \A k \in Keys : world[k] \in Behaviours(k.importer)
    /\ perImporter \in [Keys -> {Absent, Miss} \cup Results]
    /\ canonicalizeCache \in [Urls -> {Absent, Miss} \cup Results]

(* What Canonicalize's comment promises, without a cache: the base importer *)
(* for a URL without a scheme, then the importers in order; the first that  *)
(* recognizes the URL.                                                      *)
Sources(call) ==
    (IF AsksBase(call) THEN <<BaseKey(call)>> ELSE <<>>)
      \o [k \in 1..Len(Chain) |-> ChainKey(k, call.url)]

Uncached(call) ==
    LET from == Sources(call)
        reply(k) == Answer(from[k].importer, from[k].url, call.base)
    IN  IF \A k \in 1..Len(from) : reply(k) = Miss THEN Miss
        ELSE reply(CHOOSE k \in 1..Len(from) :
                      reply(k) # Miss /\ \A j \in 1..(k - 1) : reply(j) = Miss)

(* The caches never show: whatever was loaded before, from wherever, and    *)
(* whatever changed, a load gets what the importers would say now.          *)
CacheTransparent == \A call \in Calls : CanonicalizeResult(call) = Uncached(call)

(* No answer made from a containing URL is kept for another load.           *)
NothingContextualKept ==
    /\ \A u \in Urls : canonicalizeCache[u] \in Results => canonicalizeCache[u].containing = None
    /\ \A k \in Keys : perImporter[k] \in Results => perImporter[k].containing = None

-----------------------------------------------------------------------------
(* What the documentation says and the code does not do *)

(* Canonicalize "first tries to use baseImporter to canonicalize url" and   *)
(* takes it that "relative loads never observe the containing URL"; but     *)
(* under a base without a scheme they do, and an answer of the base         *)
(* importer that may not be kept is dropped: the chain decides.             *)
BaseImporterFirst ==
    \A call \in Calls :
        LET k == BaseKey(call) IN
        AsksBase(call) /\ Answer(k.importer, k.url, call.base) # Miss =>
            CanonicalizeResult(call) = Answer(k.importer, k.url, call.base)

(* canonicalizeCache "doesn't cover ... loads in which any importer         *)
(* accesses containingUrl"; but it covers those of a load that has none,    *)
(* and answers later loads that have one with what they said.               *)
AccessesNotCovered ==
    \A u \in Urls, k \in 1..Len(Chain) :
        LET kept == canonicalizeCache[u]
            reached == \/ kept = Miss
                       \/ kept \in Results /\ \A j \in 1..(k - 1) : kept.importer # Chain[j]
        IN  reached => ~world[ChainKey(k, u)].reads
=============================================================================
