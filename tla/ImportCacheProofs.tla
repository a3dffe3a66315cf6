-------------------------- MODULE ImportCacheProofs --------------------------
(***************************************************************************)
(* The caches of eval/import_cache.go, for every number of importers, URLs *)
(* and bases: what they hold, that nothing made from a containing URL is   *)
(* kept, and that a load never sees them.                                  *)
(***************************************************************************)
EXTENDS ImportCache, WellFoundedInduction, TLAPS

-----------------------------------------------------------------------------
(* Keys and answers                                                         *)

LEMMA ChainKeyIsKey ==
    ASSUME NEW k \in 1..Len(Chain), NEW u \in Urls
    PROVE  /\ ChainKey(k, u) \in Keys
           /\ ChainKey(k, u).importer = Chain[k] /\ ChainKey(k, u).url = Written(u)
           /\ Chain[k] \in Importers
BY ImportCacheConstants DEF ChainKey, Keys

LEMMA BaseKeyIsKey ==
    ASSUME NEW call \in Calls, AsksBase(call)
    PROVE  BaseKey(call) \in Keys
BY DEF Keys

(* A key names an importer and a URL it can be asked for. *)
LEMMA KeysType == Keys \subseteq [url : Asked, importer : Importers]
<1>1. ASSUME NEW k \in 1..Len(Chain), NEW u \in Urls
      PROVE  ChainKey(k, u) \in [url : Asked, importer : Importers]
  <2>1. Written(u) \in Asked
    BY DEF Asked, Written
  <2> QED
    BY <2>1, ChainKeyIsKey DEF ChainKey
<1>2. ASSUME NEW call \in Calls, AsksBase(call)
      PROVE  BaseKey(call) \in [url : Asked, importer : Importers]
  <2>1. /\ call.url \in Urls /\ call.importer \in Importers
        /\ call.base = None \/ call.base \in Bases
        /\ SchemeOf[call.url] = ""
    BY <1>2, ImportCacheConstants DEF Calls, AsksBase
  <2>2. Written(call.url) \in Asked
    BY <2>1 DEF Asked, Written, Resolve
  <2>3. call.base # None => Resolve(call.base, call.url) \in Asked
    BY <2>1 DEF Asked, Written, Resolve
  <2> QED
    BY <2>1, <2>2, <2>3 DEF BaseKey
<1> QED
  BY <1>1, <1>2 DEF Keys

LEMMA AnswerType ==
    ASSUME TypeOK, NEW k \in Keys, NEW base \in LoadBases
    PROVE  Answer(k.importer, k.url, base) \in {Miss} \cup Results
<1>1. k.importer \in Importers /\ k.url \in Asked
  BY KeysType
<1>2. Containing(k.importer, k.url, base) \in Offers
  BY DEF Containing, Offers
<1>3. None \in Offers
  BY DEF Offers
<1> QED
  BY <1>1, <1>2, <1>3 DEF Answer, Results

(* Where the chain stops: the importers before the one it stops at do not   *)
(* recognize the URL.                                                       *)
LEMMA StopIsFirst ==
    ASSUME NEW per, NEW u, NEW base
    PROVE  /\ Stop(per, u, base) \in 1..(Len(Chain) + 1)
           /\ Stop(per, u, base) <= Len(Chain) => Reply(per, Stop(per, u, base), u, base) # Miss
           /\ \A k \in 1..(Stop(per, u, base) - 1) : Reply(per, k, u, base) = Miss
<1> DEFINE Hits == {n \in 1..(Len(Chain) + 1) : n <= Len(Chain) => Reply(per, n, u, base) # Miss}
<1>1. Len(Chain) \in Nat
  BY ImportCacheConstants
<1>2. Hits \subseteq Nat /\ Len(Chain) + 1 \in Hits
  BY <1>1
<1>3. PICK n \in Hits : \A k \in Hits : ~(<<k, n>> \in OpToRel(<, Nat))
  <2> HIDE DEF Hits
  <2> QED
    BY <1>2, NatLessThanWellFounded, WFMin
<1>4. \A k \in Hits : ~(k < n)
  BY <1>2, <1>3 DEF OpToRel
<1>5. \A k \in 1..(n - 1) : Reply(per, k, u, base) = Miss
  BY <1>1, <1>2, <1>4
<1>6. \E m \in 1..(Len(Chain) + 1) :
        /\ m <= Len(Chain) => Reply(per, m, u, base) # Miss
        /\ \A k \in 1..(m - 1) : Reply(per, k, u, base) = Miss
  BY <1>5
<1> QED
  BY <1>6 DEF Stop

-----------------------------------------------------------------------------
(* What the caches may hold: answers no containing URL went into.           *)

Plain == {Absent, Miss} \cup {r \in Results : r.containing = None}

PlainInv ==
    /\ TypeOK
    /\ perImporter \in [Keys -> Plain]
    /\ canonicalizeCache \in [Urls -> Plain]

(* An answer that may be kept was made without a containing URL. *)
LEMMA CacheableIsPlain ==
    ASSUME TypeOK, NEW k \in Keys, NEW base \in LoadBases,
           Cacheable(k.importer, k.url, base)
    PROVE  Answer(k.importer, k.url, base) \in Plain \ {Absent}
<1>1. Answer(k.importer, k.url, base) \in {Miss} \cup Results
  BY AnswerType
<1>2. Answer(k.importer, k.url, base) = Miss \/ Answer(k.importer, k.url, base).containing = None
  <2>1. [url |-> k.url, importer |-> k.importer] = k
    BY KeysType
  <2> QED
    BY <2>1 DEF Answer, Cacheable, Containing
<1>3. Absent # Miss /\ Absent \notin Results
  BY DEF Absent, Miss, Results
<1> QED
  BY <1>1, <1>2, <1>3 DEF Plain

LEMMA AfterBasePlain ==
    ASSUME PlainInv, NEW call \in Calls PROVE AfterBase(call) \in [Keys -> Plain]
<1>1. CASE /\ AsksBase(call) /\ perImporter[BaseKey(call)] = Absent
           /\ Cacheable(BaseKey(call).importer, BaseKey(call).url, call.base)
  <2>1. call.base \in LoadBases /\ BaseKey(call) \in Keys
    BY <1>1, BaseKeyIsKey DEF Calls
  <2>2. Answer(BaseKey(call).importer, BaseKey(call).url, call.base) \in Plain
    BY <1>1, <2>1, CacheableIsPlain DEF PlainInv
  <2> QED
    BY <1>1, <2>2 DEF AfterBase, PlainInv
<1>2. CASE ~(/\ AsksBase(call) /\ perImporter[BaseKey(call)] = Absent
             /\ Cacheable(BaseKey(call).importer, BaseKey(call).url, call.base))
  BY <1>2 DEF AfterBase, PlainInv
<1> QED
  BY <1>1, <1>2

(* An importer that was asked and may be kept; what AfterChain writes. *)
LEMMA ReplyWritten ==
    ASSUME NEW per \in [Keys -> Plain], NEW n \in 0..Len(Chain), NEW u \in Urls,
           NEW base \in LoadBases, NEW key \in Keys, per[key] = Absent,
           NEW j \in (1..n) \ Spoilers(per, n, u, base), key = ChainKey(j, u)
    PROVE  /\ Reply(per, CHOOSE k \in 1..n : key = ChainKey(k, u), u, base)
                = Answer(key.importer, key.url, base)
           /\ Cacheable(key.importer, key.url, base)
<1>1. 1..n \subseteq 1..Len(Chain)
  BY ImportCacheConstants
<1> DEFINE i == CHOOSE k \in 1..n : key = ChainKey(k, u)
<1>2. i \in 1..n /\ key = ChainKey(i, u)
  OBVIOUS
<1>3. key.importer = Chain[i] /\ key.url = Written(u)
  BY <1>2 DEF ChainKey
<1>4. Reply(per, i, u, base) = Answer(Chain[i], Written(u), base)
  BY <1>2 DEF Reply
<1>5. Cacheable(Chain[j], Written(u), base)
  BY DEF Spoilers
<1>6. key.importer = Chain[j] /\ key.url = Written(u)
  BY DEF ChainKey
<1> QED
  BY <1>3, <1>4, <1>5, <1>6

LEMMA AfterChainPlain ==
    ASSUME TypeOK, NEW per \in [Keys -> Plain], NEW n \in 0..Len(Chain), NEW u \in Urls,
           NEW base \in LoadBases
    PROVE  AfterChain(per, n, u, base) \in [Keys -> Plain]
<1>1. ASSUME NEW key \in Keys, per[key] = Absent,
             NEW j \in (1..n) \ Spoilers(per, n, u, base), key = ChainKey(j, u)
      PROVE  Reply(per, CHOOSE k \in 1..n : key = ChainKey(k, u), u, base) \in Plain
  <2>1. /\ Reply(per, CHOOSE k \in 1..n : key = ChainKey(k, u), u, base)
             = Answer(key.importer, key.url, base)
        /\ Cacheable(key.importer, key.url, base)
    BY <1>1, ReplyWritten
  <2>2. Answer(key.importer, key.url, base) \in Plain
    BY <2>1, CacheableIsPlain
  <2> QED
    BY <2>1, <2>2
<1>2. CASE Spoilers(per, n, u, base) = {}
  BY <1>2 DEF AfterChain
<1>3. CASE Spoilers(per, n, u, base) # {}
  <2>1. \A key \in Keys :
          (IF \E k \in 1..n \ Spoilers(per, n, u, base) : key = ChainKey(k, u) /\ per[key] = Absent
           THEN Reply(per, CHOOSE k \in 1..n : key = ChainKey(k, u), u, base)
           ELSE per[key]) \in Plain
    BY <1>1
  <2> QED
    BY <1>3, <2>1 DEF AfterChain
<1> QED
  BY <1>2, <1>3

(* What is kept for the whole chain. *)
LEMMA ChainReplyPlain ==
    ASSUME TypeOK, NEW per \in [Keys -> Plain], NEW u \in Urls, NEW base \in LoadBases,
           canonicalizeCache[u] = Absent, KeepChain(per, Stop(per, u, base), u, base)
    PROVE  ChainReply(per, u, base) \in Plain
<1> DEFINE n == Stop(per, u, base)
<1>1. n \in 1..(Len(Chain) + 1) /\ Len(Chain) \in Nat
  BY StopIsFirst, ImportCacheConstants
<1>2. CASE n <= Len(Chain)
  <2>1. n \in 1..Len(Chain)
    BY <1>1, <1>2
  <2>2. per[ChainKey(n, u)] = Absent /\ Cacheable(Chain[n], Written(u), base)
    BY <1>2, <2>1 DEF KeepChain, Spoilers
  <2>3. Answer(Chain[n], Written(u), base) \in Plain
    BY <2>1, <2>2, ChainKeyIsKey, CacheableIsPlain
  <2>4. ChainReply(per, u, base) = Answer(Chain[n], Written(u), base)
    BY <1>2, <2>2 DEF ChainReply, Reply
  <2> QED
    BY <2>3, <2>4
<1>3. CASE ~(n <= Len(Chain))
  <2>1. ChainReply(per, u, base) = Miss
    BY <1>3 DEF ChainReply
  <2> QED
    BY <2>1 DEF Plain
<1> QED
  BY <1>2, <1>3

LEMMA InitPlain == Init => PlainInv
<1> SUFFICES ASSUME Init PROVE PlainInv
  OBVIOUS
<1>1. Absent \in Plain /\ Absent \in {Absent, Miss} \cup Results
  BY DEF Plain
<1>2. [reads |-> FALSE, finds |-> {}] \in [reads : BOOLEAN, finds : SUBSET Offers]
  OBVIOUS
<1>3. \A i : [reads |-> FALSE, finds |-> {}] \in Behaviours(i)
  BY DEF Behaviours
<1> QED
  BY <1>1, <1>2, <1>3 DEF Init, PlainInv, TypeOK

LEMMA CanonicalizePlain ==
    ASSUME PlainInv, NEW call \in Calls, Canonicalize(call)
    PROVE  /\ perImporter' \in [Keys -> Plain]
           /\ canonicalizeCache' \in [Urls -> Plain]
           /\ world' = world
<1> DEFINE per == AfterBase(call)
           n == Stop(per, call.url, call.base)
           asked == IF n <= Len(Chain) THEN n ELSE Len(Chain)
<1>1. call.url \in Urls /\ call.base \in LoadBases
  BY DEF Calls
<1>2. per \in [Keys -> Plain]
  BY AfterBasePlain
<1>3. asked \in 0..Len(Chain)
  BY StopIsFirst, ImportCacheConstants
<1>4. AfterChain(per, asked, call.url, call.base) \in [Keys -> Plain]
  BY <1>1, <1>2, <1>3, AfterChainPlain DEF PlainInv
<1>5. ASSUME canonicalizeCache[call.url] = Absent, KeepChain(per, n, call.url, call.base)
      PROVE  ChainReply(per, call.url, call.base) \in Plain
  BY <1>1, <1>2, <1>5, ChainReplyPlain DEF PlainInv
<1>6. perImporter' \in [Keys -> Plain]
  BY <1>2, <1>4 DEF Canonicalize
<1>7. canonicalizeCache' \in [Urls -> Plain]
  BY <1>5 DEF Canonicalize, PlainInv
<1> QED
  BY <1>6, <1>7 DEF Canonicalize

LEMMA FailurePlain ==
    ASSUME PlainInv, NEW call \in Calls, NEW k \in 1..Len(Chain), CanonicalizeFails(call, k)
    PROVE  /\ perImporter' \in [Keys -> Plain]
           /\ canonicalizeCache' \in [Urls -> Plain]
           /\ world' = world
<1>1. call.url \in Urls /\ call.base \in LoadBases
  BY DEF Calls
<1>2. k - 1 \in 0..Len(Chain)
  BY ImportCacheConstants
<1>3. AfterChain(AfterBase(call), k - 1, call.url, call.base) \in [Keys -> Plain]
  BY <1>1, <1>2, AfterBasePlain, AfterChainPlain DEF PlainInv
<1> QED
  BY <1>3 DEF CanonicalizeFails, PlainInv

(* A change alters the behaviour of one importer for one URL. *)
LEMMA ChangedWorld ==
    ASSUME TypeOK, NEW key \in Keys, NEW behaviour \in Behaviours(key.importer),
           FileChanges(key.importer, key.url, behaviour)
    PROVE  /\ world' = [world EXCEPT ![key] = behaviour]
           /\ world' \in [Keys -> [reads : BOOLEAN, finds : SUBSET Offers]]
           /\ \A k \in Keys : world'[k] \in Behaviours(k.importer)
<1>1. [url |-> key.url, importer |-> key.importer] = key
  BY KeysType
<1>2. world' = [world EXCEPT ![key] = behaviour]
  BY <1>1 DEF FileChanges
<1>3. behaviour \in [reads : BOOLEAN, finds : SUBSET Offers]
  <2>1. CASE key.importer \in Readers
    BY <2>1 DEF Behaviours
  <2>2. CASE key.importer \notin Readers
    BY <2>2 DEF Behaviours
  <2> QED
    BY <2>1, <2>2
<1> QED
  BY <1>2, <1>3 DEF TypeOK

LEMMA ChangePlain ==
    ASSUME PlainInv, NEW key \in Keys, NEW behaviour \in Behaviours(key.importer),
           FileChanges(key.importer, key.url, behaviour)
    PROVE  /\ perImporter' \in [Keys -> Plain]
           /\ canonicalizeCache' \in [Urls -> Plain]
BY DEF FileChanges, ClearCanonicalize, PlainInv, Plain

LEMMA NextPlain == PlainInv /\ [Next]_vars => PlainInv'
<1> SUFFICES ASSUME PlainInv, [Next]_vars PROVE PlainInv'
  OBVIOUS
<1>1. Plain \subseteq {Absent, Miss} \cup Results
  BY DEF Plain
<1>2. ASSUME world' = world, perImporter' \in [Keys -> Plain],
             canonicalizeCache' \in [Urls -> Plain]
      PROVE  PlainInv'
  BY <1>1, <1>2 DEF PlainInv, TypeOK
<1>3. ASSUME NEW call \in Calls, Canonicalize(call) PROVE PlainInv'
  BY <1>2, <1>3, CanonicalizePlain
<1>4. ASSUME NEW call \in Calls, NEW k \in 1..Len(Chain), CanonicalizeFails(call, k)
      PROVE  PlainInv'
  BY <1>2, <1>4, FailurePlain
<1>5. ASSUME NEW key \in Keys, NEW behaviour \in Behaviours(key.importer),
             FileChanges(key.importer, key.url, behaviour)
      PROVE  PlainInv'
  <2>1. perImporter' \in [Keys -> Plain] /\ canonicalizeCache' \in [Urls -> Plain]
    BY <1>5, ChangePlain
  <2>2. /\ world' \in [Keys -> [reads : BOOLEAN, finds : SUBSET Offers]]
        /\ \A k \in Keys : world'[k] \in Behaviours(k.importer)
    BY <1>5, ChangedWorld DEF PlainInv
  <2> QED
    BY <1>1, <2>1, <2>2 DEF PlainInv, TypeOK
<1>6. CASE UNCHANGED vars
  BY <1>2, <1>6 DEF vars, caches, PlainInv
<1> QED
  BY <1>3, <1>4, <1>5, <1>6 DEF Next

(* For all importers, URLs and bases, loads without a base among them: the  *)
(* caches hold answers of the right kind, of importers that exist, to URLs  *)
(* they can be asked (what Canonicalize and ClearCanonicalize leave).       *)
THEOREM CachesTyped == Spec => []TypeOK
<1>1. PlainInv => TypeOK
  BY DEF PlainInv
<1> QED
  BY <1>1, InitPlain, NextPlain, PTL DEF Spec

(* No answer an importer made from a containing URL is ever kept, whatever  *)
(* is loaded, fails or changes before (the cacheable flags of Canonicalize).*)
THEOREM NothingContextual == Spec => []NothingContextualKept
<1>1. PlainInv => NothingContextualKept
  <2>1. \A r \in Plain : r \in Results => r.containing = None
    BY DEF Plain, Absent, Miss, Results
  <2> QED
    BY <2>1 DEF PlainInv, NothingContextualKept
<1> QED
  BY <1>1, InitPlain, NextPlain, PTL DEF Spec

-----------------------------------------------------------------------------
(* The caches do not show: every kept answer is what would be answered now, *)
(* for a load under any of the bases.                                       *)

(* Loads have a base, and its scheme is canonical for every importer. *)
CanonicalLoads ==
    \A b \in LoadBases :
        /\ b # None /\ SchemeOf[b] # ""
        /\ \A i \in Importers : <<i, SchemeOf[b]>> \notin NonCanonical

Kept(per) == \A k \in Keys : \A b \in LoadBases :
                 per[k] # Absent => per[k] = Answer(k.importer, k.url, b)

(* r is what the chain would answer now. *)
SaysNow(r, u, b) ==
    LET says(k) == Answer(Chain[k], Written(u), b)
    IN  \/ r = Miss /\ \A k \in 1..Len(Chain) : says(k) = Miss
        \/ r # Miss /\ \E n \in 1..Len(Chain) :
              r = says(n) /\ \A k \in 1..(n - 1) : says(k) = Miss

KeptChains == \A u \in Urls : \A b \in LoadBases :
                  canonicalizeCache[u] # Absent => SaysNow(canonicalizeCache[u], u, b)

CurrentInv == PlainInv /\ Kept(perImporter) /\ KeptChains

(* An answer that may be kept is the same for every load. *)
LEMMA CacheableIsStable ==
    ASSUME CanonicalLoads, TypeOK, NEW k \in Keys, NEW b \in LoadBases, NEW c \in LoadBases,
           Cacheable(k.importer, k.url, b)
    PROVE  Answer(k.importer, k.url, b) = Answer(k.importer, k.url, c)
<1> DEFINE does == world[[url |-> k.url, importer |-> k.importer]]
<1>1. does = world[k] /\ does \in Behaviours(k.importer)
  BY KeysType DEF TypeOK
<1>2. CASE ~PassContainingUrl(k.importer, k.url, b)
  <2>1. ~PassContainingUrl(k.importer, k.url, c)
    BY <1>2 DEF PassContainingUrl, CanonicalLoads
  <2> QED
    BY <1>2, <2>1 DEF Answer, Containing
<1>3. CASE ~does.reads
  <2>1. does.finds = {} \/ does.finds = Offers
    BY <1>1, <1>3 DEF Behaviours
  <2>2. /\ Containing(k.importer, k.url, b) \in Offers
        /\ Containing(k.importer, k.url, c) \in Offers
    BY DEF Containing, Offers
  <2> QED
    BY <1>3, <2>1, <2>2 DEF Answer
<1> QED
  BY <1>2, <1>3 DEF Cacheable

(* Under a canonical scheme the base importer never sees a containing URL. *)
LEMMA BaseCacheable ==
    ASSUME CanonicalLoads, NEW call \in Calls, AsksBase(call)
    PROVE  Cacheable(BaseKey(call).importer, BaseKey(call).url, call.base)
<1>1. call.base \in LoadBases /\ call.importer \in Importers
  BY ImportCacheConstants DEF Calls, AsksBase
<1>2. call.base # None /\ SchemeOf[call.base] # "" /\ <<call.importer, SchemeOf[call.base]>> \notin NonCanonical
  BY <1>1 DEF CanonicalLoads
<1>3. BaseKey(call) = [url |-> [ref |-> call.url, at |-> SchemeOf[call.base]],
                       importer |-> call.importer]
  BY <1>2 DEF BaseKey, Resolve
<1>4. SchemeOf[call.base] # None
  BY <1>1, <1>2, ImportCacheConstants
<1>5. Scheme(BaseKey(call).url) = SchemeOf[call.base]
  BY <1>3, <1>4 DEF Scheme
<1>6. BaseKey(call).importer = call.importer
  BY <1>3
<1>7. ~PassContainingUrl(BaseKey(call).importer, BaseKey(call).url, call.base)
  BY <1>2, <1>5, <1>6 DEF PassContainingUrl
<1> QED
  BY <1>7 DEF Cacheable

LEMMA ReplyIsAnswer ==
    ASSUME NEW per, Kept(per), NEW k \in 1..Len(Chain), NEW u \in Urls, NEW base \in LoadBases
    PROVE  Reply(per, k, u, base) = Answer(Chain[k], Written(u), base)
BY ChainKeyIsKey DEF Kept, Reply

(* An importer that did not spoil the chain answers the same for any base. *)
LEMMA UnspoiledIsStable ==
    ASSUME CanonicalLoads, TypeOK, NEW per, Kept(per), NEW n \in 0..Len(Chain),
           NEW u \in Urls, NEW base \in LoadBases, NEW c \in LoadBases,
           NEW k \in (1..n) \ Spoilers(per, n, u, base)
    PROVE  Answer(Chain[k], Written(u), c) = Answer(Chain[k], Written(u), base)
<1>1. k \in 1..Len(Chain)
  BY ImportCacheConstants
<1>2. /\ ChainKey(k, u) \in Keys
      /\ ChainKey(k, u).importer = Chain[k] /\ ChainKey(k, u).url = Written(u)
  BY <1>1, ChainKeyIsKey
<1>3. CASE per[ChainKey(k, u)] # Absent
  BY <1>2, <1>3 DEF Kept
<1>4. CASE Cacheable(Chain[k], Written(u), base)
  BY <1>2, <1>4, CacheableIsStable
<1> QED
  BY <1>3, <1>4 DEF Spoilers

LEMMA AfterBaseKept ==
    ASSUME CanonicalLoads, CurrentInv, NEW call \in Calls
    PROVE  /\ Kept(AfterBase(call))
           /\ BaseReply(call) = IF AsksBase(call)
                                THEN Answer(BaseKey(call).importer, BaseKey(call).url, call.base)
                                ELSE Miss
<1> DEFINE k == BaseKey(call)
           says == Answer(k.importer, k.url, call.base)
<1>1. call.base \in LoadBases
  BY DEF Calls
<1>2. CASE ~AsksBase(call)
  BY <1>2 DEF AfterBase, BaseReply, CurrentInv
<1>3. CASE AsksBase(call) /\ perImporter[k] # Absent
  <2>1. perImporter[k] = says
    BY <1>1, <1>3, BaseKeyIsKey DEF CurrentInv, Kept
  <2> QED
    BY <1>3, <2>1 DEF AfterBase, BaseReply, CurrentInv
<1>4. CASE AsksBase(call) /\ perImporter[k] = Absent
  <2>1. Cacheable(k.importer, k.url, call.base) /\ k \in Keys
    BY <1>4, BaseCacheable, BaseKeyIsKey
  <2>2. \A c \in LoadBases : says = Answer(k.importer, k.url, c)
    BY <1>1, <2>1, CacheableIsStable DEF CurrentInv, PlainInv
  <2>3. AfterBase(call) = [perImporter EXCEPT ![k] = says] /\ BaseReply(call) = says
    BY <1>4, <2>1 DEF AfterBase, BaseReply
  <2>4. perImporter \in [Keys -> Plain]
    BY DEF CurrentInv, PlainInv
  <2> QED
    BY <1>4, <2>1, <2>2, <2>3, <2>4 DEF Kept, CurrentInv
<1> QED
  BY <1>2, <1>3, <1>4

LEMMA AfterChainKept ==
    ASSUME CanonicalLoads, TypeOK, NEW per \in [Keys -> Plain], Kept(per),
           NEW n \in 0..Len(Chain), NEW u \in Urls, NEW base \in LoadBases
    PROVE  Kept(AfterChain(per, n, u, base))
<1>1. ASSUME NEW key \in Keys, per[key] = Absent, NEW c \in LoadBases,
             NEW j \in (1..n) \ Spoilers(per, n, u, base), key = ChainKey(j, u)
      PROVE  Reply(per, CHOOSE k \in 1..n : key = ChainKey(k, u), u, base)
                = Answer(key.importer, key.url, c)
  <2>1. /\ Reply(per, CHOOSE k \in 1..n : key = ChainKey(k, u), u, base)
             = Answer(key.importer, key.url, base)
        /\ Cacheable(key.importer, key.url, base)
    BY <1>1, ReplyWritten
  <2>2. Answer(key.importer, key.url, base) = Answer(key.importer, key.url, c)
    BY <2>1, CacheableIsStable
  <2> QED
    BY <2>1, <2>2
<1>2. CASE Spoilers(per, n, u, base) = {}
  BY <1>2 DEF AfterChain
<1>3. CASE Spoilers(per, n, u, base) # {}
  <2> SUFFICES ASSUME NEW key \in Keys, NEW c \in LoadBases,
                      AfterChain(per, n, u, base)[key] # Absent
               PROVE  AfterChain(per, n, u, base)[key] = Answer(key.importer, key.url, c)
    BY DEF Kept
  <2>1. AfterChain(per, n, u, base)[key] =
          IF \E k \in 1..n \ Spoilers(per, n, u, base) : key = ChainKey(k, u) /\ per[key] = Absent
          THEN Reply(per, CHOOSE k \in 1..n : key = ChainKey(k, u), u, base)
          ELSE per[key]
    BY <1>3 DEF AfterChain
  <2>2. CASE \E k \in 1..n \ Spoilers(per, n, u, base) : key = ChainKey(k, u) /\ per[key] = Absent
    BY <1>1, <2>1, <2>2
  <2>3. CASE ~ \E k \in 1..n \ Spoilers(per, n, u, base) : key = ChainKey(k, u) /\ per[key] = Absent
    BY <2>1, <2>3 DEF Kept
  <2> QED
    BY <2>2, <2>3
<1> QED
  BY <1>2, <1>3

(* What a load gets from the chain is what the chain would answer now, and  *)
(* what is kept of it is what it would answer under any base.               *)
LEMMA ChainSaysNow ==
    ASSUME NEW per, Kept(per), KeptChains, NEW u \in Urls, NEW base \in LoadBases
    PROVE  SaysNow(ChainReply(per, u, base), u, base)
<1> DEFINE n == Stop(per, u, base)
<1>1. n \in 1..(Len(Chain) + 1) /\ Len(Chain) \in Nat
  BY StopIsFirst, ImportCacheConstants
<1>2. \A k \in 1..(n - 1) : Answer(Chain[k], Written(u), base) = Miss
  <2> SUFFICES ASSUME NEW k \in 1..(n - 1) PROVE Answer(Chain[k], Written(u), base) = Miss
    OBVIOUS
  <2>1. k \in 1..Len(Chain)
    BY <1>1
  <2>2. Reply(per, k, u, base) = Miss
    BY StopIsFirst
  <2> QED
    BY <2>1, <2>2, ReplyIsAnswer
<1>3. CASE canonicalizeCache[u] # Absent
  BY <1>3 DEF ChainReply, KeptChains
<1>4. CASE canonicalizeCache[u] = Absent /\ n <= Len(Chain)
  <2>1. n \in 1..Len(Chain)
    BY <1>1, <1>4
  <2>2. ChainReply(per, u, base) = Answer(Chain[n], Written(u), base)
    BY <1>4, <2>1, ReplyIsAnswer DEF ChainReply
  <2>3. ChainReply(per, u, base) # Miss
    BY <1>4, StopIsFirst DEF ChainReply
  <2> QED
    BY <1>2, <2>1, <2>2, <2>3 DEF SaysNow
<1>5. CASE canonicalizeCache[u] = Absent /\ ~(n <= Len(Chain))
  <2>1. n - 1 = Len(Chain)
    BY <1>1, <1>5
  <2>2. ChainReply(per, u, base) = Miss
    BY <1>5 DEF ChainReply
  <2> QED
    BY <1>2, <2>1, <2>2 DEF SaysNow
<1> QED
  BY <1>3, <1>4, <1>5

LEMMA KeptChainIsStable ==
    ASSUME CanonicalLoads, TypeOK, NEW per, Kept(per), NEW u \in Urls,
           NEW base \in LoadBases, NEW c \in LoadBases,
           canonicalizeCache[u] = Absent, KeepChain(per, Stop(per, u, base), u, base)
    PROVE  SaysNow(ChainReply(per, u, base), u, c)
<1> DEFINE n == Stop(per, u, base)
           asked == IF n <= Len(Chain) THEN n ELSE Len(Chain)
<1>1. n \in 1..(Len(Chain) + 1) /\ Len(Chain) \in Nat /\ asked \in 0..Len(Chain)
  BY StopIsFirst, ImportCacheConstants
<1>2. Spoilers(per, asked, u, base) = {}
  BY DEF KeepChain
<1>3. \A k \in 1..asked : Answer(Chain[k], Written(u), c) = Answer(Chain[k], Written(u), base)
  BY <1>1, <1>2, UnspoiledIsStable
<1>4. \A k \in 1..(n - 1) : Answer(Chain[k], Written(u), c) = Miss
  <2> SUFFICES ASSUME NEW k \in 1..(n - 1) PROVE Answer(Chain[k], Written(u), c) = Miss
    OBVIOUS
  <2>1. k \in 1..Len(Chain) /\ k \in 1..asked
    BY <1>1
  <2>2. Reply(per, k, u, base) = Miss
    BY StopIsFirst
  <2> QED
    BY <1>3, <2>1, <2>2, ReplyIsAnswer
<1>5. CASE n <= Len(Chain)
  <2>1. n \in 1..Len(Chain) /\ n \in 1..asked
    BY <1>1, <1>5
  <2>2. ChainReply(per, u, base) = Answer(Chain[n], Written(u), c)
    BY <1>3, <1>5, <2>1, ReplyIsAnswer DEF ChainReply
  <2>3. ChainReply(per, u, base) # Miss
    BY <1>5, StopIsFirst DEF ChainReply
  <2> QED
    BY <1>4, <2>1, <2>2, <2>3 DEF SaysNow
<1>6. CASE ~(n <= Len(Chain))
  <2>1. n - 1 = Len(Chain)
    BY <1>1, <1>6
  <2>2. ChainReply(per, u, base) = Miss
    BY <1>6 DEF ChainReply
  <2> QED
    BY <1>4, <2>1, <2>2 DEF SaysNow
<1> QED
  BY <1>5, <1>6

-----------------------------------------------------------------------------
(* The invariant is kept by every step                                      *)

LEMMA InitCurrent == Init => CurrentInv
BY InitPlain DEF Init, CurrentInv, Kept, KeptChains

LEMMA AnswersKept ==
    ASSUME world' = world
    PROVE  /\ \A i, url, b : Answer(i, url, b)' = Answer(i, url, b)
           /\ \A r, u, b : SaysNow(r, u, b)' <=> SaysNow(r, u, b)
<1>1. \A i, url, b : Answer(i, url, b)' = Answer(i, url, b)
  BY DEF Answer
<1>2. \A r, u, b : SaysNow(r, u, b)' <=> SaysNow(r, u, b)
  BY <1>1 DEF SaysNow
<1> QED
  BY <1>1, <1>2

(* One URL at the most gets an answer that holds for every base. *)
LEMMA WorldKept ==
    ASSUME world' = world, Kept(perImporter'), NEW u,
           canonicalizeCache' = canonicalizeCache \/
             \E r : /\ canonicalizeCache' = [canonicalizeCache EXCEPT ![u] = r]
                    /\ canonicalizeCache \in [Urls -> Plain]
                    /\ \A c \in LoadBases : SaysNow(r, u, c),
           KeptChains
    PROVE  Kept(perImporter)' /\ KeptChains'
<1>1. Kept(perImporter)'
  BY AnswersKept DEF Kept
<1>2. KeptChains'
  BY AnswersKept DEF KeptChains
<1> QED
  BY <1>1, <1>2

LEMMA CanonicalizeCurrent ==
    ASSUME CanonicalLoads, CurrentInv, NEW call \in Calls, Canonicalize(call)
    PROVE  Kept(perImporter)' /\ KeptChains'
<1> DEFINE per == AfterBase(call)
           n == Stop(per, call.url, call.base)
           asked == IF n <= Len(Chain) THEN n ELSE Len(Chain)
<1>1. call.url \in Urls /\ call.base \in LoadBases /\ TypeOK /\ KeptChains
  BY DEF Calls, CurrentInv, PlainInv
<1>2. per \in [Keys -> Plain] /\ Kept(per)
  BY AfterBasePlain, AfterBaseKept DEF CurrentInv
<1>3. asked \in 0..Len(Chain)
  BY StopIsFirst, ImportCacheConstants
<1>4. Kept(AfterChain(per, asked, call.url, call.base))
  BY <1>1, <1>2, <1>3, AfterChainKept
<1>5. Kept(perImporter')
  BY <1>2, <1>4 DEF Canonicalize
<1>6. CASE UNCHANGED canonicalizeCache
  BY <1>1, <1>5, <1>6, WorldKept DEF Canonicalize
<1>7. CASE /\ canonicalizeCache[call.url] = Absent
           /\ KeepChain(per, n, call.url, call.base)
           /\ canonicalizeCache' = [canonicalizeCache EXCEPT ![call.url] =
                                      ChainReply(per, call.url, call.base)]
  <2>1. \A c \in LoadBases : SaysNow(ChainReply(per, call.url, call.base), call.url, c)
    BY <1>1, <1>2, <1>7, KeptChainIsStable
  <2>2. canonicalizeCache \in [Urls -> Plain]
    BY DEF CurrentInv, PlainInv
  <2> QED
    BY <1>1, <1>5, <1>7, <2>1, <2>2, WorldKept DEF Canonicalize
<1> QED
  BY <1>6, <1>7 DEF Canonicalize

LEMMA FailureCurrent ==
    ASSUME CanonicalLoads, CurrentInv, NEW call \in Calls, NEW k \in 1..Len(Chain),
           CanonicalizeFails(call, k)
    PROVE  Kept(perImporter)' /\ KeptChains'
<1>1. call.url \in Urls /\ call.base \in LoadBases /\ TypeOK /\ KeptChains
  BY DEF Calls, CurrentInv, PlainInv
<1>2. AfterBase(call) \in [Keys -> Plain] /\ Kept(AfterBase(call))
  BY AfterBasePlain, AfterBaseKept DEF CurrentInv
<1>3. k - 1 \in 0..Len(Chain)
  BY ImportCacheConstants
<1>4. Kept(perImporter')
  BY <1>1, <1>2, <1>3, AfterChainKept DEF CanonicalizeFails
<1> QED
  BY <1>1, <1>4, WorldKept DEF CanonicalizeFails

(* The watcher's call drops every answer the change can have altered. *)
LEMMA ChangeCurrent ==
    ASSUME CurrentInv, NEW key \in Keys, NEW behaviour \in Behaviours(key.importer),
           FileChanges(key.importer, key.url, behaviour)
    PROVE  Kept(perImporter)' /\ KeptChains'
<1>1. \A k \in Keys \ {key} : world'[k] = world[k]
  BY ChangedWorld DEF CurrentInv, PlainInv, TypeOK
<1>2. \A k \in Keys : perImporter'[k] # Absent => k # key /\ perImporter'[k] = perImporter[k]
  BY DEF FileChanges, ClearCanonicalize, CouldCanonicalize
<1>3. ASSUME NEW k \in Keys \ {key}, NEW b
      PROVE  Answer(k.importer, k.url, b)' = Answer(k.importer, k.url, b)
  <2>1. [url |-> k.url, importer |-> k.importer] = k
    BY KeysType
  <2> QED
    BY <1>1, <2>1 DEF Answer
<1>4. Kept(perImporter)'
  BY <1>2, <1>3 DEF Kept, CurrentInv
<1>5. KeptChains'
  <2> SUFFICES ASSUME NEW u \in Urls, NEW b \in LoadBases, canonicalizeCache'[u] # Absent
               PROVE  SaysNow(canonicalizeCache[u], u, b)'
    BY DEF KeptChains
  <2>1. /\ canonicalizeCache'[u] = canonicalizeCache[u]
        /\ \A k \in 1..Len(Chain) : ~(Chain[k] = key.importer /\ Written(u) = key.url)
    BY DEF FileChanges, ClearCanonicalize, CouldCanonicalize
  <2>2. ASSUME NEW k \in 1..Len(Chain)
        PROVE  Answer(Chain[k], Written(u), b)' = Answer(Chain[k], Written(u), b)
    BY <1>3, <2>1, ChainKeyIsKey
  <2>3. SaysNow(canonicalizeCache[u], u, b)
    BY <2>1 DEF CurrentInv, KeptChains
  <2>4. CASE canonicalizeCache[u] = Miss
    BY <2>1, <2>2, <2>3, <2>4 DEF SaysNow
  <2>5. CASE canonicalizeCache[u] # Miss
    <3>1. PICK n \in 1..Len(Chain) :
            /\ canonicalizeCache[u] = Answer(Chain[n], Written(u), b)
            /\ \A k \in 1..(n - 1) : Answer(Chain[k], Written(u), b) = Miss
      BY <2>3, <2>5 DEF SaysNow
    <3>2. \A k \in 1..(n - 1) : k \in 1..Len(Chain)
      BY ImportCacheConstants
    <3> QED
      BY <2>1, <2>2, <2>5, <3>1, <3>2 DEF SaysNow
  <2> QED
    BY <2>4, <2>5
<1> QED
  BY <1>4, <1>5

LEMMA NextCurrent == CanonicalLoads /\ CurrentInv /\ [Next]_vars => CurrentInv'
<1> SUFFICES ASSUME CanonicalLoads, CurrentInv, [Next]_vars PROVE CurrentInv'
  OBVIOUS
<1>1. PlainInv'
  BY NextPlain DEF CurrentInv
<1>2. ASSUME NEW call \in Calls, Canonicalize(call) PROVE Kept(perImporter)' /\ KeptChains'
  BY <1>2, CanonicalizeCurrent
<1>3. ASSUME NEW call \in Calls, NEW k \in 1..Len(Chain), CanonicalizeFails(call, k)
      PROVE  Kept(perImporter)' /\ KeptChains'
  BY <1>3, FailureCurrent
<1>4. ASSUME NEW key \in Keys, NEW behaviour \in Behaviours(key.importer),
             FileChanges(key.importer, key.url, behaviour)
      PROVE  Kept(perImporter)' /\ KeptChains'
  BY <1>4, ChangeCurrent
<1>5. CASE UNCHANGED vars
  <2>1. UNCHANGED <<world, perImporter, canonicalizeCache>>
    BY <1>5 DEF vars, caches
  <2>2. Kept(perImporter)'
    BY <2>1, AnswersKept DEF CurrentInv, Kept
  <2>3. KeptChains'
    BY <2>1, AnswersKept DEF CurrentInv, KeptChains
  <2> QED
    BY <1>1, <2>2, <2>3 DEF CurrentInv
<1> QED
  BY <1>1, <1>2, <1>3, <1>4, <1>5 DEF Next, CurrentInv

-----------------------------------------------------------------------------
(* A load without caches                                                    *)

LEMMA ConcatAt ==
    ASSUME NEW S, NEW s \in Seq(S), NEW t \in Seq(S)
    PROVE  /\ Len(s \o t) = Len(s) + Len(t)
           /\ \A k \in 1..Len(s) : (s \o t)[k] = s[k]
           /\ \A k \in 1..Len(t) : (s \o t)[k + Len(s)] = t[k]
OBVIOUS

LEMMA SourcesAre ==
    ASSUME NEW call \in Calls, NEW off \in {0, 1}, off = (IF AsksBase(call) THEN 1 ELSE 0)
    PROVE  /\ Len(Sources(call)) = Len(Chain) + off
           /\ off = 1 => Sources(call)[1] = BaseKey(call)
           /\ \A k \in 1..Len(Chain) :
                /\ Sources(call)[k + off].importer = Chain[k]
                /\ Sources(call)[k + off].url = Written(call.url)
<1> DEFINE chain == [k \in 1..Len(Chain) |-> ChainKey(k, call.url)]
           base == IF AsksBase(call) THEN <<BaseKey(call)>> ELSE <<>>
<1>1. Len(Chain) \in Nat
  BY ImportCacheConstants
<1>2. chain \in Seq(Keys) /\ Len(chain) = Len(Chain)
  <2>1. \A k \in 1..Len(Chain) : ChainKey(k, call.url) \in Keys
    BY ChainKeyIsKey DEF Calls
  <2> QED
    BY <1>1, <2>1
<1>3. base \in Seq(Keys) /\ Len(base) = off /\ (off = 1 => base[1] = BaseKey(call))
  BY BaseKeyIsKey
<1>4. /\ Len(base \o chain) = Len(Chain) + off
      /\ off = 1 => (base \o chain)[1] = BaseKey(call)
      /\ \A k \in 1..Len(Chain) : (base \o chain)[k + off] = chain[k]
  <2> HIDE DEF base, chain
  <2>1. /\ Len(base \o chain) = Len(base) + Len(chain)
        /\ \A k \in 1..Len(base) : (base \o chain)[k] = base[k]
        /\ \A k \in 1..Len(chain) : (base \o chain)[k + Len(base)] = chain[k]
    BY <1>2, <1>3, ConcatAt
  <2> QED
    BY <1>1, <1>2, <1>3, <2>1
<1>5. \A k \in 1..Len(Chain) : chain[k].importer = Chain[k] /\ chain[k].url = Written(call.url)
  BY DEF ChainKey
<1> QED
  BY <1>4, <1>5 DEF Sources

(* The first source that recognizes the URL is the only one there is. *)
LEMMA UncachedIs ==
    ASSUME NEW call \in Calls, NEW r,
           LET from == Sources(call)
               says(k) == Answer(from[k].importer, from[k].url, call.base)
           IN  \/ r = Miss /\ \A k \in 1..Len(from) : says(k) = Miss
               \/ r # Miss /\ \E n \in 1..Len(from) :
                     r = says(n) /\ \A k \in 1..(n - 1) : says(k) = Miss
    PROVE  Uncached(call) = r
<1> DEFINE from == Sources(call)
           says(k) == Answer(from[k].importer, from[k].url, call.base)
<1>1. CASE r = Miss
  BY <1>1 DEF Uncached
<1>2. CASE r # Miss
  <2>1. PICK n \in 1..Len(from) : r = says(n) /\ \A k \in 1..(n - 1) : says(k) = Miss
    BY <1>2
  <2>2. ASSUME NEW m \in 1..Len(from), says(m) # Miss, \A k \in 1..(m - 1) : says(k) = Miss
        PROVE  m = n
    BY <1>2, <2>1, <2>2
  <2>3. Uncached(call) = says(CHOOSE k \in 1..Len(from) :
                                 says(k) # Miss /\ \A j \in 1..(k - 1) : says(j) = Miss)
    BY <1>2, <2>1 DEF Uncached
  <2>4. (CHOOSE k \in 1..Len(from) : says(k) # Miss /\ \A j \in 1..(k - 1) : says(j) = Miss) = n
    BY <1>2, <2>1, <2>2
  <2> QED
    BY <2>1, <2>3, <2>4
<1> QED
  BY <1>1, <1>2

LEMMA CurrentIsTransparent == CanonicalLoads /\ CurrentInv => CacheTransparent
<1> SUFFICES ASSUME CanonicalLoads, CurrentInv, NEW call \in Calls
             PROVE  CanonicalizeResult(call) = Uncached(call)
  BY DEF CacheTransparent
<1> DEFINE off == IF AsksBase(call) THEN 1 ELSE 0
           says(k) == Answer(Sources(call)[k].importer, Sources(call)[k].url, call.base)
           r == ChainReply(AfterBase(call), call.url, call.base)
<1>1. call.url \in Urls /\ call.base \in LoadBases /\ Len(Chain) \in Nat
  BY ImportCacheConstants DEF Calls
<1>2. /\ Len(Sources(call)) = Len(Chain) + off
      /\ off = 1 => Sources(call)[1] = BaseKey(call)
      /\ \A k \in 1..Len(Chain) : says(k + off) = Answer(Chain[k], Written(call.url), call.base)
  BY SourcesAre
<1>3. BaseReply(call) = IF AsksBase(call) THEN says(1) ELSE Miss
  BY <1>2, AfterBaseKept
<1>4. CASE BaseReply(call) # Miss
  <2>1. CanonicalizeResult(call) = says(1) /\ says(1) # Miss /\ 1 \in 1..Len(Sources(call))
    BY <1>1, <1>2, <1>3, <1>4 DEF CanonicalizeResult
  <2> QED
    BY <2>1, UncachedIs
<1>5. CASE BaseReply(call) = Miss
  <2>1. SaysNow(r, call.url, call.base)
    BY <1>1, AfterBaseKept, ChainSaysNow DEF CurrentInv
  <2>2. off = 1 => says(1) = Miss
    BY <1>3, <1>5
  <2>3. CASE r = Miss
    <3>1. \A k \in 1..Len(Chain) : says(k + off) = Miss
      BY <1>2, <2>1, <2>3 DEF SaysNow
    <3>2. \A k \in 1..Len(Sources(call)) : says(k) = Miss
      <4> SUFFICES ASSUME NEW k \in 1..Len(Sources(call)) PROVE says(k) = Miss
        OBVIOUS
      <4>1. CASE off = 1 /\ k = 1
        BY <2>2, <4>1
      <4>2. CASE ~(off = 1 /\ k = 1)
        <5>1. k - off \in 1..Len(Chain) /\ (k - off) + off = k
          BY <1>1, <1>2, <4>2
        <5> HIDE DEF says, off
        <5> QED
          BY <3>1, <5>1
      <4> QED
        BY <4>1, <4>2
    <3> QED
      BY <1>5, <2>3, <3>2, UncachedIs DEF CanonicalizeResult
  <2>4. CASE r # Miss
    <3>1. PICK n \in 1..Len(Chain) :
            /\ r = Answer(Chain[n], Written(call.url), call.base)
            /\ \A k \in 1..(n - 1) : Answer(Chain[k], Written(call.url), call.base) = Miss
      BY <2>1, <2>4 DEF SaysNow
    <3>2. n + off \in 1..Len(Sources(call)) /\ r = says(n + off)
      BY <1>1, <1>2, <3>1
    <3>3. \A k \in 1..((n + off) - 1) : says(k) = Miss
      <4> SUFFICES ASSUME NEW k \in 1..((n + off) - 1) PROVE says(k) = Miss
        OBVIOUS
      <4>1. CASE off = 1 /\ k = 1
        BY <2>2, <4>1
      <4>2. CASE ~(off = 1 /\ k = 1)
        <5>1. /\ k - off \in 1..(n - 1) /\ k - off \in 1..Len(Chain)
              /\ (k - off) + off = k
          BY <1>1, <4>2
        <5>2. says((k - off) + off) = Miss
          BY <1>2, <3>1, <5>1
        <5> HIDE DEF says, off
        <5> QED
          BY <5>1, <5>2
      <4> QED
        BY <4>1, <4>2
    <3> QED
      BY <1>5, <2>4, <3>2, <3>3, UncachedIs DEF CanonicalizeResult
  <2> QED
    BY <2>3, <2>4
<1> QED
  BY <1>4, <1>5

(* The caches never show: whatever was loaded, failed or changed before, a  *)
(* load under a base of canonical scheme gets what the importers would say  *)
(* now (Canonicalize over both caches, with ClearCanonicalize after changes).*)
THEOREM CachesNeverShow == CanonicalLoads => (Spec => []CacheTransparent)
<1> SUFFICES ASSUME CanonicalLoads PROVE Spec => []CacheTransparent
  OBVIOUS
<1>1. CurrentInv /\ [Next]_vars => CurrentInv'
  BY NextCurrent
<1>2. CurrentInv => CacheTransparent
  BY CurrentIsTransparent
<1> QED
  BY <1>1, <1>2, InitCurrent, PTL DEF Spec
=============================================================================
