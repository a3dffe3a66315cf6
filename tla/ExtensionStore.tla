--------------------------- MODULE ExtensionStore ---------------------------
(***************************************************************************)
(* extend/default_extension_store.go: the selectors of the style rules and *)
(* the @extend rules that rewrite them, in whatever order the two come,    *)
(* and the merge of a downstream module's store into its upstream's        *)
(* (evaluate.go's extendModules).                                          *)
(*                                                                         *)
(* A store's originals are the complex selectors with `orig` set; a box is *)
(* the rule it was made for.  Left out: pseudos with selectors, !optional  *)
(* and what an unsatisfied @extend reports, private placeholders.          *)
(***************************************************************************)
EXTENDS Selectors

CONSTANTS
    Sheets,     \* stylesheets: the rules, with the module, selector and @media
                \* of each, the @extends, with the rule each stands in, and
                \* the documents it is tried on
    NoMedia

VARIABLES sheet, stores, todo, merged
vars == <<sheet, stores, todo, merged>>

Modules == {"upstream", "downstream"}

-----------------------------------------------------------------------------
(* What extending yields in place of a selector. <<>> is nil, "no match";  *)
(* Bad stands for the error that stops the compilation. `by` says how: the *)
(* store's mode, the extensions, the media context of what is extended and *)
(* the store's source specificities.                                       *)
Bad == Complex(<<"bad">>, <<>>)
Failed(list) == Bad \in Range(list)
At(f, key) == IF key \in DOMAIN f THEN f[key] ELSE <<>>
SpecificityAt(f, key) == IF key \in DOMAIN f THEN f[key] ELSE 0

Original(simples) == [sel |-> Complex(<<>>, <<Component(simples, <<>>)>>),
                      isOriginal |-> TRUE, media |-> NoMedia]
Extender(e) == [sel |-> e.extender, isOriginal |-> FALSE, media |-> e.media]
Compatible(extender, media) == extender.media \in {NoMedia, media}

sourceSpecificityFor(specificity, x) ==
    Max({0} \cup {SpecificityAt(specificity, s) :
                    s \in UNION {Range(x.comps[i].sel) : i \in DOMAIN x.comps}})

\* from the back: what a selector that survives, or an earlier one, covers goes
trim(selectors, originals, specificity) ==
    LET Covered(x, others) ==
            \E o \in others : /\ IsSuperselector(o, x)
                              /\ Specificity(o) >= sourceSpecificityFor(specificity, x)
        Step(acc, i) ==
            LET x    == selectors[i]
                same == {j \in 1..acc.n : SameComplex(acc.result[j], x)}
                j    == Min(same)
            IN  IF i \in originals
                THEN IF same # {}
                     THEN [acc EXCEPT !.result = <<@[j]>> \o RemoveAt(@, j)]
                     ELSE [n |-> acc.n + 1, result |-> <<x>> \o acc.result]
                ELSE IF Covered(x, Range(acc.result) \cup Range(SubSeq(selectors, 1, i - 1)))
                     THEN acc ELSE [acc EXCEPT !.result = <<x>> \o @]
    IN  IF Len(selectors) > 100 THEN selectors
        ELSE FoldRight(LAMBDA i, acc : Step(acc, i), [i \in DOMAIN selectors |-> i],
                       [n |-> 0, result |-> <<>>]).result

\* what was found, unless an extender is of another media context
Permitted(by, path, found) ==
    IF found # <<>> /\ \E e \in Range(path) : ~Compatible(e, by.media) THEN <<Bad>> ELSE found

\* a mutant: only the extenders are unified
unifyExtendersAlone(by, path) ==
    LET others == SelectSeq(path, LAMBDA e : ~e.isOriginal)
    IN  IF others = <<>> THEN <<>> ELSE UnifyComplex([i \in DOMAIN others |-> others[i].sel])

\* the originals' simples make up one compound, which leads
unifyExtenders(by, path) ==
    LET own    == SelectSeq(path, LAMBDA e : e.isOriginal)
        others == SelectSeq(path, LAMBDA e : ~e.isOriginal)
        simples == FlattenSeq([i \in DOMAIN own |-> Last(own[i].sel.comps).sel])
    IN  IF \E e \in Range(others) : IsUseless(e.sel) THEN <<>>
        ELSE Permitted(by, path, UnifyComplex(
                (IF own = <<>> THEN <<>> ELSE <<Complex(<<>>, <<Component(simples, <<>>)>>)>>)
                \o [i \in DOMAIN others |-> others[i].sel]))

extendSimple(by, s) ==
    (IF by.mode = "replace" THEN <<>> ELSE <<Original(<<s>>)>>)
        \o [i \in DOMAIN by.extensions[s] |-> Extender(by.extensions[s][i])]

\* the ways to replace a compound's parts: what comes before the first extended simple
\* selector, then every simple selector by itself
OptionsOf(by, simples, hits) ==
    LET first == Min(hits)
    IN  (IF first = 1 THEN <<>> ELSE << <<Original(SubSeq(simples, 1, first - 1))>> >>)
        \o [i \in 1..Len(simples) - first + 1 |->
              LET s == simples[first + i - 1]
              IN  IF s \in DOMAIN by.extensions THEN extendSimple(by, s)
                  ELSE <<Original(<<s>>)>>]
Hung(combs, list) ==
    SelectSeq([i \in DOMAIN list |-> WithAdditionalCombinators(list[i], combs)],
              LAMBDA x : ~IsUseless(x))
\* the compound itself, if it stays, is the first path of all
Itself(path, combs) ==
    Complex(<<>>, <<Component(
        FlattenSeq([i \in DOMAIN path |-> Last(path[i].sel.comps).sel]), combs)>>)
TrimmedWith(itself, unified, combs, inOriginal, by) ==
    IF Failed(unified) THEN <<Bad>>
    ELSE trim(itself \o Hung(combs, unified),
              IF inOriginal /\ itself # <<>> THEN {1} ELSE {}, by.specificity)
Unified(by, combs, inOriginal, paths) ==
    LET asIs == by.mode # "replace"
    IN  TrimmedWith(IF asIs THEN <<Itself(paths[1], combs)>> ELSE <<>>,
                    FlattenSeq([p \in DOMAIN paths |->
                        IF asIs /\ p = 1 THEN <<>> ELSE unifyExtenders(by, paths[p])]),
                    combs, inOriginal, by)
Replaced(by, combs, inOriginal, options) ==
    IF Len(options) > 1 THEN Unified(by, combs, inOriginal, Paths(options))
    ELSE IF \E e \in Range(options[1]) : ~Compatible(e, by.media) THEN <<Bad>>
    ELSE Hung(combs, [i \in DOMAIN options[1] |-> options[1][i].sel])

extendCompound(by, component, inOriginal) ==
    LET simples == component.sel
        targets == DOMAIN by.extensions
        hits    == {i \in DOMAIN simples : simples[i] \in targets}
    IN  IF \/ hits = {}
           \/ /\ by.mode # "normal" /\ Cardinality(targets) >= 2
              /\ targets # {simples[i] : i \in hits}
        THEN <<>>
        ELSE Replaced(by, component.combs, inOriginal, OptionsOf(by, simples, hits))

\* the options of a complex selector's components, given what each was extended to
ComplexOptions(x, extended, hits) ==
    LET first == Min(hits)
        leading == SelectSeq(extended[1], LAMBDA n : n.lead \in {<<>>, x.lead})
        Options(i) ==
            IF i \notin hits THEN <<Complex(<<>>, <<x.comps[i]>>)>>
            ELSE IF i > 1 \/ x.lead = <<>> THEN extended[i]
            ELSE [n \in DOMAIN leading |-> Complex(x.lead, leading[n].comps)]
    IN  (IF first = 1 THEN <<>> ELSE << <<Complex(x.lead, SubSeq(x.comps, 1, first - 1))>> >>)
        \o [i \in 1..Len(x.comps) - first + 1 |-> Options(first + i - 1)]
WeaveAll(paths) == FlattenSeq([p \in DOMAIN paths |-> Weave(paths[p])])
FirstIsOriginal(x, woven) ==
    IF x.orig /\ woven # <<>> THEN [woven EXCEPT ![1].orig = TRUE] ELSE woven
WovenFrom(x, extended) ==
    LET hits == {i \in DOMAIN extended : extended[i] # <<>>}
    IN  IF hits = {} THEN <<>>
        ELSE IF \E i \in hits : Failed(extended[i]) THEN <<Bad>>
        ELSE FirstIsOriginal(x, WeaveAll(Paths(ComplexOptions(x, extended, hits))))

extendComplex(by, x) ==
    IF Len(x.lead) > 1 THEN <<>>
    ELSE WovenFrom(x, [i \in DOMAIN x.comps |-> extendCompound(by, x.comps[i], x.orig)])

TrimAll(by, all) ==
    IF Failed(all) THEN <<Bad>> ELSE trim(all, {i \in DOMAIN all : all[i].orig}, by.specificity)
ExtendedTo(by, list, extended) ==
    IF \A i \in DOMAIN list : extended[i] = <<>> THEN list
    ELSE TrimAll(by, FlattenSeq([i \in DOMAIN list |->
                        IF extended[i] = <<>> THEN <<list[i]>> ELSE extended[i]]))
extendList(by, list) ==
    ExtendedTo(by, list, [i \in DOMAIN list |-> extendComplex(by, list[i])])

-----------------------------------------------------------------------------
(* The store. `selectors` leads from a simple selector to the boxes that    *)
(* ever held it, `extensions` from a target to its extensions in the order *)
(* of their extenders, `extensionsByExtender` from a simple selector to    *)
(* the extensions in whose extender it occurs.                             *)
NewStore == [boxes |-> <<>>, selectors |-> <<>>, extensions |-> <<>>,
             extensionsByExtender |-> <<>>, specificity |-> <<>>, failed |-> FALSE]
By(st, extensions, media) ==
    [mode |-> "normal", extensions |-> extensions, media |-> media,
     specificity |-> st.specificity]

SimplesOf(x) == FlattenSeq([i \in DOMAIN x.comps |-> x.comps[i].sel])
SimplesIn(list) == UNION {Range(SimplesOf(list[i])) : i \in DOMAIN list}
Boxes(st, s) == IF s \in DOMAIN st.selectors THEN st.selectors[s] ELSE {}

registerSelector(st, box, list, media) ==
    [st EXCEPT
       !.boxes = (box :> [list |-> list, media |-> media]) @@ @,
       !.selectors = [s \in SimplesIn(list) |-> Boxes(st, s) \cup {box}] @@ @,
       !.failed = @ \/ Failed(list)]

\* a mutant: what was written is not remembered
AddSelectorUnmarked(st, box, list, media) ==
    registerSelector(st, box, extendList(By(st, st.extensions, media), list), media)

AddSelector(st, box, list, media) ==
    LET visible == \E i \in DOMAIN list : ~IsInvisible(list[i])
        marked  == [i \in DOMAIN list |-> [list[i] EXCEPT !.orig = visible]]
    IN  registerSelector(st, box,
            IF st.extensions = <<>> THEN marked
            ELSE extendList(By(st, st.extensions, media), marked), media)

\* where an extension with this extender stands among a target's, 0 for nowhere
Position(sources, x) ==
    LET same == {i \in DOMAIN sources : SameComplex(sources[i].extender, x)}
    IN  IF same = {} THEN 0 ELSE Min(same)
SameMedia(a, b) == a.media = NoMedia \/ b.media = NoMedia \/ a.media = b.media
MergeExtensions(a, b) == [a EXCEPT !.media = IF @ = NoMedia THEN b.media ELSE @]
Put(sources, e) ==
    LET p == Position(sources, e.extender)
    IN  IF p = 0 THEN Append(sources, e) ELSE [sources EXCEPT ![p] = e]
PutIn(extensions, e) == (e.target :> Put(At(extensions, e.target), e)) @@ extensions
Index(byExtender, e) ==
    FoldLeft(LAMBDA f, s : (s :> Append(At(f, s), e)) @@ f, byExtender, SimplesOf(e.extender))

\* a mutant: the extension cannot be found by its extender
AddSourceUnindexed(st, e) == [st EXCEPT !.extensions = PutIn(@, e)]

\* one of a target's extensions, new or merged with the one that has its extender
AddSource(st, e) ==
    LET sources == At(st.extensions, e.target)
        p       == Position(sources, e.extender)
    IN  IF p = 0
        THEN [st EXCEPT !.extensions = PutIn(@, e), !.extensionsByExtender = Index(@, e)]
        ELSE [st EXCEPT !.extensions = PutIn(@, MergeExtensions(sources[p], e)),
                        !.failed = @ \/ ~SameMedia(sources[p], e)]

\* the extensions whose extender the new ones extend, and what those add
AddVariant(a, v, new) ==
    [st |-> AddSource(a.st, v),
     additional |->
        IF Position(At(a.st.extensions, v.target), v.extender) # 0 \/ v.target \notin DOMAIN new
        THEN a.additional ELSE PutIn(a.additional, v)]
AddVariants(acc, e, list, new) ==
    LET variants == IF list # <<>> /\ SameComplex(list[1], e.extender) THEN Tail(list) ELSE list
    IN  IF Failed(list) THEN [acc EXCEPT !.st.failed = TRUE]
        ELSE FoldLeft(LAMBDA a, x : AddVariant(a, [e EXCEPT !.extender = x], new), acc, variants)
extendExistingExtensions(st, existing, new) ==
    FoldLeft(LAMBDA acc, e :
                AddVariants(acc, e, extendComplex(By(acc.st, new, e.media), e.extender), new),
             [st |-> st, additional |-> <<>>], existing)

extendExistingSelectors(st, boxes, new) ==
    FoldLeft(LAMBDA a, box :
                registerSelector(a, box,
                    extendList(By(st, new, st.boxes[box].media), st.boxes[box].list),
                    st.boxes[box].media),
             st, SetToSeq(boxes))

\* the extensions that are new extend what is there: extensions, then selectors
ExtendAll(existing, boxes, new) ==
    extendExistingSelectors(existing.st, boxes,
        FoldLeft(PutIn, new, FlattenSeq(SetToSeq(Range(existing.additional)))))
ExtendNew(added, existing, boxes, new) ==
    ExtendAll(extendExistingExtensions(added, existing, new), boxes, new)

AddExtension(st, extender, target, media) ==
    LET boxes    == Boxes(st, target)
        chained  == target \in DOMAIN st.extensionsByExtender
        Ext(x)   == [extender |-> x, target |-> target, media |-> media]
        useful   == SelectSeq(extender, LAMBDA x : ~IsUseless(x))
        fresh    == SelectSeq(useful, LAMBDA x : Position(At(st.extensions, target), x) = 0)
        Specify(f, x) == FoldLeft(LAMBDA g, s : g @@ (s :> Specificity(x)), f, SimplesOf(x))
        added    == [FoldLeft(AddSource,
                        [st EXCEPT !.extensions = @ @@ (target :> <<>>)],
                        [i \in DOMAIN useful |-> Ext(useful[i])])
                       EXCEPT !.specificity = FoldLeft(Specify, @, fresh)]
    IN  IF fresh = <<>> \/ (boxes = {} /\ ~chained) THEN added
        ELSE ExtendNew(added, IF chained THEN added.extensionsByExtender[target] ELSE <<>>, boxes,
                target :> FoldLeft(Put, <<>>, [i \in DOMAIN fresh |-> Ext(fresh[i])]))

\* a downstream store's extensions reach what is here, and not one another
AddExtensions(st, other) ==
    LET targets  == SetToSeq(DOMAIN other.extensions)
        reached  == SelectSeq(targets, LAMBDA t :
                       t \in DOMAIN st.extensionsByExtender \/ t \in DOMAIN st.selectors)
        incoming == FlattenSeq([i \in DOMAIN targets |-> other.extensions[targets[i]]])
        Add(a, e) ==
            LET sources == At(a.extensions, e.target)
                p       == Position(sources, e.extender)
            IN  IF p = 0 THEN [a EXCEPT !.extensions = PutIn(@, e)]
                ELSE [a EXCEPT !.extensions = PutIn(@, MergeExtensions(sources[p], e)),
                               !.failed = @ \/ ~SameMedia(sources[p], e)]
        added    == FoldLeft(Add, [st EXCEPT !.specificity = other.specificity @@ @], incoming)
        new      == [t \in Range(reached) |->
                       LET theirs == other.extensions[t]
                       IN  [i \in DOMAIN theirs |->
                              added.extensions[t][Position(added.extensions[t], theirs[i].extender)]]]
        existing == FlattenSeq([i \in DOMAIN targets |->
                                  At(st.extensionsByExtender, targets[i])])
        boxes    == UNION {Boxes(st, t) : t \in Range(targets)}
    IN  IF new = <<>> THEN added
        ELSE extendExistingSelectors(
                extendExistingExtensions(added, existing, new).st, boxes, new)

-----------------------------------------------------------------------------
Running == \A m \in Modules : ~stores[m].failed

Init ==
    /\ sheet \in Sheets
    /\ stores = [m \in Modules |-> NewStore]
    /\ todo = {[kind |-> "rule", name |-> r, module |-> sheet.rules[r].module] :
                  r \in DOMAIN sheet.rules}
              \cup {[kind |-> "extend", in |-> e.in, target |-> e.target] : e \in sheet.extends}
    /\ merged = FALSE

(* A style rule, before or after the @extends that meet it. *)
VisitStyleRule(item) ==
    LET r == sheet.rules[item.name]
    IN  /\ item \in todo /\ item.kind = "rule" /\ Running
        /\ stores' = [stores EXCEPT ![r.module] = AddSelector(@, item.name, r.sel, r.media)]
        /\ todo' = todo \ {item}
        /\ UNCHANGED <<sheet, merged>>

(* An @extend in a style rule, whose extender is what the rule's selector   *)
(* has become by now.                                                       *)
VisitExtendRule(item) ==
    LET r == sheet.rules[item.in]
        st == stores[r.module]
    IN  /\ item \in todo /\ item.kind = "extend" /\ Running
        /\ item.in \in DOMAIN st.boxes
        /\ stores' = [stores EXCEPT ![r.module] =
                        AddExtension(@, st.boxes[item.in].list, item.target, r.media)]
        /\ todo' = todo \ {item}
        /\ UNCHANGED <<sheet, merged>>

(* When both modules are evaluated the downstream one's store is merged.    *)
extendModules ==
    /\ todo = {} /\ ~merged /\ Running
    /\ stores' = IF stores["downstream"].extensions = <<>> THEN stores
                 ELSE [stores EXCEPT !["upstream"] = AddExtensions(@, stores["downstream"])]
    /\ merged' = TRUE
    /\ UNCHANGED <<sheet, todo>>

Next == extendModules \/ \E item \in todo : VisitStyleRule(item) \/ VisitExtendRule(item)
Spec == Init /\ [][Next]_vars

-----------------------------------------------------------------------------
(* What @extend means: an element the extender matches is matched by the   *)
(* target too, in the rules of the extension's own module and, once they   *)
(* are merged, of the upstream one.                                        *)
Seen(e) == [kind |-> "extend", in |-> e.in, target |-> e.target] \notin todo
Extends(m, media) == {e \in sheet.extends : /\ Seen(e) /\ sheet.rules[e.in].module = m
                                            /\ sheet.rules[e.in].media \in {NoMedia, media}}
RECURSIVE Closure(_, _)
Closure(doc, extends) ==
    LET more == [n \in DOMAIN doc |->
                   [doc[n] EXCEPT !.own = @ \cup
                      {e.target : e \in {e \in extends :
                                           MatchesList(doc, n, sheet.rules[e.in].sel)}}]]
    IN  IF more = doc THEN doc ELSE Closure(more, extends)
Meant(doc, r) ==
    LET m == sheet.rules[r].module
        media == sheet.rules[r].media
        below == IF m = "upstream" /\ merged THEN Closure(doc, Extends("downstream", media)) ELSE doc
    IN  MatchesList(Closure(below, Extends(m, media)), Len(doc), sheet.rules[r].sel)

Emitted == {r \in DOMAIN sheet.rules : r \in DOMAIN stores[sheet.rules[r].module].boxes}
Current(r) == stores[sheet.rules[r].module].boxes[r].list

(* Whatever the order of rules and @extends, a rule's selector matches      *)
(* nothing that the rule and the extensions do not mean: every complex      *)
(* selector in it is one that @extend, as defined above, accounts for in    *)
(* all the documents the selector can match.                                *)
ExtendIsSound ==
    Running => \A r \in Emitted : \A x \in Range(Current(r)) :
        \A doc \in Instances(x) : Meant(doc, r)

(* ... and it matches all that they mean, in documents whose ancestors and  *)
(* siblings answer to one simple selector each (selectors that need two in  *)
(* one ancestor are deliberately left out of what is woven).                *)
ExtendIsComplete ==
    Running => \A r \in Emitted : \A doc \in sheet.documents :
        Meant(doc, r) => MatchesList(doc, Len(doc), Current(r))

(* Both: an @extend means the same before and after the rules it extends,   *)
(* in whatever order the modules and the other extensions come.             *)
ExtendIsExact == ExtendIsSound /\ ExtendIsComplete

(* The first law of extend: no selector that was written is lost.           *)
OriginalsStay ==
    Running => \A r \in Emitted : \A x \in Range(sheet.rules[r].sel) :
        \E y \in Range(Current(r)) : SameComplex(x, y)

(* The second law of extend: a selector generated for an extender is at     *)
(* least as specific as the extender.  Stated where the target is all of    *)
(* the rule's first compound, so that the extender takes its place.         *)
InPlace(x, r) == Concatenate(
    [x EXCEPT !.comps = Front(@) \o <<[Last(@) EXCEPT !.combs = r.comps[1].combs]>>],
    [r EXCEPT !.comps = Tail(@)])
SecondLaw ==
    Running => \A e \in sheet.extends : \A r \in Emitted :
        LET rule == sheet.rules[r].sel[1]
        IN  Seen(e) /\ Len(rule.comps) > 1 /\ rule.comps[1].sel = <<e.target>> =>
              \A x \in Range(sheet.rules[e.in].sel) : \E y \in Range(Current(r)) :
                 /\ IsSuperselector(y, InPlace(x, rule))
                 /\ Specificity(y) >= Specificity(x)
=============================================================================
