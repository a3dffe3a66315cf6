---------------------------- MODULE ModuleLoading ----------------------------
(***************************************************************************)
(* How the evaluator loads stylesheets (eval/evaluate_statement.go and     *)
(* evaluate.go): @use, @forward, @import and meta.load-css, the            *)
(* configurations that travel with them (configuration/), the modules they *)
(* leave in the visitor, and the CSS of all of them in one stylesheet.     *)
(*                                                                         *)
(* A stylesheet is a sequence of top-level statements.  The Go call stack  *)
(* is the variable stack: a frame holds what the visitor's fields hold     *)
(* while that file is evaluated, and what evaluateModule and               *)
(* visitDynamicImport save and restore is the frame below.  A name is a    *)
(* sequence of segments, so that a prefix of a @forward is one of them.    *)
(*                                                                         *)
(* Left out: extensions, functions and mixins as members, modules without  *)
(* a namespace, private names, built-in modules, and @import and load-css  *)
(* below a style rule.                                                     *)
(***************************************************************************)
EXTENDS Integers, Sequences, FiniteSets, SequencesExt

CONSTANTS Files,      \* the canonical URLs stylesheets have
          Entry,      \* the entry point
          Programs,   \* what the files may hold: functions from Files
          Null,       \* the SassScript value null
          None

ASSUME LoadingConstants == Entry \in Files /\ None \notin Files /\ Null # None

(* What the parser lets a statement hold: names, files, and a with clause   *)
(* or none.                                                                 *)
Names == Seq(STRING)
IsStatement(s) ==
    /\ s.op = "declare" => s.name \in Names
    /\ s.op \in {"use", "forward", "loadcss", "import"} => s.url \in Files
    /\ s.op \in {"use", "forward", "loadcss"} => s.with = None \/ DOMAIN s.with \subseteq Names
    /\ s.op = "forward" => s.rule.prefix \in Names
ASSUME ProgramsAssumption ==
    \A p \in Programs : \A f \in Files :
        Len(p[f]) \in Nat /\ \A k \in 1..Len(p[f]) : IsStatement(p[f][k])

(* It refuses a @use or @forward after anything but those, variables and    *)
(* comments (isUseAllowed).                                                 *)
ASSUME UseFirst ==
    \A p \in Programs : \A f \in Files : \A j, k \in 1..Len(p[f]) :
        j < k /\ p[f][k].op \in {"use", "forward"}
          => p[f][j].op \in {"use", "forward", "declare", "comment"}

VARIABLES program,  \* the statements of each file
          stack,    \* the files being evaluated, the entry point first
          active,   \* v.activeModules
          modules,  \* v.modules and v.moduleConfigurations
          stores,   \* the value map of every configuration made
          status,   \* "running", "done", or the error that ended it
          output,   \* the combined CSS
          asked,    \* history: the values of explicit with clauses
          taken     \* history: which configured value set which variable

vars == <<program, stack, active, modules, stores, status, output, asked, taken>>

---------------------------------------------------------------------------
(* A fold from the left, for a TLC that evaluates the arguments of an       *)
(* operator at each of their uses when it looks whether an action is        *)
(* enabled.                                                                 *)
Fold(op(_, _), base, seq) ==
    LET acc[k \in 0..Len(seq)] ==
            IF k = 0 THEN base ELSE CHOOSE r \in {op(a, seq[k]) : a \in {acc[k - 1]}} : TRUE
    IN  acc[Len(seq)]

(* A map with an entry put in, and one map over another.                    *)
Put(f, n, v) == [i \in DOMAIN f \cup {n} |-> IF i = n THEN v ELSE f[i]]
Over(f, g)   == [i \in DOMAIN f \cup DOMAIN g |-> IF i \in DOMAIN f THEN f[i] ELSE g[i]]

---------------------------------------------------------------------------
(* @forward rules and what is visible through them                         *)

Prefixed(rule, n) == rule.prefix \o n
Admits(rule, n) == CASE rule.mode = "all"  -> TRUE
                     [] rule.mode = "show" -> n \in rule.names
                     [] rule.mode = "hide" -> n \notin rule.names

(* ForwardedModuleView: members by their outer name, the prefix first and   *)
(* then the show or hide list, which names outer names.                     *)
ForwardedView(rule, exports) ==
    LET outer == {n \in {Prefixed(rule, i) : i \in DOMAIN exports} : Admits(rule, n)}
    IN  [n \in outer |-> exports[CHOOSE i \in DOMAIN exports : Prefixed(rule, i) = n]]

(* Its CouldHaveBeenConfigured strips the prefix before it asks the list.   *)
ForwardedConfigurable(rule, mod) ==
    {n \in DOMAIN ForwardedView(rule, mod.exports) :
        \E i \in mod.configurable : Prefixed(rule, i) = n /\ Admits(rule, i)}

Forwarded(rule, url, mod) ==
    [url |-> url, exports |-> ForwardedView(rule, mod.exports),
     configurable |-> ForwardedConfigurable(rule, mod)]

(* ShadowedModuleView: what is left of a view whose names others took.      *)
Shadowed(view, names) ==
    [view EXCEPT !.exports = Restrict(@, DOMAIN @ \ names), !.configurable = @ \ names]

---------------------------------------------------------------------------
(* Configurations.  One is a value map, shared by all that was split from   *)
(* it through @forward rules, and the names one sees of it: the map is also *)
(* what SameOriginal compares.  Where the code has nil there is no store.   *)

NoConfiguration == [store |-> 0, sees |-> <<>>, explicit |-> FALSE]
NewConfiguration(heap, values, explicit) ==
    [store |-> Len(heap) + 1, sees |-> [n \in DOMAIN values |-> n], explicit |-> explicit]

Visible(heap, c) == {n \in DOMAIN c.sees : c.sees[n] \in DOMAIN heap[c.store]}
ConfigurationValues(heap, c) == [n \in Visible(heap, c) |-> heap[c.store][c.sees[n]]]
IsEmpty(heap, c) == Visible(heap, c) = {}

RemoveNames(heap, c, names) ==
    [heap EXCEPT ![c.store] = Restrict(@, DOMAIN @ \ {c.sees[n] : n \in names \cap DOMAIN c.sees})]

ThroughForward(heap, c, rule) ==
    IF IsEmpty(heap, c) THEN c
    ELSE [c EXCEPT !.sees =
            [n \in {i \in {SubSeq(o, Len(rule.prefix) + 1, Len(o)) :
                              o \in {o \in DOMAIN @ : IsPrefix(rule.prefix, o)}} : Admits(rule, i)}
               |-> @[Prefixed(rule, n)]]]

(* The values of a with clause, each with the configuration it was made for.*)
WithValues(heap, with) ==
    [n \in DOMAIN with |-> [val |-> with[n].val, from |-> <<Len(heap) + 1, n>>]]
Asks(heap, c) ==
    IF c = NoConfiguration \/ ~c.explicit THEN {}
    ELSE {v.from : v \in {v \in Range(heap[c.store]) : v.val # Null /\ v.from[1] = c.store}}

(* addForwardConfiguration: a guarded entry leaves a value that is already  *)
(* there, and takes it out of the ambient configuration.                    *)
Guarded(with) == {n \in DOMAIN with : with[n].guarded}
AddForwardConfiguration(heap, adjusted, with) ==
    LET old   == ConfigurationValues(heap, adjusted)
        kept  == {n \in Guarded(with) \cap DOMAIN old : old[n].val # Null}
        heap1 == RemoveNames(heap, adjusted, Guarded(with))
        vals  == Over(Restrict(old, kept), Over(WithValues(heap1, with), old))
        expl  == adjusted.explicit \/ IsEmpty(heap1, adjusted)
    IN  [heap  |-> Append(heap1, vals), given |-> NewConfiguration(heap1, vals, expl)]

(* Mutant: the ambient configuration keeps what the forwarded module used.   *)
SettleForwardAdded(heap, adjusted, given, with) ==
    RemoveNames(heap, given, Visible(heap, given) \ DOMAIN with)

(* What VisitForwardRule does to both configurations after the load.        *)
SettleForward(heap, adjusted, given, with) ==
    LET used  == Visible(heap, adjusted) \ Visible(heap, given)
        heap1 == RemoveNames(heap, adjusted, used \ (DOMAIN with \ Guarded(with)))
    IN  RemoveNames(heap1, given, Visible(heap1, given) \ DOMAIN with)

---------------------------------------------------------------------------
(* Modules and the stylesheet under construction                           *)

Node(kind, f) == [kind |-> kind, file |-> f.file, at |-> f.pc]

(* The children of the root, with the block of @imports it starts with.     *)
AddImport(f, node) ==
    IF f.endOfImports = Len(f.root)
    THEN [f EXCEPT !.root = Append(@, node), !.endOfImports = @ + 1]
    ELSE [f EXCEPT !.outOfOrder = Append(@, node)]
AddComment(f, node) ==
    [f EXCEPT !.endOfImports = IF @ = Len(f.root) THEN @ + 1 ELSE @,
              !.root = Append(@, node)]
AddChild(f, node) == [f EXCEPT !.root = Append(@, node)]

(* VisitCssStylesheet of a combined stylesheet, and the importedCssVisitor, *)
(* whose comments do not extend the block of imports.                       *)
CombinedCss(f, nodes) ==
    Fold(LAMBDA g, n : CASE n.kind = "import"  -> AddImport(g, n)
                             [] n.kind = "comment" -> AddComment(g, n)
                             [] n.kind = "rule"    -> AddChild(g, n), f, nodes)
ImportedCss(f, nodes) ==
    Fold(LAMBDA g, n : IF n.kind = "import" THEN AddImport(g, n) ELSE AddChild(g, n),
             f, nodes)
WithChildren(f, g) == [f EXCEPT !.root = g.root, !.endOfImports = g.endOfImports,
                                !.outOfOrder = g.outOfOrder]
VisitCss(f, nodes)         == WithChildren(f, CombinedCss(f, nodes))
VisitImportedCss(f, nodes) == WithChildren(f, ImportedCss(f, nodes))

Children(f) == SubSeq(f.root, 1, f.endOfImports) \o f.outOfOrder
                 \o SubSeq(f.root, f.endOfImports + 1, Len(f.root))

(* ToModule and ToDummyModule.  A forwarded variable keeps the identity it  *)
(* has where it is declared, also when the module declares the name itself. *)
ForwardedExports(f) ==
    [n \in UNION {DOMAIN v.exports : v \in f.forwarded} |->
        (CHOOSE v \in f.forwarded : n \in DOMAIN v.exports).exports[n]]
ContainsCss(mods, f, css) ==
    css # <<>> \/ DOMAIN f.comments # {} \/ \E k \in 1..Len(f.upstream) : mods[f.upstream[k]].hasCss
ToModule(mods, f, css) ==
    [css |-> css, comments |-> f.comments, upstream |-> f.upstream,
     hasCss |-> ContainsCss(mods, f, css), vars |-> f.vars,
     exports |-> Over(ForwardedExports(f), [n \in DOMAIN f.vars |-> <<f.file, n>>]),
     configurable |-> f.configurable \cup UNION {v.configurable : v \in f.forwarded},
     conf |-> f.conf]
ToDummyModule(mods, f) == [ToModule(mods, f, <<>>) EXCEPT
    !.comments = <<>>,
    !.hasCss = \E k \in 1..Len(f.upstream) : mods[f.upstream[k]].hasCss]

(* indexAfterImports: the leading nodes up to the last @import among        *)
(* imports and comments.                                                    *)
IndexAfterImports(nodes) ==
    LET lead == {k \in 1..Len(nodes) : nodes[k].kind = "import"
                                         /\ \A j \in 1..k : nodes[j].kind # "rule"}
    IN  IF lead = {} THEN 0 ELSE Max(lead)

(* combineCss: depth first over the upstream modules that contain CSS, each *)
(* after what it depends on.  todo is what is left of visitModule's calls.  *)
Visit(url, comments) == [task |-> "visit", url |-> url, comments |-> comments]
Emit(url)            == [task |-> "emit", url |-> url, comments |-> <<>>]
CommentsOf(mod, url) == IF url \in DOMAIN mod.comments THEN mod.comments[url] ELSE <<>>
(* Mutant: a module's CSS before that of the modules it depends on.         *)
EmitFirst(mods, url) ==
    [k \in 1..Len(mods[url].upstream) + 1 |->
        IF k = 1 THEN Emit(url)
        ELSE Visit(mods[url].upstream[k - 1], CommentsOf(mods[url], mods[url].upstream[k - 1]))]
VisitModule(mods, url) ==
    [k \in 1..Len(mods[url].upstream) + 1 |->
        IF k > Len(mods[url].upstream) THEN Emit(url)
        ELSE Visit(mods[url].upstream[k], CommentsOf(mods[url], mods[url].upstream[k]))]
Commented(w, comments) ==
    IF w.css = <<>> THEN [w EXCEPT !.imports = @ \o comments]
                    ELSE [w EXCEPT !.css = @ \o comments]
CombineStep(mods, w) ==
    IF w.todo = <<>> THEN w
    ELSE LET t    == Head(w.todo)
             rest == [w EXCEPT !.todo = Tail(@)]
             css  == mods[t.url].css
             k    == IndexAfterImports(css)
         IN  IF t.task = "emit"
             THEN [rest EXCEPT !.imports = @ \o SubSeq(css, 1, k),
                               !.css = @ \o SubSeq(css, k + 1, Len(css))]
             ELSE IF ~mods[t.url].hasCss THEN rest
             ELSE IF t.url \in w.seen THEN Commented(rest, t.comments)
             ELSE [Commented(rest, t.comments) EXCEPT !.seen = @ \cup {t.url},
                                                      !.todo = VisitModule(mods, t.url) \o @]
Tasks(mods) == UNION {{u} \X (1..Len(mods[u].upstream) + 1) : u \in DOMAIN mods}
CombineCss(mods, url) ==
    LET w == Fold(LAMBDA w, k : CombineStep(mods, w),
                  [todo |-> <<Visit(url, <<>>)>>, seen |-> {}, imports |-> <<>>, css |-> <<>>],
                  [k \in 1..Cardinality(Tasks(mods)) + 1 |-> k])
    IN  w.imports \o w.css

---------------------------------------------------------------------------
(* Frames                                                                  *)

(* by is how the file came to be evaluated: the entry point ("run"), a      *)
(* module ("load"), an @import in the environment of the importing file     *)
(* ("inject") or in one of its own ("import").  load is what the statement  *)
(* below waits for.                                                         *)
Fresh(file, by, conf, load) ==
    [file |-> file, pc |-> 1, by |-> by, conf |-> conf, load |-> load,
     vars |-> <<>>, configurable |-> {}, imported |-> {}, forwarded |-> {},
     used |-> {}, upstream |-> <<>>, root |-> <<>>, endOfImports |-> 0,
     outOfOrder |-> <<>>, comments |-> <<>>]

NoLoad == [given |-> NoConfiguration, adjusted |-> NoConfiguration]
Top    == stack[Len(stack)]
Below  == Front(stack)
Stmt   == program[Top.file][Top.pc]
AtStmt(op) == /\ status = "running"
              /\ Top.pc <= Len(program[Top.file])
              /\ Stmt.op = op
AtEnd == status = "running" /\ Top.pc > Len(program[Top.file])

Advance(f) == [f EXCEPT !.pc = @ + 1]
Fail(error) == /\ status' = error
               /\ UNCHANGED <<program, stack, active, modules, stores, output, taken>>

EmptyConfiguration == [store |-> 1, sees |-> <<>>, explicit |-> FALSE]

Init == /\ program \in Programs
        /\ stack = <<Fresh(Entry, "run", EmptyConfiguration, NoLoad)>>
        /\ active = {Entry}
        /\ modules = <<>>
        /\ stores = << <<>> >>
        /\ status = "running"
        /\ output = <<>>
        /\ asked = {}
        /\ taken = <<>>

---------------------------------------------------------------------------
(* Statements that load nothing                                            *)

Emitting(op, add(_, _), kind) ==
    /\ AtStmt(op)
    /\ stack' = Append(Below, Advance(add(Top, Node(kind, Top))))
    /\ UNCHANGED <<program, active, modules, stores, status, output, asked, taken>>

VisitStyleRule    == Emitting("rule", AddChild, "rule")
VisitLoudComment  == Emitting("comment", AddComment, "comment")
VisitStaticImport == Emitting("static", AddImport, "import")

(* GetVariable and SetVariable at the root: the file's own variable, else   *)
(* the one an @import brought in, which stays where it is declared.         *)
Owners(f, n) == {v.exports[n] : v \in {v \in f.imported : n \in DOMAIN v.exports}}
GetVariable(f, n) ==
    IF n \in DOMAIN f.vars THEN f.vars[n]
    ELSE IF Owners(f, n) = {} THEN None
    ELSE LET o == CHOOSE o \in Owners(f, n) : TRUE IN modules[o[1]].vars[o[2]]
SetVariable(f, n, v) ==
    IF n \in DOMAIN f.vars \/ Owners(f, n) = {}
    THEN /\ stack' = Append(Below, Advance([f EXCEPT !.vars = Put(@, n, v)]))
         /\ UNCHANGED modules
    ELSE LET o == CHOOSE o \in Owners(f, n) : TRUE
         IN  /\ modules' = [modules EXCEPT ![o[1]].vars[o[2]] = v]
             /\ stack' = Append(Below, Advance(f))

(* VisitVariableDeclaration: a guarded one takes its name out of the        *)
(* configuration, whether or not the value there is used.                   *)
VisitVariableDeclaration ==
    /\ AtStmt("declare")
    /\ LET n   == Stmt.name
           f   == IF Stmt.guarded THEN [Top EXCEPT !.configurable = @ \cup {n}] ELSE Top
           set == Stmt.guarded /\ n \in Visible(stores, f.conf)
           cv  == ConfigurationValues(stores, f.conf)[n]
       IN  /\ stores' = IF set THEN RemoveNames(stores, f.conf, {n}) ELSE stores
           /\ \/ /\ set /\ cv.val # Null
                 /\ SetVariable(f, n, cv.val)
                 /\ taken' = Append(taken, [from |-> cv.from, by |-> <<Top.file, n>>])
              \/ /\ ~(set /\ cv.val # Null)
                 /\ IF Stmt.guarded /\ GetVariable(f, n) \notin {None, Null}
                    THEN stack' = Append(Below, Advance(f)) /\ UNCHANGED modules
                    ELSE SetVariable(f, n, Stmt.val)
                 /\ UNCHANGED taken
    /\ UNCHANGED <<program, active, status, output, asked>>

---------------------------------------------------------------------------
(* Loading a module                                                        *)

CommentsIn(nodes) ==
    Fold(LAMBDA acc, n : IF n.kind = "comment" THEN Append(acc, n) ELSE acc, <<>>, nodes)

(* registerCommentsForModule: comments before the first load of a module    *)
(* with CSS move with it.                                                   *)
RegisterComments(f, url, mods) ==
    IF f.root = <<>> \/ ~mods[url].hasCss THEN f
    ELSE [f EXCEPT !.comments = Put(@, url, CommentsOf(f, url)
                                    \o CommentsIn(f.root)),
                   !.root = <<>>, !.endOfImports = 0, !.outOfOrder = <<>>]

(* AddModule, ForwardModule, and the body of load-css.                      *)
Conflicting(v, w) == \E n \in DOMAIN v.exports \cap DOMAIN w.exports : v.exports[n] # w.exports[n]
CallbackError(f, s, mods) ==
    CASE s.op = "use"     -> IF s.url \in f.used THEN "namespace" ELSE "none"
      [] s.op = "forward" -> IF \E v \in f.forwarded :
                                    Conflicting(v, Forwarded(s.rule, s.url, mods[s.url]))
                             THEN "conflict" ELSE "none"
      [] s.op = "loadcss" -> "none"
Callback(f, s, mods, first) ==
    LET g == IF first THEN RegisterComments(f, s.url, mods) ELSE f
    IN  CASE s.op = "use"     -> [g EXCEPT !.used = @ \cup {s.url}, !.upstream = Append(@, s.url)]
          [] s.op = "forward" ->
               [g EXCEPT !.forwarded = @ \cup {Forwarded(s.rule, s.url, mods[s.url])},
                         !.upstream = Append(@, s.url)]
          [] s.op = "loadcss" -> VisitCss(f, CombineCss(mods, s.url))

(* What follows the callback: the configurations of a @forward are settled, *)
(* and what an explicit one still holds was declared by nobody.  f is the   *)
(* frame that loads, below the frames under it.                             *)
AfterLoad(below, f, load, heap, mods, first) ==
    LET s     == program[f.file][f.pc]
        heap1 == IF s.op = "forward" /\ load.given # NoConfiguration
                 THEN SettleForward(heap, load.adjusted, load.given, s.with) ELSE heap
        error == IF CallbackError(f, s, mods) # "none" THEN CallbackError(f, s, mods)
                 ELSE IF /\ load.given # NoConfiguration /\ load.given.explicit
                         /\ ~IsEmpty(heap1, load.given)
                      THEN "not-declared" ELSE "none"
    IN  /\ stores' = heap1
        /\ IF error = "none"
           THEN /\ stack' = Append(below, Advance(Callback(f, s, mods, first)))
                /\ UNCHANGED status
           ELSE /\ status' = error
                /\ stack' = Append(below, f)
        /\ UNCHANGED <<program, output, taken>>

(* loadModule and evaluateModule, for a file that is being evaluated, one   *)
(* that is loaded (again), and a new one.  conf is what the module gets:    *)
(* without a with clause, the configuration of whoever loads it.            *)
LoadedBefore(url, conf, load, heap) ==
    LET mod == modules[url]
    IN  IF /\ mod.conf.store # conf.store /\ conf.explicit
           /\ Visible(heap, conf) \cap mod.configurable # {}
        THEN Fail("already-loaded")
        ELSE AfterLoad(Below, Top, load, heap, modules, FALSE) /\ UNCHANGED <<active, modules>>
LoadFirst(url, conf, load, heap) ==
    /\ stack' = Append(stack, Fresh(url, "load", conf, load))
    /\ active' = active \cup {url}
    /\ stores' = heap
    /\ UNCHANGED <<program, modules, status, output, taken>>
LoadModule(url, conf, load, heap) ==
    /\ asked' = asked \cup Asks(heap, load.given)
    /\ \/ url \in active /\ Fail("loop")
       \/ url \notin active /\ url \in DOMAIN modules /\ LoadedBefore(url, conf, load, heap)
       \/ url \notin active /\ url \notin DOMAIN modules /\ LoadFirst(url, conf, load, heap)

(* @use, and load-css, whose with map is None when there is none.           *)
LoadWith(with) ==
    IF with = None THEN LoadModule(Stmt.url, Top.conf, NoLoad, stores)
    ELSE LET vals  == WithValues(stores, with)
             given == NewConfiguration(stores, vals, TRUE)
         IN  LoadModule(Stmt.url, given, [NoLoad EXCEPT !.given = given], Append(stores, vals))

VisitUseRule == AtStmt("use") /\ LoadWith(Stmt.with)
LoadCss      == AtStmt("loadcss") /\ LoadWith(Stmt.with)

VisitForwardRule ==
    /\ AtStmt("forward")
    /\ LET adjusted == ThroughForward(stores, Top.conf, Stmt.rule)
           added    == AddForwardConfiguration(stores, adjusted, Stmt.with)
       IN  IF Stmt.with = None
           THEN LoadModule(Stmt.url, adjusted, NoLoad, stores)
           ELSE LoadModule(Stmt.url, added.given,
                           [given |-> added.given, adjusted |-> adjusted], added.heap)

(* The end of a module: it is kept, and the statement that loads it goes on.*)
FinishModule ==
    /\ AtEnd /\ Top.by = "load"
    /\ LET mods == Put(modules, Top.file, ToModule(modules, Top, Children(Top)))
       IN  /\ modules' = mods
           /\ AfterLoad(Front(Below), Last(Below), Top.load, stores, mods, TRUE)
    /\ active' = active \ {Top.file}
    /\ UNCHANGED asked

---------------------------------------------------------------------------
(* @import                                                                 *)

LoadsModules(url) == \E k \in 1..Len(program[url]) : program[url][k].op \in {"use", "forward"}
Forwards(url)     == \E k \in 1..Len(program[url]) : program[url][k].op = "forward"

(* ToImplicitConfiguration: the file's variables over those brought in.     *)
ImplicitValues(f) ==
    LET names == DOMAIN f.vars \cup UNION {DOMAIN v.exports : v \in f.imported}
    IN  [n \in names |-> [val |-> GetVariable(f, n), from |-> <<0, n>>]]

(* visitDynamicImport: a file that loads no module runs in the environment  *)
(* and under the root of the importing one; another has its own root and    *)
(* modules (ForImport), and a configuration made of all that is in scope    *)
(* when it forwards.                                                        *)
VisitDynamicImport ==
    /\ AtStmt("import")
    /\ UNCHANGED asked
    /\ \/ Stmt.url \in active /\ Fail("loop")
       \/ /\ Stmt.url \notin active
          /\ LET implicit == ImplicitValues(Top)
                 shared   == [Top EXCEPT !.file = Stmt.url, !.pc = 1, !.by = "inject"]
                 alone    == [Fresh(Stmt.url, "import", Top.conf, NoLoad) EXCEPT
                                !.vars = Top.vars, !.configurable = Top.configurable,
                                !.imported = Top.imported, !.comments = Top.comments]
             IN  IF ~LoadsModules(Stmt.url)
                 THEN stack' = Append(stack, shared) /\ UNCHANGED stores
                 ELSE IF ~Forwards(Stmt.url)
                 THEN stack' = Append(stack, alone) /\ UNCHANGED stores
                 ELSE /\ stack' = Append(stack,
                            [alone EXCEPT !.conf = NewConfiguration(stores, implicit, FALSE)])
                      /\ stores' = Append(stores, implicit)
          /\ active' = active \cup {Stmt.url}
          /\ UNCHANGED <<program, modules, status, output, taken>>

(* Mutants: the file stays marked as active; the @import is run again.      *)
FinishInjectActive ==
    /\ AtEnd /\ Top.by = "inject"
    /\ LET f == Last(Below)
       IN  stack' = Append(Front(Below), Advance(
                      [Top EXCEPT !.file = f.file, !.pc = f.pc, !.by = f.by, !.load = f.load]))
    /\ UNCHANGED <<program, active, modules, stores, status, output, asked, taken>>
FinishInjectAgain ==
    /\ AtEnd /\ Top.by = "inject"
    /\ stack' = [Below EXCEPT ![Len(Below)].vars = Top.vars]
    /\ active' = active \ {Top.file}
    /\ UNCHANGED <<program, modules, stores, status, output, asked, taken>>
FinishInject ==
    /\ AtEnd /\ Top.by = "inject"
    /\ LET f == Last(Below)
       IN  stack' = Append(Front(Below), Advance(
                      [Top EXCEPT !.file = f.file, !.pc = f.pc, !.by = f.by, !.load = f.load]))
    /\ active' = active \ {Top.file}
    /\ UNCHANGED <<program, modules, stores, status, output, asked, taken>>

(* ImportForwards: what the imported file forwards takes the place of the   *)
(* file's own variables and of what earlier imports brought.                *)
ImportForwards(f, new) ==
    LET names      == UNION {DOMAIN v.exports : v \in new}
        Hidden(vs) == {v \in {Shadowed(v, names) : v \in vs} :
                          v \in vs \/ DOMAIN v.exports # {} \/ modules[v.url].css # <<>>}
    IN  [f EXCEPT !.imported = Hidden(@) \cup new, !.forwarded = Hidden(@) \cup new,
                  !.vars = Restrict(@, DOMAIN @ \ names)]

FinishImport ==
    /\ AtEnd /\ Top.by = "import"
    /\ LET dummy == ToDummyModule(modules, Top)
           f     == [Last(Below) EXCEPT !.vars = Top.vars, !.configurable = Top.configurable,
                                        !.imported = Top.imported, !.comments = Top.comments]
           g     == ImportForwards(f, Top.forwarded)
           h     == IF dummy.hasCss THEN VisitCss(g, CombineCss(Put(modules, None, dummy), None))
                    ELSE g
       IN  stack' = Append(Front(Below), Advance(VisitImportedCss(h, Children(Top))))
    /\ active' = active \ {Top.file}
    /\ UNCHANGED <<program, modules, stores, status, output, asked, taken>>

(* The end of Run.                                                          *)
FinishRun ==
    /\ AtEnd /\ Top.by = "run"
    /\ LET mods == Put(modules, Entry, ToModule(modules, Top, Children(Top)))
       IN  modules' = mods /\ output' = CombineCss(mods, Entry)
    /\ status' = "done"
    /\ UNCHANGED <<program, stack, active, stores, asked, taken>>

Next == \/ VisitStyleRule \/ VisitLoudComment \/ VisitStaticImport
        \/ VisitVariableDeclaration \/ VisitUseRule \/ VisitForwardRule \/ LoadCss
        \/ VisitDynamicImport \/ FinishModule \/ FinishInject \/ FinishImport \/ FinishRun

(* The evaluator is one goroutine that runs until it has a result.          *)
Spec == Init /\ [][Next]_vars /\ WF_vars(Next)


---------------------------------------------------------------------------
(* What the loading of stylesheets promises                                *)

(* The files marked as being loaded are those on the stack, and none is     *)
(* there twice: whatever mixture of @use, @forward, @import and load-css    *)
(* leads back to a file under evaluation, it is reported and never entered. *)
LoopsFound ==
    status = "running" =>
        /\ active = {stack[k].file : k \in 1..Len(stack)}
        /\ \A j, k \in 1..Len(stack) : stack[j].file = stack[k].file => j = k

(* A compilation that succeeds has used every value of an explicit with     *)
(* clause for exactly one variable, through whatever @forward rules it went *)
(* and although each of them may hand on a copy; none is used twice before. *)
Uses(from) == {k \in 1..Len(taken) : taken[k].from = from}
ConfiguredOnce ==
    \A from \in asked : IF status = "done" THEN Cardinality(Uses(from)) = 1
                                          ELSE Cardinality(Uses(from)) <= 1

(* In the combined stylesheet of modules no plain CSS @import comes after a *)
(* rule, every rule of a module is there once, and after all the rules of   *)
(* the modules it depends on.  (Files that are imported, or copied in by    *)
(* load-css, may come several times.)                                       *)
OnlyModules == \A f \in Files : \A k \in 1..Len(program[f]) :
                                   program[f][k].op \notin {"import", "loadcss"}
Places(m) == {k \in 1..Len(output) : output[k].kind = "rule" /\ output[k].file = m}
Rules(m)  == {k \in 1..Len(program[m]) : program[m][k].op = "rule"}
CssInOrder ==
    status = "done" =>
        /\ \A j, k \in 1..Len(output) : output[j].kind = "rule" /\ output[k].kind = "import" => k < j
        /\ OnlyModules => \A m \in DOMAIN modules :
              /\ {output[k].at : k \in Places(m)} = Rules(m)
              /\ Cardinality(Places(m)) = Cardinality(Rules(m))
              /\ \A i \in 1..Len(modules[m].upstream) :
                    \A j \in Places(modules[m].upstream[i]), k \in Places(m) : j < k

(* Every compilation ends, with its CSS or with an error.                   *)
Ends == <>(status # "running")

(* What a comment in load-css says (evaluate_meta.go): "A null $with means  *)
(* an empty configuration, never the ambient one".                          *)
NullWithIsEmpty ==
    \A k \in 2..Len(stack) :
        LET s == program[stack[k - 1].file][stack[k - 1].pc]
        IN  stack[k].by = "load" /\ s.op = "loadcss" /\ s.with = None
              => IsEmpty(stores, stack[k].conf)
=============================================================================
