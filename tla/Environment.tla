----------------------------- MODULE Environment -----------------------------
(***************************************************************************)
(* sassenv/environment.go: the scopes a style sheet is evaluated in.       *)
(*                                                                         *)
(* An Environment is a chain of scopes, each a pointer to a map.  Closures *)
(* and the environments of imported files copy the chain and share the     *)
(* maps.  Three caches sit before the chain: the last variable looked up,  *)
(* the index every variable was found at, and the same for callables.      *)
(* What a scope maps its names to does not matter here; WHICH scope, or    *)
(* module, a name resolves to does.                                        *)
(*                                                                         *)
(* Functions and mixins have the same code over maps of their own; one     *)
(* table, the callables, stands for both.  Modules are reduced to the one  *)
(* an imported file forwards, which defines the names Forwarded; @use      *)
(* (globalModules, modules by namespace) is ModuleLoading's business.      *)
(***************************************************************************)
EXTENDS Naturals, Sequences, FiniteSets, SequencesExt, FiniteSetsExt

CONSTANTS
    Names,        \* names of variables and of callables
    Forwarded,    \* the names the forwarded module defines
    Writes,       \* the kinds of assignment a program uses
    Imports,      \* what imported files do: subset of {"use", "forward"}
    MaxDepth,     \* bound: scopes of one environment
    MaxRunning,   \* bound: environments on the visitor's stack
    MaxScopes,    \* bound: scopes referenced at one time
    MaxArrays     \* bound: backing arrays of nestedForwardedModules

ASSUME EnvironmentAssumption ==
    /\ "" \notin Names
    /\ Forwarded \subseteq Names
    /\ Writes \subseteq {"implicit", "global"}
    /\ Imports \subseteq {"use", "forward"}
    /\ {MaxDepth, MaxRunning, MaxScopes, MaxArrays} \subseteq Nat \ {0}

VARIABLES
    heap,      \* scope -> the variables and callables it declares
    arrays,    \* backing array -> its slots; a slot holds the module or not
    running,   \* the visitor's environments, the current one last
    template,  \* the environment a callable closed over, or NoEnv
    imported,  \* importedModules, one map for a file and all it imports
    bypassed   \* history: names declared or removed behind a cache's back

vars == <<heap, arrays, running, template, imported, bypassed>>

ScopeIds == 1..MaxScopes
ArrayIds == 1..MaxArrays
Blank == [vars |-> {}, callables |-> {}]
Nil == [arr |-> 0, len |-> 0]                 \* a nil Go slice
NoLast == [name |-> "", index |-> 0]
NoEnv == <<>>

(***************************************************************************)
(* An environment.  Indices count from 1, the root scope; 0 is no entry.   *)
(***************************************************************************)
NewEnv(scopes, nested, forwards) ==
    [scopes   |-> scopes,
     idx      |-> [n \in Names |-> 0],        \* variableIndices
     cidx     |-> [n \in Names |-> 0],        \* functionIndices, mixinIndices
     last     |-> NoLast,                     \* lastVariableName, ...Index
     semi     |-> TRUE,                       \* inSemiGlobalScope
     nested   |-> nested,                     \* nestedForwardedModules
     forwards |-> forwards]                   \* forwardedModules

Closure(e) == NewEnv(e.scopes, e.nested, "nil")
ForImport(e, forwards) == NewEnv(e.scopes, e.nested, forwards)

AtRoot(e) == Len(e.scopes) = 1
Current == Last(running)
Env == Current.env
Blocks == Current.blocks

(***************************************************************************)
(* Looking a name up.                                                      *)
(***************************************************************************)
Walk(e, table, n) ==
    LET holders == {i \in DOMAIN e.scopes : n \in heap[e.scopes[i]][table]}
    IN  IF holders = {} THEN 0 ELSE Max(holders)

VariableIndex(e, n) ==
    IF e.last.name = n THEN e.last.index
    ELSE IF e.idx[n] # 0 THEN e.idx[n] ELSE Walk(e, "vars", n)

CallableIndex(e, n) ==
    IF e.cidx[n] # 0 THEN e.cidx[n] ELSE Walk(e, "callables", n)

NestedHas(e, n) ==
    /\ n \in Forwarded
    /\ \E i \in 1..e.nested.len : arrays[e.nested.arr][i]

FromOneModule(e, n) ==
    IF NestedHas(e, n) \/ (imported /\ n \in Forwarded)
    THEN <<"module">> ELSE <<"none">>

Resolve(e, table, n, index) ==
    IF index \in DOMAIN e.scopes /\ n \in heap[e.scopes[index]][table]
    THEN <<"scope", e.scopes[index]>> ELSE FromOneModule(e, n)

(***************************************************************************)
(* The arrays behind nestedForwardedModules.  append writes in place while *)
(* there is capacity, whoever else holds the array, and moves to an array  *)
(* of twice the size when there is none.                                   *)
(***************************************************************************)
Live(run, tmpl) == {run[i].env : i \in DOMAIN run} \cup ({tmpl} \ {NoEnv})
FreeArray == {a \in ArrayIds : \A e \in Live(running, template) : e.nested.arr # a}
FreeScope == {s \in ScopeIds : \A e \in Live(running, template) :
                                   s \notin Range(e.scopes)}

Append1(slice, slot) ==
    IF slice = Nil THEN [nested |-> Nil, arrays |-> arrays]
    ELSE LET old == arrays[slice.arr]
             n   == slice.len + 1
         IN  IF slice.len < Len(old)
             THEN [nested |-> [slice EXCEPT !.len = n],
                   arrays |-> [arrays EXCEPT ![slice.arr][n] = slot]]
             ELSE LET a == Min(FreeArray)
                  IN  [nested |-> [arr |-> a, len |-> n],
                       arrays |-> [arrays EXCEPT ![a] =
                           [i \in 1..(2 * slice.len) |->
                               IF i < n THEN old[i] ELSE i = n /\ slot]]]

(***************************************************************************)
(* Every step ends here: what nothing refers to is garbage.                *)
(***************************************************************************)
Become(run, tmpl, h, arr) ==
    LET live == Live(run, tmpl)
    IN  /\ running' = run
        /\ template' = tmpl
        /\ heap' = [s \in ScopeIds |->
               IF \E e \in live : s \in Range(e.scopes) THEN h[s] ELSE Blank]
        /\ arrays' = [a \in ArrayIds |->
               IF \E e \in live : e.nested.arr = a THEN arr[a] ELSE <<>>]

WithTop(e, blocks) == [running EXCEPT ![Len(running)].env = e,
                                      ![Len(running)].blocks = blocks]
WithEnv(e) == WithTop(e, Blocks)

Init ==
    /\ heap = [s \in ScopeIds |-> Blank]
    /\ arrays = [a \in ArrayIds |-> <<>>]
    /\ running = << [kind |-> "main", blocks |-> <<>>,
                     env |-> NewEnv(<<1>>, Nil, "nil")] >>
    /\ template = NoEnv
    /\ imported = FALSE
    /\ bypassed = {}

(***************************************************************************)
(* Scopes.  A block without declarations opens no scope and only tracks    *)
(* whether it is semi-global.                                              *)
(***************************************************************************)
Push(e, semi) ==
    LET s == Append1(e.nested, FALSE)
    IN  [env |-> [e EXCEPT !.scopes = Append(@, Min(FreeScope)),
                           !.nested = s.nested, !.semi = semi],
         arrays |-> s.arrays]

CanPush == Len(Env.scopes) < MaxDepth /\ FreeScope # {} /\ FreeArray # {}

EnterScope(semiGlobal, when) ==
    LET block == [flow |-> semiGlobal, scope |-> when, semi |-> Env.semi]
        semi  == semiGlobal /\ Env.semi
    IN  /\ Len(Blocks) < MaxDepth
        /\ UNCHANGED <<imported, bypassed>>
        /\ IF when
           THEN /\ CanPush
                /\ LET p == Push(Env, semi)
                   IN  Become(WithTop(p.env, Append(Blocks, block)), template,
                              heap, p.arrays)
           ELSE Become(WithTop([Env EXCEPT !.semi = semi], Append(Blocks, block)),
                       template, heap, arrays)

\* mutant: the cached indices survive their scope
PopKeepsIndices(e, semi) ==
    [e EXCEPT !.scopes = Front(@), !.last = NoLast, !.semi = semi,
              !.nested = IF @ = Nil THEN Nil ELSE [arr |-> @.arr, len |-> @.len - 1]]

Pop(e, semi) ==
    LET gone == heap[Last(e.scopes)]
    IN  [e EXCEPT !.scopes = Front(@),
                  !.idx = [n \in Names |-> IF n \in gone.vars THEN 0 ELSE @[n]],
                  !.cidx = [n \in Names |-> IF n \in gone.callables THEN 0 ELSE @[n]],
                  !.last = NoLast,
                  !.semi = semi,
                  !.nested = IF @ = Nil THEN Nil ELSE [arr |-> @.arr, len |-> @.len - 1]]

LeaveScope ==
    /\ Blocks # <<>>
    /\ UNCHANGED <<imported, bypassed>>
    /\ LET b == Last(Blocks)
           e == IF b.scope THEN Pop(Env, b.semi) ELSE [Env EXCEPT !.semi = b.semi]
       IN  Become(WithTop(e, Front(Blocks)), template, heap, arrays)

(***************************************************************************)
(* Variables.                                                              *)
(***************************************************************************)
CanDeclare == IF Blocks = <<>> THEN TRUE ELSE Last(Blocks).scope

GetVariable(n) ==
    LET i == VariableIndex(Env, n)
    IN  /\ i \in DOMAIN Env.scopes
        /\ Become(WithEnv([Env EXCEPT !.last = [name |-> n, index |-> i],
                                      !.idx[n] = IF Env.last.name = n THEN @ ELSE i]),
                  template, heap, arrays)
        /\ UNCHANGED <<imported, bypassed>>

Declare(e, n, index) ==
    Become(WithEnv(e), template,
           [heap EXCEPT ![e.scopes[index]].vars = @ \cup {n}], arrays)

SetGlobal(n) ==
    LET e == IF Env.idx[n] = 0
             THEN [Env EXCEPT !.last = [name |-> n, index |-> 1], !.idx[n] = 1]
             ELSE Env
    IN  IF n \notin heap[e.scopes[1]].vars /\ FromOneModule(e, n) = <<"module">>
        THEN Become(WithEnv(e), template, heap, arrays)
        ELSE Declare(e, n, 1)

\* mutant: the redirect away from the root scope forgets cached indices
SetNestedLeaks(n) ==
    LET found    == VariableIndex(Env, n)
        depth    == Len(Env.scopes)
        toModule == Env.idx[n] = 0 /\ Walk(Env, "vars", n) = 0 /\ NestedHas(Env, n)
        redirect == ~Env.semi /\ found = 1 /\ Env.idx[n] = 0
        index    == IF found = 0 \/ redirect THEN depth ELSE found
    IN  IF toModule THEN Become(running, template, heap, arrays)
        ELSE /\ index \in DOMAIN Env.scopes
             /\ Declare([Env EXCEPT !.last = [name |-> n, index |-> index],
                                    !.idx[n] = index], n, index)

SetNested(n) ==
    LET found    == VariableIndex(Env, n)
        depth    == Len(Env.scopes)
        toModule == Env.idx[n] = 0 /\ Walk(Env, "vars", n) = 0 /\ NestedHas(Env, n)
        redirect == ~Env.semi /\ found = 1
        index    == IF found = 0 \/ redirect THEN depth ELSE found
        cached   == IF Env.last.name = n /\ ~redirect THEN Env.idx[n] ELSE index
    IN  IF toModule THEN Become(running, template, heap, arrays)
        ELSE /\ index \in DOMAIN Env.scopes
             /\ Declare([Env EXCEPT !.last = [name |-> n, index |-> index],
                                    !.idx[n] = cached], n, index)

(***************************************************************************)
(* Two kinds of declaration reach scopes other environments have cached:   *)
(* !global under an inner declaration nothing has looked up yet, and what  *)
(* an imported file declares in the scope it was imported into.            *)
(***************************************************************************)
IntoImporter == Current.kind = "import" /\ Blocks = <<>>

SetVariable(n, write) ==
    /\ CanDeclare
    /\ IF write = "global" \/ AtRoot(Env)
       THEN /\ SetGlobal(n)
            /\ bypassed' = IF Env.idx[n] = 0 /\ Walk(Env, "vars", n) > 1
                           THEN bypassed \cup {n} ELSE bypassed
       ELSE /\ SetNested(n)
            /\ bypassed' = IF IntoImporter THEN bypassed \cup {n} ELSE bypassed
    /\ UNCHANGED imported

Local(e, n) == [e EXCEPT !.last = [name |-> n, index |-> Len(e.scopes)],
                         !.idx[n] = Len(e.scopes)]

\* @each and @for bind their variables in their own scope, at every turn
SetLocalVariable(n) ==
    /\ Blocks # <<>> /\ Last(Blocks).scope /\ Last(Blocks).flow
    /\ Declare(Local(Env, n), n, Len(Env.scopes))
    /\ UNCHANGED <<imported, bypassed>>

(***************************************************************************)
(* Callables.  One is declared where no control directive and no callable  *)
(* encloses it; as a first-class value it can be run from anywhere.        *)
(***************************************************************************)
GetCallable(n) ==
    LET i == CallableIndex(Env, n)
    IN  /\ i \in DOMAIN Env.scopes
        /\ Become(WithEnv([Env EXCEPT !.cidx[n] = i]), template, heap, arrays)
        /\ UNCHANGED <<imported, bypassed>>

MayDeclareCallable ==
    /\ CanDeclare
    /\ Current.kind # "callable"
    /\ \A i \in DOMAIN Blocks : ~Blocks[i].flow

SetCallable(n) ==
    LET depth == Len(Env.scopes)
        e == [Env EXCEPT !.cidx[n] = depth]
    IN  /\ MayDeclareCallable
        /\ Become(WithEnv(e), Closure(e),
                  [heap EXCEPT ![e.scopes[depth]].callables = @ \cup {n}], arrays)
        /\ bypassed' = IF IntoImporter THEN bypassed \cup {n} ELSE bypassed
        /\ UNCHANGED imported

Start(kind, p, bound, arr) ==
    /\ Len(running) < MaxRunning
    /\ Become(Append(running, [kind |-> kind, blocks |-> <<>>, env |-> p]), template,
              bound, arr)

\* runUserDefinedCallable: a closure of the closure, a scope, the parameters
Call(closed, params) ==
    /\ closed # NoEnv
    /\ Len(closed.scopes) < MaxDepth
    /\ FreeScope # {} /\ FreeArray # {}
    /\ UNCHANGED <<imported, bypassed>>
    /\ LET p == Push(Closure(closed), FALSE)
           e == IF params = {} THEN p.env
                ELSE Local(p.env, CHOOSE n \in params : TRUE)
       IN  Start("callable", e,
                 [heap EXCEPT ![Last(e.scopes)].vars = params], p.arrays)

RunCallable(params) == Call(template, params)
RunContent == Call(Env, {})

Return ==
    /\ Current.kind = "callable" /\ Blocks = <<>>
    /\ Become(Front(running), template, heap, arrays)
    /\ UNCHANGED <<imported, bypassed>>

(***************************************************************************)
(* @import of a file with @use or @forward runs in an environment of its   *)
(* own; at the end the importing one takes over what the file forwarded.   *)
(***************************************************************************)
Import(does) ==
    /\ MayDeclareCallable
    /\ UNCHANGED <<imported, bypassed>>
    /\ Start("import", ForImport(Env, IF does = "forward" THEN "some" ELSE "nil"),
             heap, arrays)

TakeNested(e, module) ==
    LET fresh == IF e.nested # Nil THEN e.nested
                 ELSE [arr |-> Min(FreeArray), len |-> Len(e.scopes) - 1]
        held  == IF e.nested # Nil THEN arrays[fresh.arr]
                 ELSE [i \in 1..fresh.len |-> FALSE]
    IN  [nested |-> fresh,
         arrays |-> [arrays EXCEPT ![fresh.arr] =
                        [held EXCEPT ![fresh.len] = @ \/ module]]]

ImportForwards(e, file) ==
    LET module == file.forwards = "some"
        names  == IF module THEN Forwarded ELSE {}
        top    == Last(e.scopes)
        s      == IF AtRoot(e) THEN [nested |-> e.nested, arrays |-> arrays]
                  ELSE TakeNested(e, module)
        taken  == [e EXCEPT
            !.forwards = IF (AtRoot(e) /\ module) \/ @ = "some" THEN "some" ELSE "none",
            !.nested = s.nested,
            !.idx = [n \in Names |-> IF n \in names THEN 0 ELSE @[n]],
            !.cidx = [n \in Names |-> IF n \in names THEN 0 ELSE @[n]]]
    IN  /\ imported' = (imported \/ (AtRoot(e) /\ module))
        /\ bypassed' = IF AtRoot(e) THEN bypassed ELSE bypassed \cup names
        /\ Become([Front(running) EXCEPT ![Len(running) - 1].env = taken], template,
                  [heap EXCEPT ![top].vars = @ \ names, ![top].callables = @ \ names],
                  s.arrays)

EndImport ==
    /\ Current.kind = "import" /\ Blocks = <<>>
    /\ FreeArray # {}
    /\ IF Env.forwards = "nil"
       THEN Become(Front(running), template, heap, arrays) /\ UNCHANGED <<imported, bypassed>>
       ELSE ImportForwards(running[Len(running) - 1].env, Env)

Next ==
    \/ \E semiGlobal, when \in BOOLEAN : EnterScope(semiGlobal, when)
    \/ LeaveScope
    \/ \E n \in Names : \/ GetVariable(n)
                        \/ \E w \in Writes : SetVariable(n, w)
                        \/ SetLocalVariable(n)
                        \/ GetCallable(n)
                        \/ SetCallable(n)
    \/ \E params \in {{}} \cup {{n} : n \in Names} : RunCallable(params)
    \/ RunContent
    \/ Return
    \/ \E does \in Imports : Import(does)
    \/ EndImport

Spec == Init /\ [][Next]_vars
------------------------------------------------------------------------------
Envs == Live(running, template)

\* a cached index names a scope the environment still has
IndexInChain ==
    \A e \in Envs, n \in Names :
        /\ VariableIndex(e, n) \in {0} \cup DOMAIN e.scopes
        /\ CallableIndex(e, n) \in {0} \cup DOMAIN e.scopes

\* For a name nobody has declared behind an environment's back, what the caches
\* answer resolves to what a walk of the scopes from the innermost to the root finds.
CachesAgree ==
    \A e \in Envs, n \in Names \ bypassed :
        /\ Resolve(e, "vars", n, VariableIndex(e, n))
              = Resolve(e, "vars", n, Walk(e, "vars", n))
        /\ Resolve(e, "callables", n, CallableIndex(e, n))
              = Resolve(e, "callables", n, Walk(e, "callables", n))

\* Whatever the caches hold, a lookup finds what a walk of the scopes from the
\* innermost to the root finds, for variables and for callables, in the current
\* environment and in every suspended one; names declared behind an environment's
\* back are excepted (GetVariable's and GetFunction's tiers over scopes that
\* SetVariable, SetFunction and popFrame change).  With one level of imports no
\* lookup indexes past the end of the chain, even for those.
LookupIsWalk == CachesAgree /\ IndexInChain

\* An assignment below the root lands in the nearest scope that declares the name,
\* or in a nested-forwarded module when only that has it, or else in the current
\* scope; the root scope counts as a holder only inside control directives all the
\* way up (SetVariable's choice of index, which trusts the caches).  A name an
\* imported module has is excepted: an assignment at the root caches the root scope
\* for it although the module took the value.
AssignsNearest ==
    [][\A n \in Names \ (bypassed \cup IF imported THEN Forwarded ELSE {}) :
         (SetVariable(n, "implicit") /\ ~AtRoot(Env)) =>
          LET nearest == Walk(Env, "vars", n)
              target  == IF nearest = 0 \/ (nearest = 1 /\ ~Env.semi)
                         THEN Len(Env.scopes) ELSE nearest
          IN  IF nearest = 0 /\ NestedHas(Env, n) THEN running' = running
              ELSE Last(running').env.last = [name |-> n, index |-> target]]_vars

\* "Don't set the index if there's already a variable with the given name, since
\* local accesses should still return the local variable": an assignment with
\* !global never hides an inner declaration (comment in SetVariable).
LocalShadowsGlobal ==
    \A e \in Envs, n \in Names :
        VariableIndex(e, n) = 1 => Walk(e, "vars", n) <= 1
=============================================================================
