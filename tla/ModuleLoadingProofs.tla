------------------------- MODULE ModuleLoadingProofs -------------------------
(***************************************************************************)
(* Whatever the stylesheets hold: a file that leads back to one under      *)
(* evaluation is reported and never entered, and each value of a with      *)
(* clause configures one variable (eval/evaluate_statement.go).            *)
(*                                                                         *)
(* First the call stack and the loops; then the configurations, by the     *)
(* stores they are kept in, what each operation does to those, and the     *)
(* steps once more.                                                        *)
(***************************************************************************)
EXTENDS ModuleLoading, SequenceTheorems, FiniteSetTheorems, TLAPS

-----------------------------------------------------------------------------
(* What the Go call stack looks like while the evaluator runs: the entry    *)
(* point first, each module above the statement that loads it, no file      *)
(* twice, and marked as active the files that are there.                    *)
Loading == {"use", "forward", "loadcss"}
IsView(v) == "exports" \in DOMAIN v /\ DOMAIN v.exports \subseteq Names
IsFrame(f) ==
    /\ {"file", "pc", "by", "conf", "load", "vars", "imported", "forwarded"} \subseteq DOMAIN f
    /\ f.file \in Files /\ f.pc \in Nat \ {0} /\ DOMAIN f.vars \subseteq Names
    /\ \A v \in f.imported \cup f.forwarded : IsView(v)
Above(prog, b, f) ==
    /\ IsStatement(prog[b.file][b.pc])
    /\ f.by = "load" => prog[b.file][b.pc].op \in Loading /\ prog[b.file][b.pc].url = f.file
Nested(prog, s) ==
    /\ s \in Seq({s[k] : k \in DOMAIN s})
    /\ s # <<>>
    /\ \A k \in 1..Len(s) : IsFrame(s[k])
    /\ s[1].by = "run"
    /\ \A k \in 2..Len(s) : Above(prog, s[k - 1], s[k])
Marked(s, act) ==
    /\ act = {s[k].file : k \in 1..Len(s)}
    /\ \A j, k \in 1..Len(s) : s[j].file = s[k].file => j = k
Lined(prog, s, act) == Nested(prog, s) /\ Marked(s, act)

Viewed(mods) == \A u \in DOMAIN mods : IsView(mods[u])
LoadingInv ==
    /\ program \in Programs
    /\ status = "running" => Lined(program, stack, active) /\ Viewed(modules)

-----------------------------------------------------------------------------
(* The three things that happen to the stack: the file on top goes on, one  *)
(* is entered, one is left.                                                 *)

Same(f, g)  == IsFrame(g) /\ g.file = f.file /\ g.by = f.by
Stays(f, g) == Same(f, g) /\ g.conf = f.conf /\ g.load = f.load

LEMMA FrontIs ==
    ASSUME NEW s, NEW S, s \in Seq(S), s # <<>>
    PROVE  /\ Front(s) \in Seq(S) /\ Len(Front(s)) = Len(s) - 1
           /\ \A k \in 1..Len(s) - 1 : Front(s)[k] = s[k]
           /\ Len(s) \in Nat \ {0}
<1> DEFINE n == Len(s) - 1
           t == SubSeq(s, 1, n)
<1>1. n \in Nat /\ Len(s) = n + 1 /\ \A k \in 1..n : s[k] \in S
  OBVIOUS
<1> HIDE DEF n
<1>2. /\ t \in Seq(S)
      /\ Len(t) = IF 1 <= n THEN n - 1 + 1 ELSE 0
      /\ \A k \in 1..n - 1 + 1 : t[k] = s[1 + k - 1]
  <2>1. 1 \in Int /\ n \in Int
    BY <1>1
  <2> QED
    BY <1>1, <2>1, SubSeqProperties
<1>3. t = Front(s)
  BY DEF Front, n
<1> HIDE DEF t
<1> QED
  BY <1>1, <1>2, <1>3

LEMMA TopGoesOn ==
    ASSUME NEW prog, NEW s, NEW act, NEW g, Lined(prog, s, act), Same(s[Len(s)], g)
    PROVE  Lined(prog, Append(Front(s), g), act)
<1> DEFINE S == {s[k] : k \in DOMAIN s} \cup {g}
           t == Append(Front(s), g)
<1>1. s \in Seq(S) /\ s # <<>>
  BY DEF Lined, Nested
<1>2. /\ Len(s) \in Nat \ {0} /\ Len(t) = Len(s) /\ t \in Seq(S)
      /\ t[Len(s)] = g
      /\ \A k \in 1..Len(s) - 1 : t[k] = s[k]
  <2> HIDE DEF S
  <2>1. g \in S
    BY DEF S
  <2> QED
    BY <1>1, <2>1, FrontIs
<1> HIDE DEF t
<1>3. /\ t \in Seq({t[k] : k \in DOMAIN t}) /\ t # <<>>
      /\ DOMAIN t = 1..Len(s)
  BY <1>2
<1>4. \A k \in 1..Len(s) : IsFrame(t[k]) /\ t[k].file = s[k].file /\ t[k].by = s[k].by
  <2>1. \A k \in 1..Len(s) : k \in 1..Len(s) - 1 \/ k = Len(s)
    BY <1>2
  <2>2. \A k \in 1..Len(s) : IsFrame(s[k])
    BY DEF Lined, Nested
  <2> QED
    BY <1>2, <2>1, <2>2 DEF Same
<1>5. Nested(prog, t)
  <2>1. ASSUME NEW k \in 2..Len(t)
        PROVE  Above(prog, t[k - 1], t[k])
    <3>1. /\ k \in 2..Len(s) /\ t[k - 1] = s[k - 1]
          /\ t[k].by = s[k].by /\ t[k].file = s[k].file
      BY <1>2, <1>4, <2>1
    <3>2. Above(prog, s[k - 1], s[k])
      BY <3>1 DEF Lined, Nested
    <3> QED
      BY <3>1, <3>2 DEF Above
  <2> QED
    BY <1>2, <1>3, <1>4, <2>1 DEF Lined, Nested
<1>6. Marked(t, act)
  BY <1>2, <1>4 DEF Lined, Marked
<1> QED
  BY <1>5, <1>6 DEF Lined, t

LEMMA FileEntered ==
    ASSUME NEW prog, NEW s, NEW act, NEW g, Lined(prog, s, act), IsFrame(g), g.file \notin act,
           Above(prog, s[Len(s)], g)
    PROVE  Lined(prog, Append(s, g), act \cup {g.file})
<1> DEFINE S == {s[k] : k \in DOMAIN s} \cup {g}
           t == Append(s, g)
<1>1. s \in Seq(S) /\ s # <<>>
  BY DEF Lined, Nested
<1>2. /\ Len(s) \in Nat \ {0} /\ Len(t) = Len(s) + 1 /\ t \in Seq(S)
      /\ t[Len(s) + 1] = g
      /\ \A k \in 1..Len(s) : t[k] = s[k]
  <2> HIDE DEF S
  <2>1. g \in S
    BY DEF S
  <2> QED
    BY <1>1, <2>1
<1> HIDE DEF t
<1>3. /\ t \in Seq({t[k] : k \in DOMAIN t}) /\ t # <<>>
      /\ DOMAIN t = 1..Len(s) + 1
  BY <1>2
<1>4. Nested(prog, t)
  <2>1. ASSUME NEW k \in 2..Len(t)
        PROVE  Above(prog, t[k - 1], t[k])
    <3>1. CASE k = Len(s) + 1
      BY <1>2, <2>1, <3>1
    <3>2. CASE k # Len(s) + 1
      <4>1. k \in 2..Len(s) /\ t[k] = s[k] /\ t[k - 1] = s[k - 1]
        BY <1>2, <2>1, <3>2
      <4> QED
        BY <4>1, <2>1 DEF Lined, Nested
    <3> QED
      BY <3>1, <3>2
  <2>2. \A k \in 1..Len(t) : IsFrame(t[k])
    BY <1>2 DEF Lined, Nested
  <2>3. t[1].by = "run"
    BY <1>2 DEF Lined, Nested
  <2> QED
    BY <1>3, <2>1, <2>2, <2>3 DEF Nested
<1>5. Marked(t, act \cup {g.file})
  <2>1. act = {s[k].file : k \in 1..Len(s)}
    BY DEF Lined, Marked
  <2>2. {t[k].file : k \in 1..Len(t)} = act \cup {g.file}
    BY <1>2, <2>1
  <2>3. ASSUME NEW j \in 1..Len(t), NEW k \in 1..Len(t), t[j].file = t[k].file
        PROVE  j = k
    <3>1. \A i \in 1..Len(s) : t[i].file # g.file
      BY <1>2, <2>1
    <3>2. CASE j \in 1..Len(s) /\ k \in 1..Len(s)
      BY <1>2, <2>3, <3>2 DEF Lined, Marked
    <3> QED
      BY <1>2, <2>3, <3>1, <3>2
  <2> QED
    BY <2>2, <2>3 DEF Marked
<1> QED
  BY <1>4, <1>5 DEF Lined, t

LEMMA FileLeft ==
    ASSUME NEW prog, NEW s, NEW act, Lined(prog, s, act), s[Len(s)].by # "run"
    PROVE  /\ Lined(prog, Front(s), act \ {s[Len(s)].file})
           /\ Last(Front(s)) = s[Len(s) - 1]
           /\ Above(prog, Last(Front(s)), s[Len(s)])
<1> DEFINE S == {s[k] : k \in DOMAIN s}
           t == Front(s)
<1>1. s \in Seq(S) /\ s # <<>>
  BY DEF Lined, Nested
<1>2. /\ Len(s) \in Nat \ {0} /\ Len(t) = Len(s) - 1 /\ t \in Seq(S)
      /\ \A k \in 1..Len(s) - 1 : t[k] = s[k]
  <2> HIDE DEF S
  <2> QED
    BY <1>1, FrontIs
<1> HIDE DEF t
<1>3. Len(s) \in Nat /\ Len(s) > 1
  BY <1>2 DEF Lined, Nested
<1>4. /\ t \in Seq({t[k] : k \in DOMAIN t}) /\ t # <<>>
      /\ DOMAIN t = 1..Len(s) - 1
  BY <1>2, <1>3
<1>5. Nested(prog, t)
  <2>1. ASSUME NEW k \in 2..Len(t)
        PROVE  Above(prog, t[k - 1], t[k])
    <3>1. k \in 2..Len(s) /\ k \in 1..Len(s) - 1 /\ k - 1 \in 1..Len(s) - 1
      BY <1>2, <1>3, <2>1
    <3>2. t[k] = s[k] /\ t[k - 1] = s[k - 1]
      BY <1>2, <3>1
    <3> QED
      BY <3>1, <3>2 DEF Lined, Nested
  <2>2. \A k \in 1..Len(t) : IsFrame(t[k])
    BY <1>2 DEF Lined, Nested
  <2>3. t[1].by = "run"
    <3>1. t[1] = s[1]
      BY <1>2, <1>3
    <3> QED
      BY <3>1 DEF Lined, Nested
  <2> QED
    BY <1>4, <2>1, <2>2, <2>3 DEF Nested
<1>6. Marked(t, act \ {s[Len(s)].file})
  <2>1. act = {s[k].file : k \in 1..Len(s)}
    BY DEF Lined, Marked
  <2>2. \A j, k \in 1..Len(s) : s[j].file = s[k].file => j = k
    BY DEF Lined, Marked
  <2>3. {t[k].file : k \in 1..Len(t)} = act \ {s[Len(s)].file}
    <3>1. ASSUME NEW k \in 1..Len(t) PROVE t[k].file \in act \ {s[Len(s)].file}
      BY <1>2, <1>3, <2>1, <2>2
    <3>2. ASSUME NEW a \in act \ {s[Len(s)].file} PROVE \E k \in 1..Len(t) : a = t[k].file
      BY <1>2, <1>3, <2>1
    <3> QED
      BY <3>1, <3>2
  <2>4. \A j, k \in 1..Len(t) : t[j].file = t[k].file => j = k
    BY <1>2, <1>3, <2>2
  <2> QED
    BY <2>3, <2>4 DEF Marked
<1>7. Last(t) = s[Len(s) - 1]
  BY <1>2, <1>3 DEF Last
<1>8. Above(prog, Last(t), s[Len(s)])
  BY <1>3, <1>7 DEF Lined, Nested
<1> QED
  BY <1>5, <1>6, <1>7, <1>8 DEF Lined, t

-----------------------------------------------------------------------------
(* What a statement makes of the frame it is in: always that frame.         *)

LEMMA AdvanceStays == ASSUME NEW f, IsFrame(f) PROVE Stays(f, Advance(f))
<1> DEFINE g == Advance(f)
<1>1. /\ DOMAIN g = DOMAIN f /\ g.pc = f.pc + 1 /\ g.file = f.file /\ g.by = f.by
      /\ g.conf = f.conf /\ g.load = f.load /\ g.vars = f.vars
      /\ g.imported = f.imported /\ g.forwarded = f.forwarded
  BY DEF Advance, IsFrame
<1>2. f.pc + 1 \in Nat \ {0}
  BY DEF IsFrame
<1> HIDE DEF g
<1>3. IsFrame(g)
  BY <1>1, <1>2 DEF IsFrame
<1> QED
  BY <1>1, <1>3 DEF Stays, Same, g

LEMMA StaysTwice ==
    ASSUME NEW f, NEW g, NEW h, Stays(f, g), Stays(g, h)
    PROVE  Stays(f, h)
BY DEF Stays, Same

(* What differs in none of the fields that matter here. *)
Alike(f, g) ==
    /\ DOMAIN g = DOMAIN f
    /\ g.file = f.file /\ g.pc = f.pc /\ g.by = f.by /\ g.conf = f.conf /\ g.load = f.load
    /\ g.vars = f.vars /\ g.imported = f.imported /\ g.forwarded = f.forwarded

LEMMA AlikeStays == ASSUME NEW f, IsFrame(f), NEW g, Alike(f, g) PROVE Stays(f, g)
BY DEF Alike, IsFrame, Stays, Same

LEMMA ChildrenStay ==
    ASSUME NEW f, NEW nodes, IsFrame(f)
    PROVE  /\ Stays(f, VisitCss(f, nodes)) /\ Stays(f, VisitImportedCss(f, nodes))
<1>1. ASSUME NEW g PROVE Alike(f, WithChildren(f, g))
  BY DEF WithChildren, Alike
<1>2. \A g : Stays(f, WithChildren(f, g))
  BY <1>1, AlikeStays
<1> QED
  BY <1>2 DEF VisitCss, VisitImportedCss

LEMMA AddStays ==
    ASSUME NEW f, NEW node, IsFrame(f)
    PROVE  /\ Stays(f, AddChild(f, node)) /\ Stays(f, AddComment(f, node))
           /\ Stays(f, AddImport(f, node))
<1>1. Alike(f, AddChild(f, node))
  BY DEF AddChild, Alike
<1>2. Alike(f, AddComment(f, node))
  BY DEF AddComment, Alike
<1>3. Alike(f, AddImport(f, node))
  BY DEF AddImport, Alike
<1> QED
  BY <1>1, <1>2, <1>3, AlikeStays

LEMMA ForwardedIs ==
    ASSUME NEW rule, rule.prefix \in Names, NEW url, NEW mod, IsView(mod)
    PROVE  IsView(Forwarded(rule, url, mod))
<1> DEFINE outer == {n \in {Prefixed(rule, i) : i \in DOMAIN mod.exports} : Admits(rule, n)}
<1>1. outer \subseteq Names
  <2>1. \A i \in Names : rule.prefix \o i \in Names
    BY DEF Names
  <2> QED
    BY <2>1 DEF Prefixed, IsView
<1>2. DOMAIN ForwardedView(rule, mod.exports) = outer
  BY DEF ForwardedView
<1> HIDE DEF outer
<1>3. /\ DOMAIN Forwarded(rule, url, mod) = {"url", "exports", "configurable"}
      /\ Forwarded(rule, url, mod).exports = ForwardedView(rule, mod.exports)
  BY DEF Forwarded
<1> QED
  BY <1>1, <1>2, <1>3 DEF IsView

LEMMA CallbackStays ==
    ASSUME NEW f, NEW s, NEW mods, NEW first, IsFrame(f), s.op \in Loading, IsStatement(s),
           IsView(mods[s.url])
    PROVE  Stays(f, Callback(f, s, mods, first))
<1> DEFINE g == IF first THEN RegisterComments(f, s.url, mods) ELSE f
<1>1. Alike(f, g)
  BY DEF RegisterComments, Alike
<1>2. Stays(f, g) /\ IsFrame(g)
  BY <1>1, AlikeStays DEF Stays, Same
<1>3. Callback(f, s, mods, first) =
        CASE s.op = "use"     -> [g EXCEPT !.used = @ \cup {s.url}, !.upstream = Append(@, s.url)]
          [] s.op = "forward" ->
               [g EXCEPT !.forwarded = @ \cup {Forwarded(s.rule, s.url, mods[s.url])},
                         !.upstream = Append(@, s.url)]
          [] s.op = "loadcss" -> VisitCss(f, CombineCss(mods, s.url))
  BY DEF Callback
<1> HIDE DEF g
<1>4. CASE s.op = "use"
  <2> DEFINE h == [g EXCEPT !.used = @ \cup {s.url}, !.upstream = Append(@, s.url)]
  <2>1. Alike(g, h)
    BY DEF Alike
  <2>2. Callback(f, s, mods, first) = h
    BY <1>3, <1>4
  <2> QED
    BY <1>2, <2>1, <2>2, AlikeStays, StaysTwice
<1>5. CASE s.op = "forward"
  <2> DEFINE w == Forwarded(s.rule, s.url, mods[s.url])
             h == [g EXCEPT !.forwarded = @ \cup {w}, !.upstream = Append(@, s.url)]
  <2>1. IsView(w)
    BY <1>5, ForwardedIs DEF IsStatement
  <2> HIDE DEF w
  <2>2. /\ DOMAIN h = DOMAIN g
        /\ h.file = g.file /\ h.pc = g.pc /\ h.by = g.by /\ h.conf = g.conf /\ h.load = g.load
        /\ h.vars = g.vars /\ h.imported = g.imported
    OBVIOUS
  <2>3. h.forwarded = g.forwarded \cup {w}
    BY <1>2 DEF IsFrame
  <2>4. Callback(f, s, mods, first) = h
    BY <1>3, <1>5 DEF w
  <2> HIDE DEF h
  <2>5. Stays(g, h)
    BY <1>2, <2>1, <2>2, <2>3 DEF IsFrame, Stays, Same
  <2> QED
    BY <1>2, <2>4, <2>5, StaysTwice
<1>6. CASE s.op = "loadcss"
  BY <1>3, <1>6, ChildrenStay
<1> QED
  BY <1>4, <1>5, <1>6 DEF Loading

LEMMA ForwardsStay ==
    ASSUME NEW f, NEW new, IsFrame(f), \A v \in new : IsView(v)
    PROVE  Stays(f, ImportForwards(f, new))
<1> DEFINE names      == UNION {DOMAIN v.exports : v \in new}
           Hidden(vs) == {v \in {Shadowed(v, names) : v \in vs} :
                             v \in vs \/ DOMAIN v.exports # {} \/ modules[v.url].css # <<>>}
           I == Hidden(f.imported) \cup new
           J == Hidden(f.forwarded) \cup new
           V == Restrict(f.vars, DOMAIN f.vars \ names)
           g == [f EXCEPT !.imported = I, !.forwarded = J, !.vars = V]
<1>1. ImportForwards(f, new) = g
  BY DEF ImportForwards
<1>2. ASSUME NEW v, IsView(v) PROVE IsView(Shadowed(v, names))
  <2>1. DOMAIN Restrict(v.exports, DOMAIN v.exports \ names) \subseteq Names
    BY <1>2 DEF Restrict, IsView
  <2>2. /\ DOMAIN Shadowed(v, names) = DOMAIN v
        /\ Shadowed(v, names).exports = Restrict(v.exports, DOMAIN v.exports \ names)
    BY <1>2 DEF Shadowed, IsView
  <2> QED
    BY <1>2, <2>1, <2>2 DEF IsView
<1>3. \A v \in I \cup J : IsView(v)
  BY <1>2 DEF IsFrame
<1>4. DOMAIN V \subseteq Names
  BY DEF Restrict, IsFrame
<1> HIDE DEF I, J, V
<1>5. /\ DOMAIN g = DOMAIN f /\ g.imported = I /\ g.forwarded = J /\ g.vars = V
      /\ g.file = f.file /\ g.pc = f.pc /\ g.by = f.by /\ g.conf = f.conf /\ g.load = f.load
  BY DEF IsFrame
<1> HIDE DEF g
<1>6. Stays(f, g)
  BY <1>3, <1>4, <1>5 DEF IsFrame, Stays, Same
<1> QED
  BY <1>1, <1>6

LEMMA ModuleIs ==
    ASSUME NEW mods, Viewed(mods), NEW f, IsFrame(f), NEW css, NEW u
    PROVE  /\ Viewed(Put(mods, u, ToModule(mods, f, css)))
           /\ IsView(Put(mods, u, ToModule(mods, f, css))[u])
<1> DEFINE e == Over(ForwardedExports(f), [n \in DOMAIN f.vars |-> <<f.file, n>>])
           mod == ToModule(mods, f, css)
<1>1. DOMAIN e \subseteq Names
  <2>1. DOMAIN ForwardedExports(f) = UNION {DOMAIN v.exports : v \in f.forwarded}
    BY DEF ForwardedExports
  <2>2. DOMAIN e = DOMAIN ForwardedExports(f) \cup DOMAIN f.vars
    BY DEF Over
  <2> QED
    BY <2>1, <2>2 DEF IsFrame, IsView
<1>2. "exports" \in DOMAIN mod /\ mod.exports = e
  BY DEF ToModule
<1> HIDE DEF mod, e
<1>3. IsView(mod)
  BY <1>1, <1>2 DEF IsView
<1> QED
  BY <1>3 DEF Put, Viewed, mod

-----------------------------------------------------------------------------
(* The steps                                                                *)

LEMMA StackTop ==
    ASSUME LoadingInv, status = "running"
    PROVE  /\ Lined(program, stack, active)
           /\ Len(stack) \in Nat \ {0}
           /\ IsFrame(Top) /\ Top.file \in active
           /\ Below = Front(stack) /\ Top = stack[Len(stack)]
           /\ Viewed(modules) /\ program \in Programs
<1>1. Lined(program, stack, active) /\ Viewed(modules) /\ program \in Programs
  BY DEF LoadingInv
<1>2. Len(stack) \in Nat \ {0}
  BY <1>1 DEF Lined, Nested
<1> QED
  BY <1>1, <1>2 DEF Lined, Nested, Marked, Top, Below

LEMMA StmtIs ==
    ASSUME LoadingInv, NEW op, AtStmt(op)
    PROVE  status = "running" /\ IsStatement(Stmt) /\ Stmt.op = op
<1>1. status = "running" /\ Top.pc <= Len(program[Top.file]) /\ Stmt.op = op
  BY DEF AtStmt
<1>2. program \in Programs /\ Top.file \in Files /\ Top.pc \in Nat \ {0}
  BY <1>1, StackTop DEF IsFrame
<1>3. /\ Len(program[Top.file]) \in Nat
      /\ \A k \in 1..Len(program[Top.file]) : IsStatement(program[Top.file][k])
  BY <1>2, ProgramsAssumption
<1> QED
  BY <1>1, <1>2, <1>3 DEF Stmt

(* A statement that ends in the frame it began in. *)
LEMMA GoesOn ==
    ASSUME LoadingInv, status = "running", NEW g, Stays(Top, g),
           stack' = Append(Below, Advance(g)), UNCHANGED <<program, active>>, Viewed(modules')
    PROVE  LoadingInv'
<1>1. Stays(Top, Advance(g))
  BY AdvanceStays, StaysTwice DEF Stays, Same
<1>2. Lined(program, Append(Front(stack), Advance(g)), active)
  BY <1>1, StackTop, TopGoesOn DEF Stays
<1> QED
  BY <1>2, StackTop DEF LoadingInv

LEMMA LoadedAgain ==
    ASSUME LoadingInv, NEW conf, NEW load, NEW heap,
           status = "running", Stmt.op \in Loading, IsStatement(Stmt), Stmt.url \in DOMAIN modules,
           LoadedBefore(Stmt.url, conf, load, heap)
    PROVE  LoadingInv'
<1>1. CASE Fail("already-loaded")
  BY <1>1 DEF Fail, LoadingInv
<1>2. CASE AfterLoad(Below, Top, load, heap, modules, FALSE) /\ UNCHANGED <<active, modules>>
  <2> DEFINE s     == program[Top.file][Top.pc]
  <2>1. /\ UNCHANGED program
        /\ \/ /\ stack' = Append(Below, Advance(Callback(Top, s, modules, FALSE)))
              /\ UNCHANGED status
           \/ status' # "running"
    BY <1>2 DEF AfterLoad, CallbackError, Loading, Stmt
  <2>2. Stays(Top, Callback(Top, s, modules, FALSE))
    BY StackTop, CallbackStays DEF Stmt, Viewed
  <2>3. Viewed(modules')
    BY <1>2, StackTop
  <2> QED
    BY <1>2, <2>1, <2>2, <2>3, GoesOn DEF LoadingInv
<1> QED
  BY <1>1, <1>2 DEF LoadedBefore

LEMMA FreshIs ==
    ASSUME NEW url \in Files, NEW by, NEW conf, NEW load
    PROVE  /\ IsFrame(Fresh(url, by, conf, load)) /\ Fresh(url, by, conf, load).file = url
           /\ Fresh(url, by, conf, load).by = by /\ Fresh(url, by, conf, load).conf = conf
           /\ Fresh(url, by, conf, load).load = load
<1> DEFINE g == Fresh(url, by, conf, load)
<1>1. /\ {"file", "pc", "by", "conf", "load", "vars", "imported", "forwarded"} \subseteq DOMAIN g
      /\ g.file = url /\ g.pc = 1 /\ g.by = by /\ g.conf = conf /\ g.load = load
      /\ g.vars = <<>> /\ g.imported = {} /\ g.forwarded = {}
  BY DEF Fresh
<1>2. DOMAIN <<>> \subseteq Names
  OBVIOUS
<1> HIDE DEF g
<1> QED
  BY <1>1, <1>2 DEF IsFrame, g

LEMMA LoadedNow ==
    ASSUME LoadingInv, NEW conf, NEW load, NEW heap,
           status = "running", Stmt.op \in Loading, IsStatement(Stmt), Stmt.url \notin active,
           LoadFirst(Stmt.url, conf, load, heap)
    PROVE  LoadingInv'
<1> DEFINE g == Fresh(Stmt.url, "load", conf, load)
<1>1. IsFrame(g) /\ g.file = Stmt.url
  BY FreshIs DEF IsStatement, Loading
<1>2. /\ stack' = Append(stack, g) /\ active' = active \cup {g.file}
      /\ UNCHANGED <<program, status, modules>>
  BY <1>1 DEF LoadFirst
<1> HIDE DEF g
<1>3. Above(program, stack[Len(stack)], g)
  BY <1>1 DEF Stmt, Top, Above
<1>4. Lined(program, Append(stack, g), active \cup {g.file})
  BY <1>1, <1>3, StackTop, FileEntered
<1> QED
  BY <1>2, <1>4, StackTop DEF LoadingInv

LEMMA Loads ==
    ASSUME LoadingInv, NEW conf, NEW load, NEW heap,
           status = "running", Stmt.op \in Loading, IsStatement(Stmt),
           LoadModule(Stmt.url, conf, load, heap)
    PROVE  LoadingInv'
<1>1. CASE Fail("loop")
  BY <1>1 DEF Fail, LoadingInv
<1> QED
  BY <1>1, LoadedAgain, LoadedNow DEF LoadModule

LEMMA LoadingInit == Init => LoadingInv
<1> SUFFICES ASSUME Init PROVE Lined(program, stack, active) /\ Viewed(modules)
  BY DEF LoadingInv, Init
<1> DEFINE f == Fresh(Entry, "run", EmptyConfiguration, NoLoad)
<1>1. IsFrame(f) /\ f.file = Entry /\ f.by = "run"
  BY LoadingConstants, FreshIs
<1>2. stack = <<f>> /\ active = {Entry} /\ modules = <<>>
  BY DEF Init
<1> HIDE DEF f
<1>3. stack \in Seq({stack[k] : k \in DOMAIN stack}) /\ Len(stack) = 1
  BY <1>2
<1>4. Nested(program, stack)
  BY <1>1, <1>2, <1>3 DEF Nested
<1>5. Marked(stack, active)
  BY <1>1, <1>2, <1>3 DEF Marked
<1>6. Viewed(modules)
  BY <1>2 DEF Viewed
<1> QED
  BY <1>4, <1>5, <1>6 DEF Lined

LEMMA EmittingStays ==
    ASSUME LoadingInv, VisitStyleRule \/ VisitLoudComment \/ VisitStaticImport
    PROVE  /\ status = "running"
           /\ UNCHANGED <<program, active, modules, stores, status, output, asked, taken>>
           /\ \E g : Stays(Top, g) /\ stack' = Append(Below, Advance(g))
<1>1. /\ status = "running"
      /\ UNCHANGED <<program, active, modules, stores, status, output, asked, taken>>
  BY DEF VisitStyleRule, VisitLoudComment, VisitStaticImport, Emitting, AtStmt
<1>2. PICK node, g : /\ g \in {AddChild(Top, node), AddComment(Top, node), AddImport(Top, node)}
                     /\ stack' = Append(Below, Advance(g))
  BY DEF VisitStyleRule, VisitLoudComment, VisitStaticImport, Emitting
<1>3. Stays(Top, g)
  BY <1>1, <1>2, StackTop, AddStays
<1> QED
  BY <1>1, <1>2, <1>3

LEMMA EmittingStep ==
    ASSUME LoadingInv, VisitStyleRule \/ VisitLoudComment \/ VisitStaticImport
    PROVE  LoadingInv'
<1>1. Viewed(modules')
  BY EmittingStays, StackTop
<1> QED
  BY <1>1, EmittingStays, GoesOn

LEMMA DeclarationStays ==
    ASSUME LoadingInv, VisitVariableDeclaration
    PROVE  /\ status = "running" /\ Stmt.name \in Names
           /\ UNCHANGED <<program, active, status, output, asked>>
           /\ \E g : Stays(Top, g) /\ stack' = Append(Below, Advance(g))
           /\ Viewed(modules')
<1> DEFINE n == Stmt.name
           f == IF Stmt.guarded THEN [Top EXCEPT !.configurable = @ \cup {n}] ELSE Top
<1>1. /\ status = "running" /\ n \in Names
      /\ UNCHANGED <<program, active, status, output, asked>>
  <2>1. IsStatement(Stmt) /\ Stmt.op = "declare" /\ status = "running"
    BY StmtIs DEF VisitVariableDeclaration
  <2> QED
    BY <2>1 DEF VisitVariableDeclaration, IsStatement
<1>2. Stays(Top, f) /\ IsFrame(f)
  <2>1. Alike(Top, f)
    BY DEF Alike
  <2> QED
    BY <1>1, <2>1, StackTop, AlikeStays DEF Stays, Same
<1>3. (\E v : SetVariable(f, n, v)) \/ (stack' = Append(Below, Advance(f)) /\ UNCHANGED modules)
  BY DEF VisitVariableDeclaration
<1> HIDE DEF f, n
<1>4. ASSUME NEW v PROVE Stays(f, [f EXCEPT !.vars = Put(@, n, v)])
  <2> DEFINE g == [f EXCEPT !.vars = Put(@, n, v)]
  <2>1. DOMAIN Put(f.vars, n, v) \subseteq Names
    BY <1>1, <1>2 DEF Put, IsFrame
  <2>2. /\ DOMAIN g = DOMAIN f /\ g.vars = Put(f.vars, n, v)
        /\ g.imported = f.imported /\ g.forwarded = f.forwarded
        /\ g.file = f.file /\ g.pc = f.pc /\ g.by = f.by /\ g.conf = f.conf /\ g.load = f.load
    BY <1>2 DEF IsFrame
  <2> HIDE DEF g
  <2>3. Stays(f, g)
    BY <1>2, <2>1, <2>2 DEF IsFrame, Stays, Same
  <2> QED
    BY <2>3 DEF g
<1>5. ASSUME NEW v, NEW o, modules' = [modules EXCEPT ![o[1]].vars[o[2]] = v]
      PROVE  Viewed(modules')
  <2>1. Viewed(modules)
    BY <1>1, StackTop
  <2>2. DOMAIN modules' = DOMAIN modules
    BY <1>5
  <2>3. ASSUME NEW u \in DOMAIN modules PROVE IsView(modules'[u])
    <3>1. CASE u = o[1]
      <4>1. modules'[u] = [modules[u] EXCEPT !.vars[o[2]] = v]
        BY <3>1, <1>5
      <4>2. DOMAIN modules'[u] = DOMAIN modules[u] /\ modules'[u].exports = modules[u].exports
        BY <4>1, <2>1 DEF Viewed, IsView
      <4> QED
        BY <4>2, <2>1 DEF Viewed, IsView
    <3>2. CASE u # o[1]
      BY <3>2, <1>5, <2>1 DEF Viewed
    <3> QED
      BY <3>1, <3>2
  <2> QED
    BY <2>2, <2>3 DEF Viewed
<1>6. PICK g : Stays(f, g) /\ stack' = Append(Below, Advance(g)) /\ Viewed(modules')
  <2>1. CASE stack' = Append(Below, Advance(f)) /\ UNCHANGED modules
    BY <2>1, <1>1, <1>2, StackTop DEF Stays, Same
  <2>2. CASE \E v : SetVariable(f, n, v)
    <3>1. PICK v : SetVariable(f, n, v)
      BY <2>2
    <3>2. CASE stack' = Append(Below, Advance([f EXCEPT !.vars = Put(@, n, v)])) /\ UNCHANGED modules
      BY <3>2, <1>1, <1>4, StackTop
    <3>3. CASE ~(stack' = Append(Below, Advance([f EXCEPT !.vars = Put(@, n, v)])) /\ UNCHANGED modules)
      <4>1. \E o : modules' = [modules EXCEPT ![o[1]].vars[o[2]] = v] /\ stack' = Append(Below, Advance(f))
        BY <3>1, <3>3 DEF SetVariable
      <4> QED
        BY <4>1, <1>2, <1>5 DEF Stays, Same
    <3> QED
      BY <3>2, <3>3
  <2> QED
    BY <1>3, <2>1, <2>2
<1>7. Stays(Top, g)
  BY <1>2, <1>6, StaysTwice
<1> QED
  BY <1>1, <1>6, <1>7 DEF n

LEMMA DeclarationStep ==
    ASSUME LoadingInv, VisitVariableDeclaration
    PROVE  LoadingInv'
BY DeclarationStays, GoesOn

LEMMA LoadStep ==
    ASSUME LoadingInv, VisitUseRule \/ LoadCss \/ VisitForwardRule
    PROVE  LoadingInv'
<1>1. status = "running" /\ Stmt.op \in Loading /\ IsStatement(Stmt)
  BY StmtIs DEF VisitUseRule, LoadCss, VisitForwardRule, Loading
<1>2. \E conf, load, heap : LoadModule(Stmt.url, conf, load, heap)
  <2>1. CASE VisitUseRule \/ LoadCss
    BY <2>1 DEF VisitUseRule, LoadCss, LoadWith
  <2>2. CASE VisitForwardRule
    BY <2>2 DEF VisitForwardRule
  <2> QED
    BY <2>1, <2>2
<1> QED
  BY <1>1, <1>2, Loads

(* An @import is reported, or the file begins in one of three ways. *)
LEMMA ImportEnters ==
    ASSUME LoadingInv, VisitDynamicImport, ~Fail("loop")
    PROVE  /\ status = "running" /\ IsStatement(Stmt) /\ Stmt.url \notin active
           /\ UNCHANGED <<program, modules, status, asked, taken>>
           /\ active' = active \cup {Stmt.url}
           /\ \E g :
                /\ IsFrame(g) /\ g.file = Stmt.url /\ stack' = Append(stack, g)
                /\ \/ g.by = "inject" /\ g.conf = Top.conf /\ stores' = stores
                   \/ g.by = "import" /\ g.load = NoLoad /\ g.conf = Top.conf /\ stores' = stores
                   \/ /\ g.by = "import" /\ g.load = NoLoad
                      /\ g.conf = NewConfiguration(stores, ImplicitValues(Top), FALSE)
                      /\ stores' = Append(stores, ImplicitValues(Top))
<1> DEFINE shared == [Top EXCEPT !.file = Stmt.url, !.pc = 1, !.by = "inject"]
           fresh  == Fresh(Stmt.url, "import", Top.conf, NoLoad)
           alone  == [fresh EXCEPT
                        !.vars = Top.vars, !.configurable = Top.configurable,
                        !.imported = Top.imported, !.comments = Top.comments]
           new    == NewConfiguration(stores, ImplicitValues(Top), FALSE)
           own    == [alone EXCEPT !.conf = new]
<1>1. status = "running" /\ IsStatement(Stmt) /\ Stmt.url \in Files
  BY StmtIs DEF VisitDynamicImport, IsStatement
<1>2. /\ Stmt.url \notin active
      /\ \/ stack' = Append(stack, shared) /\ UNCHANGED stores
         \/ stack' = Append(stack, alone) /\ UNCHANGED stores
         \/ stack' = Append(stack, own) /\ stores' = Append(stores, ImplicitValues(Top))
      /\ active' = active \cup {Stmt.url}
      /\ UNCHANGED <<program, modules, status, asked, taken>>
  BY DEF VisitDynamicImport
<1>3. IsFrame(Top)
  BY <1>1, StackTop
<1> HIDE DEF new
<1>4. IsFrame(shared) /\ shared.file = Stmt.url /\ shared.by = "inject" /\ shared.conf = Top.conf
  <2>1. /\ DOMAIN shared = DOMAIN Top /\ shared.file = Stmt.url /\ shared.pc = 1
        /\ shared.by = "inject" /\ shared.conf = Top.conf /\ shared.vars = Top.vars
        /\ shared.imported = Top.imported /\ shared.forwarded = Top.forwarded
    BY <1>3 DEF IsFrame
  <2> HIDE DEF shared
  <2> QED
    BY <1>1, <1>3, <2>1 DEF IsFrame
<1>5. ASSUME NEW g, g \in {alone, own}
      PROVE  IsFrame(g) /\ g.file = Stmt.url /\ g.by = "import" /\ g.load = NoLoad
  <2>1. /\ {"file", "pc", "by", "conf", "load", "vars", "imported", "forwarded"} \subseteq DOMAIN g
        /\ g.file = Stmt.url /\ g.pc = 1 /\ g.by = "import" /\ g.load = NoLoad
        /\ g.vars = Top.vars /\ g.imported = Top.imported /\ g.forwarded = {}
    BY <1>5 DEF Fresh
  <2> HIDE DEF alone, own
  <2> QED
    BY <1>1, <1>3, <2>1 DEF IsFrame
<1>6. alone.conf = Top.conf /\ own.conf = new
  BY DEF Fresh
<1> HIDE DEF shared, alone, own
<1> QED
  BY <1>1, <1>2, <1>4, <1>5, <1>6 DEF new

LEMMA ImportStep ==
    ASSUME LoadingInv, VisitDynamicImport
    PROVE  LoadingInv'
<1>1. CASE Fail("loop")
  BY <1>1 DEF Fail, LoadingInv
<1>2. CASE ~Fail("loop")
  <2>1. PICK g : IsFrame(g) /\ g.file = Stmt.url /\ g.by # "load" /\ stack' = Append(stack, g)
    BY <1>2, ImportEnters
  <2>2. /\ status = "running" /\ IsStatement(Stmt) /\ Stmt.url \notin active
        /\ UNCHANGED <<program, modules, status>> /\ active' = active \cup {g.file}
    BY <1>2, <2>1, ImportEnters
  <2>3. Above(program, stack[Len(stack)], g)
    BY <2>1, <2>2 DEF Above, Stmt, Top
  <2>4. Lined(program, Append(stack, g), active \cup {g.file})
    BY <2>1, <2>2, <2>3, StackTop, FileEntered
  <2> QED
    BY <2>1, <2>2, <2>4, StackTop DEF LoadingInv
<1> QED
  BY <1>1, <1>2

(* The end of a file takes it off the stack; the frame below goes on. *)
LEMMA Returns ==
    ASSUME LoadingInv, status = "running", Top.by # "run"
    PROVE  /\ Lined(program, Below, active \ {Top.file})
           /\ Below # <<>> /\ Last(Below) = Below[Len(Below)] /\ IsFrame(Last(Below))
           /\ \A g : Stays(Last(Below), g) =>
                     Lined(program, Append(Front(Below), Advance(g)), active \ {Top.file})
           /\ Above(program, Last(Below), Top)
<1>1. Lined(program, Below, active \ {Top.file}) /\ Above(program, Last(Below), Top)
  BY StackTop, FileLeft
<1>2. Below # <<>> /\ Last(Below) = Below[Len(Below)] /\ IsFrame(Last(Below))
  <2>1. Below # <<>> /\ Len(Below) \in Nat \ {0}
    BY <1>1 DEF Lined, Nested
  <2> QED
    BY <1>1, <2>1 DEF Lined, Nested, Last
<1>3. ASSUME NEW g, Stays(Last(Below), g)
      PROVE  Lined(program, Append(Front(Below), Advance(g)), active \ {Top.file})
  <2>1. Same(Below[Len(Below)], Advance(g))
    BY <1>2, <1>3, AdvanceStays, StaysTwice DEF Stays, Same
  <2> QED
    BY <1>1, <2>1, TopGoesOn
<1> QED
  BY <1>1, <1>2, <1>3

LEMMA FinishModuleStays ==
    ASSUME LoadingInv, FinishModule
    PROVE  LET mods == Put(modules, Top.file, ToModule(modules, Top, Children(Top)))
               f    == Last(Below)
               s    == program[f.file][f.pc]
           IN  /\ status = "running" /\ Top.by = "load" /\ active' = active \ {Top.file}
               /\ s.op \in Loading /\ IsFrame(f) /\ modules' = mods /\ Viewed(mods)
               /\ AfterLoad(Front(Below), f, Top.load, stores, mods, TRUE)
               /\ Stays(f, Callback(f, s, mods, TRUE))
<1> DEFINE mods == Put(modules, Top.file, ToModule(modules, Top, Children(Top)))
           f == Last(Below)
           s == program[f.file][f.pc]
<1>1. status = "running" /\ Top.by = "load" /\ active' = active \ {Top.file} /\ modules' = mods
  BY DEF FinishModule, AtEnd
<1>2. AfterLoad(Front(Below), f, Top.load, stores, mods, TRUE)
  BY DEF FinishModule
<1>3. Viewed(mods) /\ IsView(mods[Top.file])
  BY <1>1, StackTop, ModuleIs
<1> HIDE DEF mods
<1>4. s.op \in Loading /\ s.url = Top.file /\ IsFrame(f) /\ IsStatement(s)
  BY <1>1, Returns DEF Above
<1> HIDE DEF f, s
<1>5. Stays(f, Callback(f, s, mods, TRUE))
  BY <1>3, <1>4, CallbackStays
<1> QED
  BY <1>1, <1>2, <1>3, <1>4, <1>5 DEF mods, f, s

LEMMA FinishModuleStep ==
    ASSUME LoadingInv, FinishModule
    PROVE  LoadingInv'
<1> DEFINE mods == Put(modules, Top.file, ToModule(modules, Top, Children(Top)))
           f == Last(Below)
           s == program[f.file][f.pc]
<1>1. /\ status = "running" /\ Top.by = "load" /\ active' = active \ {Top.file}
      /\ s.op \in Loading /\ IsFrame(f) /\ modules' = mods /\ Viewed(mods)
      /\ AfterLoad(Front(Below), f, Top.load, stores, mods, TRUE)
      /\ Stays(f, Callback(f, s, mods, TRUE))
  BY FinishModuleStays
<1> HIDE DEF mods
<1>2. /\ UNCHANGED program
      /\ \/ /\ stack' = Append(Front(Below), Advance(Callback(f, s, mods, TRUE)))
            /\ UNCHANGED status
         \/ status' # "running"
  BY <1>1 DEF AfterLoad, CallbackError, Loading
<1> QED
  BY <1>1, <1>2, Returns, StackTop DEF LoadingInv

LEMMA FinishInjectStep ==
    ASSUME LoadingInv, FinishInject
    PROVE  LoadingInv'
<1> DEFINE f == Last(Below)
           g == [Top EXCEPT !.file = f.file, !.pc = f.pc, !.by = f.by, !.load = f.load]
<1>1. /\ status = "running" /\ Top.by # "run" /\ active' = active \ {Top.file}
      /\ stack' = Append(Front(Below), Advance(g)) /\ UNCHANGED <<program, status, modules>>
  BY DEF FinishInject, AtEnd
<1>2. IsFrame(f) /\ IsFrame(Top)
  BY <1>1, StackTop, Returns
<1>3. Same(f, g)
  <2>1. /\ DOMAIN g = DOMAIN Top /\ g.file = f.file /\ g.pc = f.pc /\ g.by = f.by
        /\ g.vars = Top.vars /\ g.imported = Top.imported /\ g.forwarded = Top.forwarded
    BY <1>2 DEF IsFrame
  <2> HIDE DEF g
  <2> QED
    BY <1>2, <2>1 DEF IsFrame, Same
<1> HIDE DEF g
<1>4. Same(f, Advance(g))
  BY <1>3, AdvanceStays DEF Stays, Same
<1>5. Lined(program, Append(Front(Below), Advance(g)), active \ {Top.file})
  BY <1>1, <1>4, Returns, TopGoesOn
<1> QED
  BY <1>1, <1>5, StackTop DEF LoadingInv

LEMMA FinishImportStays ==
    ASSUME LoadingInv, FinishImport
    PROVE  /\ status = "running" /\ Top.by = "import" /\ active' = active \ {Top.file}
           /\ UNCHANGED <<program, modules, stores, status, output, asked, taken>>
           /\ \E g : Stays(Last(Below), g) /\ stack' = Append(Front(Below), Advance(g))
<1> DEFINE dummy == ToDummyModule(modules, Top)
           b == Last(Below)
           f == [b EXCEPT !.vars = Top.vars, !.configurable = Top.configurable,
                          !.imported = Top.imported, !.comments = Top.comments]
           g == ImportForwards(f, Top.forwarded)
           h == IF dummy.hasCss THEN VisitCss(g, CombineCss(Put(modules, None, dummy), None))
                ELSE g
           i == VisitImportedCss(h, Children(Top))
<1>1. /\ status = "running" /\ Top.by = "import" /\ active' = active \ {Top.file}
      /\ stack' = Append(Front(Below), Advance(i))
      /\ UNCHANGED <<program, modules, stores, status, output, asked, taken>>
  BY DEF FinishImport, AtEnd
<1>2. IsFrame(b) /\ IsFrame(Top)
  BY <1>1, StackTop, Returns
<1>3. Stays(b, f) /\ IsFrame(f)
  <2>1. /\ DOMAIN f = DOMAIN b /\ f.file = b.file /\ f.pc = b.pc /\ f.by = b.by
        /\ f.conf = b.conf /\ f.load = b.load /\ f.forwarded = b.forwarded
        /\ f.vars = Top.vars /\ f.imported = Top.imported
    BY <1>2 DEF IsFrame
  <2> HIDE DEF f, b
  <2> QED
    BY <1>2, <2>1 DEF IsFrame, Stays, Same
<1> HIDE DEF f
<1>4. Stays(f, g) /\ IsFrame(g)
  <2>1. \A v \in Top.forwarded : IsView(v)
    BY <1>2 DEF IsFrame
  <2> QED
    BY <1>3, <2>1, ForwardsStay DEF Stays, Same
<1> HIDE DEF g, dummy
<1>5. Stays(g, h) /\ IsFrame(h)
  <2>1. CASE dummy.hasCss
    BY <2>1, <1>4, ChildrenStay DEF Stays, Same
  <2>2. CASE ~dummy.hasCss
    BY <2>2, <1>4 DEF Stays, Same
  <2> QED
    BY <2>1, <2>2
<1> HIDE DEF h
<1>6. Stays(h, i)
  BY <1>5, ChildrenStay
<1> HIDE DEF i, b
<1>7. Stays(b, i)
  BY <1>3, <1>4, <1>5, <1>6, StaysTwice
<1> QED
  BY <1>1, <1>7 DEF b

LEMMA FinishImportStep ==
    ASSUME LoadingInv, FinishImport
    PROVE  LoadingInv'
<1>1. PICK g : Stays(Last(Below), g) /\ stack' = Append(Front(Below), Advance(g))
  BY FinishImportStays
<1>2. /\ status = "running" /\ Top.by # "run" /\ active' = active \ {Top.file}
      /\ UNCHANGED <<program, modules>>
  BY FinishImportStays
<1> QED
  BY <1>1, <1>2, Returns, StackTop DEF LoadingInv

LEMMA LoadingNext == LoadingInv /\ [Next]_vars => LoadingInv'
<1> SUFFICES ASSUME LoadingInv, [Next]_vars PROVE LoadingInv'
  OBVIOUS
<1>1. CASE VisitStyleRule \/ VisitLoudComment \/ VisitStaticImport
  BY <1>1, EmittingStep
<1>2. CASE VisitVariableDeclaration
  BY <1>2, DeclarationStep
<1>3. CASE VisitUseRule \/ LoadCss \/ VisitForwardRule
  BY <1>3, LoadStep
<1>4. CASE VisitDynamicImport
  BY <1>4, ImportStep
<1>5. CASE FinishModule
  BY <1>5, FinishModuleStep
<1>6. CASE FinishInject
  BY <1>6, FinishInjectStep
<1>7. CASE FinishImport
  BY <1>7, FinishImportStep
<1>8. CASE FinishRun
  BY <1>8 DEF FinishRun, LoadingInv
<1>9. CASE UNCHANGED vars
  BY <1>9 DEF vars, LoadingInv
<1> QED
  BY <1>1, <1>2, <1>3, <1>4, <1>5, <1>6, <1>7, <1>8, <1>9 DEF Next

(* Whatever mixture of @use, @forward, @import and load-css leads back to a *)
(* file under evaluation, it is reported and never entered: as long as the  *)
(* evaluator runs, the files marked as active (evaluateModule,              *)
(* visitDynamicImport) are those on the Go call stack, each of them once.   *)
THEOREM EveryLoopFound == Spec => []LoopsFound
<1>1. LoadingInv => LoopsFound
  BY DEF LoadingInv, Lined, Marked, LoopsFound
<1> QED
  BY <1>1, LoadingInit, LoadingNext, PTL DEF Spec

-----------------------------------------------------------------------------
(* Where the values of with clauses are.                                    *)
(* A frame is seen with the statement below that it was begun by: place k   *)
(* of "L", of "m".  Frames that share a store follow one another; the first *)
(* of them got it new, from its statement ("load", with a with clause) or   *)
(* from an @import.                                                         *)
Sequence(s) == s \in Seq({s[k] : k \in DOMAIN s})

Used(tak, from)     == \E k \in 1..Len(tak) : tak[k].from = from
Holds(h, s, from)   == \E n \in DOMAIN h[s] : h[s][n].from = from
Value(h, c, n)      == h[c.store][c.sees[n]]
Hiding(with)        == DOMAIN with \ Guarded(with)

(* What stores hold: of each origin one value, no older than the store. *)
Stored(h, ask) ==
    /\ Sequence(h)
    /\ \A s \in 1..Len(h) : DOMAIN h[s] \subseteq Names
    /\ \A s \in 1..Len(h) : \A n \in DOMAIN h[s] :
          h[s][n].from[1] \in 0..s /\ (h[s][n].from \in ask => h[s][n].val # Null)
    /\ \A s \in 1..Len(h) : \A i, j \in DOMAIN h[s] : h[s][i].from = h[s][j].from => i = j

(* A configuration: the store of its values, and by which names it sees     *)
(* which of them.                                                           *)
Configurations == [store : Nat, sees : UNION {[S -> Names] : S \in SUBSET Names},
                   explicit : BOOLEAN]
IsConf(h, c) == c \in Configurations /\ c.store \in 1..Len(h) /\ IsInjective(c.sees)

(* The store of a frame whose @forward had a with clause: under a name that *)
(* clause leaves alone, what the configuration below shows there.           *)
Copied(h, f, b) ==
    /\ IsConf(h, f.load.adjusted) /\ f.load.adjusted.store = b.conf.store
    /\ \A n \in Visible(h, f.load.adjusted) \ Hiding(f.stmt.with) :
          n \in DOMAIN h[f.conf.store] => h[f.conf.store][n] = Value(h, f.load.adjusted, n)
    /\ \A n \in DOMAIN h[f.conf.store] \ DOMAIN f.stmt.with : n \in Visible(h, f.load.adjusted)
Lent(h, f, b) ==
    /\ f.load.given = f.conf /\ f.conf.store > b.conf.store
    /\ \A n \in DOMAIN f.conf.sees : f.conf.sees[n] = n
    /\ DOMAIN h[f.conf.store] \subseteq DOMAIN f.conf.sees
    /\ (f.load.adjusted = NoConfiguration) <=> (f.stmt.op # "forward")
    /\ f.load.adjusted = NoConfiguration => f.conf.explicit
    /\ f.load.adjusted # NoConfiguration => Copied(h, f, b)
Framed(h, f, b) ==
    \/ f.by = "inject" /\ f.conf = b.conf
    \/ f.by = "import" /\ f.load = NoLoad /\ f.conf = b.conf
    \/ f.by = "import" /\ f.load = NoLoad /\ f.conf.store > b.conf.store /\ ~f.conf.explicit
    \/ /\ f.by = "load" /\ f.load = NoLoad
       /\ f.conf.store = b.conf.store /\ f.conf.explicit = b.conf.explicit
    \/ f.by = "load" /\ Lent(h, f, b)
Chain(L, m, h) ==
    /\ m \in Nat \ {0}
    /\ L[1].conf.store = 1 /\ DOMAIN h[1] = {}
    /\ \A k \in 1..m : IsConf(h, L[k].conf)
    /\ \A k \in 2..m : Framed(h, L[k], L[k - 1])
    /\ \A i, j \in 1..m : i <= j => L[i].conf.store <= L[j].conf.store

(* The value was handed on to the frame, or has been from there.            *)
Linked(h, f, from) ==
    /\ f.load.adjusted # NoConfiguration
    /\ \E n \in Visible(h, f.load.adjusted) \ Hiding(f.stmt.with) :
          Value(h, f.load.adjusted, n).from = from
Passed(L, m, h, tak, k, from) ==
    Used(tak, from) \/ \E i \in k..m : Holds(h, L[i].conf.store, from)

(* Each value of an explicit with clause is somewhere until it is used, and *)
(* whoever else has it gets to know when it is.                             *)
Routed(L, m, h, tak, from) ==
    /\ from[1] \in 1..Len(h)
    /\ \A k \in 1..m : Holds(h, L[k].conf.store, from) => L[k].conf.explicit
    /\ \A k \in 2..m : L[k].conf.store # L[k - 1].conf.store
                         /\ Holds(h, L[k - 1].conf.store, from)
          => (Linked(h, L[k], from) <=> Passed(L, m, h, tak, k, from))
    /\ Used(tak, from) => ~Holds(h, L[m].conf.store, from)
    /\ Passed(L, m, h, tak, 1, from)
Once(ask, tak) ==
    /\ Sequence(tak)
    /\ \A j, k \in 1..Len(tak) : tak[j].from = tak[k].from /\ tak[j].from \in ask => j = k
Told(h, tak) == \A k \in 1..Len(tak) : tak[k].from[1] \in 0..Len(h)
Accounted(L, m, h, ask, tak) ==
    /\ Stored(h, ask) /\ Chain(L, m, h) /\ Told(h, tak)
    /\ \A from \in ask : Routed(L, m, h, tak, from)

-----------------------------------------------------------------------------
(* What the operations on configurations do to the stores *)

LEMMA ConfIs == ASSUME NEW h, NEW c, IsConf(h, c) PROVE c # NoConfiguration
BY DEF IsConf, NoConfiguration

LEMMA AppendIs ==
    ASSUME NEW s, Sequence(s), NEW v
    PROVE  /\ Len(s) \in Nat /\ Sequence(Append(s, v)) /\ Len(Append(s, v)) = Len(s) + 1
           /\ Append(s, v)[Len(s) + 1] = v
           /\ \A k \in 1..Len(s) : Append(s, v)[k] = s[k]
<1> DEFINE S == {s[k] : k \in DOMAIN s} \cup {v}
           t == Append(s, v)
<1>1. s \in Seq(S) /\ v \in S
  BY DEF Sequence
<1> HIDE DEF S
<1>2. /\ Len(s) \in Nat /\ Len(t) = Len(s) + 1 /\ t \in Seq(S)
      /\ t[Len(s) + 1] = v /\ \A k \in 1..Len(s) : t[k] = s[k]
  BY <1>1
<1>3. Sequence(t)
  BY <1>2 DEF Sequence
<1> QED BY <1>2, <1>3

(* Some keys of one store are dropped. *)
Without(g, h, s, keys) ==
    /\ Sequence(g) /\ Len(g) = Len(h)
    /\ \A t \in 1..Len(h) : t # s => g[t] = h[t]
    /\ DOMAIN g[s] = DOMAIN h[s] \ keys
    /\ \A n \in DOMAIN g[s] : g[s][n] = h[s][n]
Keys(c, names) == {c.sees[n] : n \in names \cap DOMAIN c.sees}

LEMMA RemoveIs ==
    ASSUME NEW h, Sequence(h), NEW c, IsConf(h, c), NEW names
    PROVE  Without(RemoveNames(h, c, names), h, c.store, Keys(c, names))
<1> DEFINE s == c.store
           v == Restrict(h[s], DOMAIN h[s] \ Keys(c, names))
           g == RemoveNames(h, c, names)
<1>1. g = [h EXCEPT ![s] = v]
  BY DEF RemoveNames, Keys
<1>2. Len(h) \in Nat /\ DOMAIN h = 1..Len(h) /\ s \in 1..Len(h)
  BY DEF Sequence, IsConf
<1>3. DOMAIN v = DOMAIN h[s] \ Keys(c, names) /\ \A n \in DOMAIN v : v[n] = h[s][n]
  BY DEF Restrict
<1> HIDE DEF v, g
<1>4. DOMAIN g = 1..Len(h) /\ g[s] = v /\ \A t \in 1..Len(h) : t # s => g[t] = h[t]
  BY <1>1, <1>2
<1>5. g = [k \in 1..Len(h) |-> g[k]]
  BY <1>1, <1>2
<1>6. g \in Seq({g[k] : k \in DOMAIN g}) /\ Len(g) = Len(h)
  <2> DEFINE S == {g[k] : k \in DOMAIN g}
  <2>1. g \in [1..Len(h) -> S]
    BY <1>4, <1>5
  <2> HIDE DEF S
  <2> QED BY <1>2, <2>1 DEF S
<1> QED BY <1>3, <1>4, <1>6 DEF Without, Sequence, g

LEMMA PrefixOff ==
    ASSUME NEW p \in Names, NEW o \in Names, IsPrefix(p, o)
    PROVE  SubSeq(o, Len(p) + 1, Len(o)) \in Names /\ p \o SubSeq(o, Len(p) + 1, Len(o)) = o
BY DEF IsPrefix, Names

LEMMA ThroughIs ==
    ASSUME NEW h, NEW c, IsConf(h, c), NEW rule, rule.prefix \in Names
    PROVE  /\ IsConf(h, ThroughForward(h, c, rule))
           /\ ThroughForward(h, c, rule).store = c.store
           /\ ThroughForward(h, c, rule).explicit = c.explicit
<1> DEFINE p == rule.prefix
           D == {i \in {SubSeq(o, Len(p) + 1, Len(o)) : o \in {o \in DOMAIN c.sees : IsPrefix(p, o)}} :
                   Admits(rule, i)}
           sees == [n \in D |-> c.sees[Prefixed(rule, n)]]
<1>1. ThroughForward(h, c, rule) = IF IsEmpty(h, c) THEN c ELSE [c EXCEPT !.sees = sees]
  BY DEF ThroughForward
<1>2. /\ DOMAIN c.sees \subseteq Names /\ p \in Names /\ c.store \in 1..Len(h)
      /\ \A o \in DOMAIN c.sees : c.sees[o] \in Names
      /\ c \in Configurations
  BY DEF IsConf, Configurations
<1>3. ASSUME NEW o \in Names, IsPrefix(p, o)
      PROVE  SubSeq(o, Len(p) + 1, Len(o)) \in Names /\ p \o SubSeq(o, Len(p) + 1, Len(o)) = o
  BY <1>2, <1>3, PrefixOff
<1>4. ASSUME NEW n \in D
      PROVE  n \in Names /\ p \o n \in DOMAIN c.sees /\ n = SubSeq(p \o n, Len(p) + 1, Len(p \o n))
  BY <1>2, <1>3
<1> HIDE DEF D
<1>5. sees \in UNION {[S -> Names] : S \in SUBSET Names}
  <2>1. sees \in [D -> Names] /\ D \in SUBSET Names
    BY <1>2, <1>4 DEF Prefixed
  <2> QED BY <2>1
<1>6. IsInjective(sees)
  <2> SUFFICES ASSUME NEW a \in D, NEW b \in D, sees[a] = sees[b] PROVE a = b
    BY DEF IsInjective
  <2>1. p \o a = p \o b
    <3>1. c.sees[p \o a] = c.sees[p \o b]
      BY DEF Prefixed
    <3> QED BY <3>1, <1>4 DEF IsConf, IsInjective
  <2> QED BY <1>4, <2>1
<1> HIDE DEF sees
<1>7. /\ [c EXCEPT !.sees = sees] \in Configurations
      /\ [c EXCEPT !.sees = sees].store = c.store
      /\ [c EXCEPT !.sees = sees].explicit = c.explicit
      /\ [c EXCEPT !.sees = sees].sees = sees
  BY <1>2, <1>5 DEF Configurations
<1> QED BY <1>1, <1>2, <1>6, <1>7 DEF IsConf

LEMMA NewIs ==
    ASSUME NEW h, Sequence(h), NEW v, DOMAIN v \subseteq Names, NEW e \in BOOLEAN
    PROVE  /\ IsConf(Append(h, v), NewConfiguration(h, v, e))
           /\ NewConfiguration(h, v, e).store = Len(h) + 1
           /\ NewConfiguration(h, v, e).explicit = e
           /\ DOMAIN NewConfiguration(h, v, e).sees = DOMAIN v
           /\ \A n \in DOMAIN v : NewConfiguration(h, v, e).sees[n] = n
<1> DEFINE sees == [n \in DOMAIN v |-> n]
<1>1. sees \in UNION {[S -> Names] : S \in SUBSET Names}
  <2>1. sees \in [DOMAIN v -> Names]
    OBVIOUS
  <2> QED BY <2>1
<1>2. IsInjective(sees) /\ DOMAIN sees = DOMAIN v /\ \A n \in DOMAIN v : sees[n] = n
  BY DEF IsInjective
<1>3. NewConfiguration(h, v, e) = [store |-> Len(h) + 1, sees |-> sees, explicit |-> e]
  BY DEF NewConfiguration
<1> HIDE DEF sees
<1>4. Len(h) \in Nat /\ Len(Append(h, v)) = Len(h) + 1
  BY AppendIs
<1> QED BY <1>1, <1>2, <1>3, <1>4 DEF IsConf, Configurations

LEMMA AddForwardIs ==
    ASSUME NEW h, Sequence(h), NEW a, IsConf(h, a), NEW with, DOMAIN with \subseteq Names,
           \A s \in 1..Len(h) : DOMAIN h[s] \subseteq Names
    PROVE  LET g  == AddForwardConfiguration(h, a, with).given
               h2 == AddForwardConfiguration(h, a, with).heap
               v  == h2[Len(h) + 1]
           IN  \E h1 :
                 /\ Without(h1, h, a.store, Keys(a, Guarded(with)))
                 /\ h2 = Append(h1, v)
                 /\ DOMAIN v = DOMAIN with \cup Visible(h, a)
                 /\ \A n \in DOMAIN v :
                      v[n] = IF n \in Guarded(with) \cap Visible(h, a) /\ Value(h, a, n).val # Null
                             THEN Value(h, a, n)
                             ELSE IF n \in DOMAIN with
                             THEN [val |-> with[n].val, from |-> <<Len(h) + 1, n>>]
                             ELSE Value(h, a, n)
                 /\ g = NewConfiguration(h1, v, a.explicit \/ IsEmpty(h1, a))
<1> DEFINE old  == ConfigurationValues(h, a)
           kept == {n \in Guarded(with) \cap DOMAIN old : old[n].val # Null}
           h1   == RemoveNames(h, a, Guarded(with))
           vals == Over(Restrict(old, kept), Over(WithValues(h1, with), old))
           added == AddForwardConfiguration(h, a, with)
<1>1. Without(h1, h, a.store, Keys(a, Guarded(with)))
  BY RemoveIs
<1>2. /\ added.heap = Append(h1, vals)
      /\ added.given = NewConfiguration(h1, vals, a.explicit \/ IsEmpty(h1, a))
  BY DEF AddForwardConfiguration
<1>3. DOMAIN old = Visible(h, a) /\ \A n \in Visible(h, a) : old[n] = Value(h, a, n)
  BY DEF ConfigurationValues, Value
<1> HIDE DEF h1
<1>4. Sequence(h1) /\ Len(h1) = Len(h)
  BY <1>1 DEF Without
<1> DEFINE w == WithValues(h1, with)
<1>5. DOMAIN w = DOMAIN with /\ \A n \in DOMAIN with : w[n] = [val |-> with[n].val, from |-> <<Len(h) + 1, n>>]
  BY <1>4 DEF WithValues
<1> HIDE DEF w, old, added
<1>6. DOMAIN Restrict(old, kept) = kept /\ \A n \in kept : Restrict(old, kept)[n] = old[n]
  BY DEF Restrict
<1>7. Guarded(with) \subseteq DOMAIN with
  BY DEF Guarded
<1> HIDE DEF kept
<1>8. vals = Over(Restrict(old, kept), Over(w, old))
  BY DEF w
<1>9. DOMAIN vals = kept \cup (DOMAIN w \cup DOMAIN old)
  BY <1>6, <1>8 DEF Over
<1>10. \A n \in DOMAIN vals : vals[n] = IF n \in kept THEN old[n] ELSE IF n \in DOMAIN w THEN w[n] ELSE old[n]
  BY <1>6, <1>8, <1>9 DEF Over
<1>11. \A n : n \in kept <=> n \in Guarded(with) \cap Visible(h, a) /\ Value(h, a, n).val # Null
  BY <1>3 DEF kept
<1> HIDE DEF vals
<1>12. DOMAIN vals = DOMAIN with \cup Visible(h, a)
  BY <1>3, <1>5, <1>7, <1>9, <1>11
<1>13. added.heap[Len(h) + 1] = vals
  BY <1>2, <1>4, AppendIs
<1>14. \A n \in DOMAIN vals :
          vals[n] = IF n \in Guarded(with) \cap Visible(h, a) /\ Value(h, a, n).val # Null
                    THEN Value(h, a, n)
                    ELSE IF n \in DOMAIN with
                    THEN [val |-> with[n].val, from |-> <<Len(h) + 1, n>>]
                    ELSE Value(h, a, n)
  <2> SUFFICES ASSUME NEW n \in DOMAIN vals
               PROVE  vals[n] = IF n \in Guarded(with) \cap Visible(h, a) /\ Value(h, a, n).val # Null
                        THEN Value(h, a, n)
                        ELSE IF n \in DOMAIN with
                        THEN [val |-> with[n].val, from |-> <<Len(h) + 1, n>>]
                        ELSE Value(h, a, n)
    OBVIOUS
  <2>1. CASE n \in kept
    BY <2>1, <1>3, <1>10, <1>11
  <2>2. CASE n \notin kept /\ n \in DOMAIN with
    BY <2>2, <1>5, <1>10, <1>11
  <2>3. CASE n \notin kept /\ n \notin DOMAIN with
    BY <2>3, <1>3, <1>5, <1>10, <1>11, <1>12
  <2> QED BY <2>1, <2>2, <2>3
<1> QED BY <1>1, <1>2, <1>12, <1>13, <1>14 DEF added

(* Stores from one of them on have lost entries. *)
Shrunk(g, h, low) ==
    /\ Sequence(g) /\ Len(g) = Len(h)
    /\ \A t \in 1..Len(h) : t < low => g[t] = h[t]
    /\ \A t \in 1..Len(h) : DOMAIN g[t] \subseteq DOMAIN h[t]
    /\ \A t \in 1..Len(h) : \A n \in DOMAIN g[t] : g[t][n] = h[t][n]

LEMMA WithoutShrunk ==
    ASSUME NEW g, NEW h, NEW s \in 1..Len(h), NEW keys, Without(g, h, s, keys), NEW low \in Int, low <= s
    PROVE  Shrunk(g, h, low)
BY DEF Without, Shrunk

LEMMA ShrunkTwice ==
    ASSUME NEW f, NEW g, NEW h, NEW low, Shrunk(f, g, low), Shrunk(g, h, low)
    PROVE  Shrunk(f, h, low)
BY DEF Shrunk

LEMMA ShrunkStored ==
    ASSUME NEW g, NEW h, NEW low, NEW ask, Shrunk(g, h, low), Stored(h, ask)
    PROVE  Stored(g, ask)
<1>1. \A s \in 1..Len(h) : \A n \in DOMAIN g[s] : n \in DOMAIN h[s] /\ g[s][n] = h[s][n]
  BY DEF Shrunk
<1>2. Len(g) = Len(h) /\ Sequence(g)
  BY DEF Shrunk
<1>3. \A s \in 1..Len(h) : \A i, j \in DOMAIN g[s] : g[s][i].from = g[s][j].from => i = j
  BY <1>1 DEF Stored
<1> QED BY <1>1, <1>2, <1>3 DEF Stored

LEMMA ShrunkConf ==
    ASSUME NEW g, NEW h, NEW low, Shrunk(g, h, low), NEW c, IsConf(h, c)
    PROVE  IsConf(g, c) /\ Visible(g, c) \subseteq Visible(h, c)
           /\ \A n \in Visible(g, c) : Value(g, c, n) = Value(h, c, n)
           /\ (c.store < low => Visible(g, c) = Visible(h, c))
BY DEF IsConf, Shrunk, Visible, Value

LEMMA PlaceType ==
    ASSUME NEW L, NEW m, NEW h, Chain(L, m, h), NEW k \in 2..m
    PROVE  /\ m \in Nat \ {0} /\ k \in 1..m /\ k - 1 \in 1..m /\ m \in 1..m
           /\ L[k].conf.store \in 1..Len(h) /\ L[k].conf.store \in Nat
           /\ L[k - 1].conf.store \in 1..Len(h) /\ L[k - 1].conf.store \in Nat
           /\ L[k - 1].conf.store <= L[k].conf.store /\ L[k].conf.store <= L[m].conf.store
<1>1. m \in Nat \ {0} /\ k \in 1..m /\ k - 1 \in 1..m /\ m \in 1..m
  BY DEF Chain
<1>2. \A i \in 1..m : L[i].conf.store \in 1..Len(h) /\ L[i].conf.store \in Nat
  BY DEF Chain, IsConf, Configurations
<1>3. L[k - 1].conf.store <= L[k].conf.store /\ L[k].conf.store <= L[m].conf.store
  BY <1>1 DEF Chain
<1> QED BY <1>1, <1>2, <1>3

(* What lies below the lowest store that changes is as it was. *)
LEMMA ShrunkPlace ==
    ASSUME NEW L, NEW m, NEW h, Chain(L, m, h), NEW g, Shrunk(g, h, L[m].conf.store),
           NEW k \in 2..m, Framed(h, L[k], L[k - 1])
    PROVE  /\ Framed(g, L[k], L[k - 1])
           /\ L[k].conf.store # L[k - 1].conf.store =>
                \A from : /\ Holds(g, L[k - 1].conf.store, from) <=> Holds(h, L[k - 1].conf.store, from)
                          /\ Linked(g, L[k], from) <=> Linked(h, L[k], from)
<1> DEFINE f == L[k]
           b == L[k - 1]
           a == f.load.adjusted
<1>1. /\ f.conf.store \in 1..Len(h) /\ f.conf.store \in Nat
      /\ b.conf.store \in 1..Len(h) /\ b.conf.store \in Nat
      /\ b.conf.store <= f.conf.store /\ f.conf.store <= L[m].conf.store
      /\ L[m].conf.store \in Nat
  BY PlaceType DEF Chain, IsConf, Configurations
<1> HIDE DEF f, b
<1>2. ASSUME f.conf.store # b.conf.store PROVE g[b.conf.store] = h[b.conf.store]
  BY <1>1, <1>2 DEF Shrunk
<1>3. ASSUME Copied(h, f, b), f.conf.store # b.conf.store
      PROVE  /\ Copied(g, f, b) /\ Visible(g, a) = Visible(h, a)
             /\ \A n \in Visible(g, a) : Value(g, a, n) = Value(h, a, n)
  <2>1. IsConf(h, a) /\ a.store = b.conf.store
    BY <1>3 DEF Copied
  <2>2. IsConf(g, a) /\ Visible(g, a) = Visible(h, a)
        /\ \A n \in Visible(g, a) : Value(g, a, n) = Value(h, a, n)
    BY <2>1, <1>2, <1>3, ShrunkConf DEF Visible, Value
  <2> HIDE DEF a
  <2>3. \A n \in DOMAIN g[f.conf.store] : n \in DOMAIN h[f.conf.store] /\ g[f.conf.store][n] = h[f.conf.store][n]
    BY <1>1 DEF Shrunk
  <2> QED BY <2>1, <2>2, <2>3, <1>3 DEF Copied, a
<1>4. ASSUME Lent(h, f, b)
      PROVE  f.conf.store # b.conf.store /\ Lent(g, f, b)
  <2>1. f.conf.store # b.conf.store
    BY <1>1, <1>4 DEF Lent
  <2>2. a # NoConfiguration => Copied(g, f, b)
    BY <2>1, <1>3, <1>4 DEF Lent
  <2>3. DOMAIN g[f.conf.store] \subseteq DOMAIN f.conf.sees
    BY <1>1, <1>4 DEF Lent, Shrunk
  <2> QED BY <2>1, <2>2, <2>3, <1>4 DEF Lent
<1>5. Framed(h, f, b)
  BY DEF f, b
<1>6. Framed(g, f, b)
  BY <1>4, <1>5 DEF Framed
<1>7. ASSUME f.conf.store # b.conf.store, NEW from
      PROVE  /\ Holds(g, b.conf.store, from) <=> Holds(h, b.conf.store, from)
             /\ Linked(g, f, from) <=> Linked(h, f, from)
  <2>1. Holds(g, b.conf.store, from) <=> Holds(h, b.conf.store, from)
    BY <1>2, <1>7 DEF Holds
  <2>2. CASE a = NoConfiguration
    BY <2>1, <2>2 DEF Linked
  <2>3. CASE a # NoConfiguration
    <3>1. Lent(h, f, b)
      <4>1. f.load # NoLoad
        BY <2>3 DEF NoLoad
      <4> QED BY <4>1, <1>5, <1>7 DEF Framed
    <3>2. Copied(h, f, b)
      BY <2>3, <3>1 DEF Lent
    <3>3. Visible(g, a) = Visible(h, a) /\ \A n \in Visible(g, a) : Value(g, a, n) = Value(h, a, n)
      BY <3>2, <1>3, <1>7
    <3> QED BY <2>1, <3>3 DEF Linked
  <2> QED BY <2>2, <2>3
<1> QED BY <1>6, <1>7 DEF f, b

LEMMA ShrunkChain ==
    ASSUME NEW L, NEW m, NEW h, Chain(L, m, h), NEW g, Shrunk(g, h, L[m].conf.store)
    PROVE  Chain(L, m, g)
<1>1. \A k \in 2..m : Framed(g, L[k], L[k - 1])
  BY ShrunkPlace DEF Chain
<1>2. \A k \in 1..m : IsConf(g, L[k].conf)
  BY ShrunkConf DEF Chain
<1>3. DOMAIN g[1] = {}
  <2>1. 1 \in 1..m
    BY DEF Chain
  <2>2. 1 \in 1..Len(h)
    BY <2>1 DEF Chain, IsConf
  <2> QED BY <2>2 DEF Chain, Shrunk
<1> QED BY <1>1, <1>2, <1>3 DEF Chain

-----------------------------------------------------------------------------
(* A value is used, a frame begins and a frame ends.                        *)

LEMMA UsedHolds ==
    ASSUME NEW g, NEW h, NEW low, Shrunk(g, h, low), NEW t \in 1..Len(h), NEW from, Holds(g, t, from)
    PROVE  Holds(h, t, from)
BY DEF Shrunk, Holds

(* An entry of the store on top goes: its value has been used, or is none   *)
(* that was asked for.                                                      *)
LEMMA DropKeeps ==
    ASSUME NEW L, NEW m, NEW h, NEW ask, NEW tak, Accounted(L, m, h, ask, tak),
           NEW key \in DOMAIN h[L[m].conf.store],
           NEW g, Without(g, h, L[m].conf.store, {key}),
           NEW tak2, Told(h, tak2),
           \A from \in ask : Used(tak2, from) <=> Used(tak, from) \/ from = h[L[m].conf.store][key].from
    PROVE  Accounted(L, m, g, ask, tak2)
<1> DEFINE s  == L[m].conf.store
           f0 == h[s][key].from
<1>1. /\ Stored(h, ask) /\ Chain(L, m, h) /\ Told(h, tak)
      /\ \A from \in ask : Routed(L, m, h, tak, from)
  BY DEF Accounted
<1>2. m \in Nat \ {0} /\ m \in 1..m /\ s \in 1..Len(h) /\ s \in Nat
  BY <1>1 DEF Chain, IsConf, Configurations
<1>3. Shrunk(g, h, s)
  BY <1>2, WithoutShrunk
<1>4. Stored(g, ask) /\ Chain(L, m, g) /\ Told(g, tak2) /\ Len(g) = Len(h)
  BY <1>1, <1>3, ShrunkStored, ShrunkChain DEF Told, Shrunk
<1>5. \A from : \A t \in 1..Len(h) : Holds(g, t, from) => Holds(h, t, from)
  BY <1>3, UsedHolds
<1>6. \A from : \A t \in 1..Len(h) : t # s \/ from # f0 => (Holds(h, t, from) => Holds(g, t, from))
  <2> SUFFICES ASSUME NEW from, NEW t \in 1..Len(h), t # s \/ from # f0, Holds(h, t, from)
               PROVE  Holds(g, t, from)
    OBVIOUS
  <2>1. CASE t # s
    BY <2>1 DEF Holds, Without
  <2>2. CASE t = s /\ from # f0
    <3>1. PICK n \in DOMAIN h[s] : h[s][n].from = from
      BY <2>2 DEF Holds
    <3>2. n \in DOMAIN g[s] /\ g[s][n] = h[s][n]
      BY <2>2, <3>1 DEF Without
    <3> QED BY <2>2, <3>1, <3>2 DEF Holds
  <2> QED BY <2>1, <2>2
<1>7. ~Holds(g, s, f0)
  <2>1. \A i, j \in DOMAIN h[s] : h[s][i].from = h[s][j].from => i = j
    BY <1>1, <1>2 DEF Stored
  <2> QED BY <2>1 DEF Holds, Without
<1>8. Holds(h, s, f0)
  BY DEF Holds
<1> HIDE DEF f0
<1>9. ASSUME NEW from \in ask, NEW k \in 1..m
      PROVE  Passed(L, m, g, tak2, k, from) <=> Passed(L, m, h, tak, k, from)
  <2>1. \A i \in k..m : i \in 1..m /\ L[i].conf.store \in 1..Len(h)
    BY <1>1, <1>2 DEF Chain, IsConf
  <2>2. m \in k..m
    BY <1>2
  <2>3. Used(tak2, from) <=> Used(tak, from) \/ from = f0
    BY DEF f0
  <2>4. CASE from = f0
    BY <2>2, <2>3, <2>4, <1>8 DEF Passed
  <2>5. CASE from # f0
    BY <2>1, <2>3, <2>5, <1>5, <1>6 DEF Passed
  <2> QED BY <2>4, <2>5
<1>10. ASSUME NEW from \in ask PROVE Routed(L, m, g, tak2, from)
  <2>1. Routed(L, m, h, tak, from)
    BY <1>1
  <2>2. \A k \in 1..m : L[k].conf.store \in 1..Len(h)
    BY <1>1 DEF Chain, IsConf
  <2>3. ASSUME NEW k \in 2..m, L[k].conf.store # L[k - 1].conf.store, Holds(g, L[k - 1].conf.store, from)
        PROVE  Linked(g, L[k], from) <=> Passed(L, m, g, tak2, k, from)
    <3>1. k \in 1..m /\ Framed(h, L[k], L[k - 1])
      BY <1>1, <1>2 DEF Chain
    <3>2. /\ Holds(h, L[k - 1].conf.store, from)
          /\ Linked(g, L[k], from) <=> Linked(h, L[k], from)
      BY <1>1, <1>3, <2>3, <3>1, ShrunkPlace
    <3>3. Linked(h, L[k], from) <=> Passed(L, m, h, tak, k, from)
      BY <2>1, <2>3, <3>2 DEF Routed
    <3> QED BY <3>1, <3>2, <3>3, <1>9
  <2>4. Used(tak2, from) => ~Holds(g, s, from)
    <3>1. Used(tak2, from) <=> Used(tak, from) \/ from = f0
      BY DEF f0
    <3> QED BY <3>1, <2>1, <1>2, <1>5, <1>7 DEF Routed
  <2>5. \A k \in 1..m : Holds(g, L[k].conf.store, from) => L[k].conf.explicit
    BY <2>1, <2>2, <1>5 DEF Routed
  <2>6. Passed(L, m, g, tak2, 1, from)
    BY <2>1, <1>2, <1>9 DEF Routed
  <2>7. from[1] \in 1..Len(g)
    BY <2>1, <1>4 DEF Routed
  <2> QED BY <2>3, <2>4, <2>5, <2>6, <2>7 DEF Routed
<1> QED BY <1>4, <1>10 DEF Accounted

(* A frame begins in the store of the one that begins it. *)
LEMMA PushSame ==
    ASSUME NEW L, NEW m, NEW h, NEW ask, NEW tak, Accounted(L, m, h, ask, tak),
           NEW M, \A k \in 1..m : M[k] = L[k],
           IsConf(h, M[m + 1].conf), Framed(h, M[m + 1], L[m]),
           M[m + 1].conf.store = L[m].conf.store, M[m + 1].conf.explicit = L[m].conf.explicit
    PROVE  Accounted(M, m + 1, h, ask, tak)
<1>1. /\ Stored(h, ask) /\ Chain(L, m, h) /\ Told(h, tak)
      /\ \A from \in ask : Routed(L, m, h, tak, from)
  BY DEF Accounted
<1>2. /\ m \in Nat \ {0} /\ m + 1 \in Nat \ {0} /\ m \in 1..m /\ 1 \in 1..m
      /\ \A k \in 1..m + 1 : k \in 1..m \/ k = m + 1
      /\ \A k \in 2..m + 1 : k \in 2..m \/ k = m + 1
      /\ \A k \in 2..m : k - 1 \in 1..m /\ k \in 1..m
      /\ (m + 1) - 1 = m
      /\ \A i \in 1..m : L[i].conf.store \in Nat
  <2>1. m \in Nat \ {0}
    BY <1>1 DEF Chain
  <2>2. \A i \in 1..m : L[i].conf.store \in Nat
    BY <1>1 DEF Chain, IsConf, Configurations
  <2> QED BY <2>1, <2>2
<1>3. \A k \in 1..m + 1 : \E i \in 1..m : /\ M[k].conf.store = L[i].conf.store
                                          /\ M[k].conf.explicit = L[i].conf.explicit
                                          /\ k = i \/ (k = m + 1 /\ i = m)
  BY <1>2
<1>4. Chain(M, m + 1, h)
  <2>1. \A k \in 1..m + 1 : IsConf(h, M[k].conf)
    BY <1>1, <1>2 DEF Chain
  <2>2. \A k \in 2..m + 1 : Framed(h, M[k], M[k - 1])
    BY <1>1, <1>2 DEF Chain
  <2>3. ASSUME NEW i \in 1..m + 1, NEW j \in 1..m + 1, i <= j
        PROVE  M[i].conf.store <= M[j].conf.store
    BY <2>3, <1>1, <1>2 DEF Chain
  <2> QED BY <1>1, <1>2, <2>1, <2>2, <2>3 DEF Chain
<1>5. ASSUME NEW from \in ask, NEW k \in 1..m
      PROVE  Passed(M, m + 1, h, tak, k, from) <=> Passed(L, m, h, tak, k, from)
  <2>1. /\ m \in k..m /\ \A i \in k..m + 1 : i \in k..m \/ i = m + 1
        /\ \A i \in k..m : i \in 1..m /\ i \in k..m + 1
    BY <1>2
  <2> QED BY <2>1 DEF Passed
<1>6. ASSUME NEW from \in ask PROVE Routed(M, m + 1, h, tak, from)
  <2>1. Routed(L, m, h, tak, from)
    BY <1>1
  <2>2. \A k \in 1..m + 1 : Holds(h, M[k].conf.store, from) => M[k].conf.explicit
    BY <2>1, <1>3 DEF Routed
  <2>3. ASSUME NEW k \in 2..m + 1, M[k].conf.store # M[k - 1].conf.store,
               Holds(h, M[k - 1].conf.store, from)
        PROVE  Linked(h, M[k], from) <=> Passed(M, m + 1, h, tak, k, from)
    <3>1. k \in 2..m /\ k - 1 \in 1..m /\ k \in 1..m
      BY <2>3, <1>2
    <3> QED BY <3>1, <2>1, <2>3, <1>5 DEF Routed
  <2> QED BY <2>1, <2>2, <2>3, <1>2, <1>5 DEF Routed
<1> QED BY <1>1, <1>4, <1>6 DEF Accounted

(* A store is added. *)
LEMMA GrownStored ==
    ASSUME NEW h, NEW ask, Stored(h, ask), NEW v, NEW ask2, DOMAIN v \subseteq Names,
           \A s \in 1..Len(h) : \A n \in DOMAIN h[s] : h[s][n].from \in ask2 => h[s][n].from \in ask,
           \A n \in DOMAIN v : v[n].from[1] \in 0..Len(h) + 1 /\ (v[n].from \in ask2 => v[n].val # Null),
           \A i, j \in DOMAIN v : v[i].from = v[j].from => i = j
    PROVE  Stored(Append(h, v), ask2)
<1> DEFINE g == Append(h, v)
<1>1. /\ Len(h) \in Nat /\ Sequence(g) /\ Len(g) = Len(h) + 1 /\ g[Len(h) + 1] = v
      /\ \A s \in 1..Len(h) : g[s] = h[s]
  BY AppendIs DEF Stored
<1>2. \A s \in 1..Len(g) : s \in 1..Len(h) \/ s = Len(h) + 1
  BY <1>1
<1> HIDE DEF g
<1>3. ASSUME NEW s \in 1..Len(g)
      PROVE  /\ DOMAIN g[s] \subseteq Names
             /\ \A n \in DOMAIN g[s] :
                  g[s][n].from[1] \in 0..s /\ (g[s][n].from \in ask2 => g[s][n].val # Null)
             /\ \A i, j \in DOMAIN g[s] : g[s][i].from = g[s][j].from => i = j
  <2>1. CASE s \in 1..Len(h)
    BY <2>1, <1>1 DEF Stored
  <2>2. CASE s = Len(h) + 1
    BY <2>2, <1>1
  <2> QED BY <1>2, <2>1, <2>2
<1> QED BY <1>1, <1>3 DEF Stored, g

Grown(g, h) ==
    /\ Sequence(g) /\ Sequence(h) /\ Len(g) = Len(h) + 1
    /\ \A t \in 1..Len(h) : g[t] = h[t]

LEMMA GrownPlace ==
    ASSUME NEW L, NEW m, NEW h, Chain(L, m, h), NEW g, Grown(g, h), NEW k \in 2..m
    PROVE  /\ Framed(g, L[k], L[k - 1])
           /\ L[k].conf.store # L[k - 1].conf.store =>
                \A from : /\ Holds(g, L[k - 1].conf.store, from) <=> Holds(h, L[k - 1].conf.store, from)
                          /\ Linked(g, L[k], from) <=> Linked(h, L[k], from)
<1> DEFINE f == L[k]
           b == L[k - 1]
           a == f.load.adjusted
<1>1. f.conf.store \in 1..Len(h) /\ b.conf.store \in 1..Len(h)
  BY PlaceType
<1>2. Framed(h, f, b)
  BY DEF Chain
<1> HIDE DEF f, b
<1>3. g[b.conf.store] = h[b.conf.store] /\ g[f.conf.store] = h[f.conf.store]
  BY <1>1 DEF Grown
<1>4. ASSUME Copied(h, f, b)
      PROVE  /\ Copied(g, f, b) /\ Visible(g, a) = Visible(h, a)
             /\ \A n \in Visible(g, a) : Value(g, a, n) = Value(h, a, n)
  <2>1. IsConf(h, a) /\ a.store = b.conf.store
    BY <1>4 DEF Copied
  <2>2. Visible(g, a) = Visible(h, a) /\ \A n \in Visible(g, a) : Value(g, a, n) = Value(h, a, n)
    BY <2>1, <1>3 DEF Visible, Value
  <2>3. IsConf(g, a)
    <3>1. Len(h) \in Nat /\ Len(g) = Len(h) + 1
      BY DEF Grown, Sequence
    <3> HIDE DEF a
    <3> QED BY <2>1, <3>1 DEF IsConf
  <2> HIDE DEF a
  <2> QED BY <2>1, <2>2, <2>3, <1>3, <1>4 DEF Copied, a
<1>5. Lent(h, f, b) => Lent(g, f, b)
  BY <1>3, <1>4 DEF Lent
<1>6. Framed(g, f, b)
  BY <1>2, <1>5 DEF Framed
<1>7. ASSUME f.conf.store # b.conf.store, NEW from
      PROVE  /\ Holds(g, b.conf.store, from) <=> Holds(h, b.conf.store, from)
             /\ Linked(g, f, from) <=> Linked(h, f, from)
  <2>1. Holds(g, b.conf.store, from) <=> Holds(h, b.conf.store, from)
    BY <1>3 DEF Holds
  <2>2. CASE a = NoConfiguration
    BY <2>1, <2>2 DEF Linked
  <2>3. CASE a # NoConfiguration
    <3>1. Lent(h, f, b)
      <4>1. f.load # NoLoad
        BY <2>3 DEF NoLoad
      <4> QED BY <4>1, <1>2, <1>7 DEF Framed
    <3>2. Copied(h, f, b)
      BY <2>3, <3>1 DEF Lent
    <3>3. Visible(g, a) = Visible(h, a) /\ \A n \in Visible(g, a) : Value(g, a, n) = Value(h, a, n)
      BY <3>2, <1>4
    <3> QED BY <2>1, <3>3 DEF Linked
  <2> QED BY <2>2, <2>3
<1> QED BY <1>6, <1>7 DEF f, b

(* A frame begins with a store of its own, to which some of what the store  *)
(* of the one that begins it holds may have been moved.                     *)
LEMMA PushNew ==
    ASSUME NEW L, NEW m, NEW h, NEW ask, NEW tak, Accounted(L, m, h, ask, tak),
           NEW M, \A k \in 1..m : M[k] = L[k],
           NEW h1, Shrunk(h1, h, L[m].conf.store), NEW v, NEW ask2, ask \subseteq ask2,
           M[m + 1].conf.store = Len(h) + 1, IsConf(Append(h1, v), M[m + 1].conf),
           Framed(Append(h1, v), M[m + 1], L[m]),
           DOMAIN v \subseteq Names,
           \A n \in DOMAIN v : v[n].from[1] \in 0..Len(h) + 1 /\ (v[n].from \in ask2 => v[n].val # Null),
           \A i, j \in DOMAIN v : v[i].from = v[j].from => i = j,
           \A from \in ask2 \ ask : from[1] = Len(h) + 1 /\ \E n \in DOMAIN v : v[n].from = from,
           \A n \in DOMAIN v : v[n].from \in ask2 => M[m + 1].conf.explicit,
           \A n \in DOMAIN v : v[n].from \in ask => Holds(h, L[m].conf.store, v[n].from),
           \A from \in ask : Holds(h, L[m].conf.store, from) =>
              Holds(h1, L[m].conf.store, from) \/ \E n \in DOMAIN v : v[n].from = from,
           \A from \in ask : Holds(h1, L[m].conf.store, from) =>
              (Linked(Append(h1, v), M[m + 1], from) <=> \E n \in DOMAIN v : v[n].from = from)
    PROVE  Accounted(M, m + 1, Append(h1, v), ask2, tak)
<1> DEFINE s == L[m].conf.store
           g == Append(h1, v)
           Has(from) == \E n \in DOMAIN v : v[n].from = from
<1>1. /\ Stored(h, ask) /\ Chain(L, m, h) /\ Told(h, tak)
      /\ \A from \in ask : Routed(L, m, h, tak, from)
  BY DEF Accounted
<1>2. /\ m \in Nat \ {0} /\ m + 1 \in Nat \ {0} /\ m \in 1..m /\ 1 \in 1..m
      /\ \A k \in 1..m + 1 : k \in 1..m \/ k = m + 1
      /\ \A k \in 2..m + 1 : k \in 2..m \/ k = m + 1
      /\ \A k \in 2..m : k - 1 \in 1..m /\ k \in 1..m
      /\ (m + 1) - 1 = m
      /\ \A i \in 1..m : L[i].conf.store \in Nat /\ L[i].conf.store \in 1..Len(h)
  <2>1. m \in Nat \ {0}
    BY <1>1 DEF Chain
  <2>2. \A i \in 1..m : L[i].conf.store \in Nat /\ L[i].conf.store \in 1..Len(h)
    BY <1>1 DEF Chain, IsConf, Configurations
  <2> QED BY <2>1, <2>2
<1>3. Stored(h1, ask) /\ Chain(L, m, h1) /\ Len(h1) = Len(h) /\ Len(h) \in Nat /\ Sequence(h1)
  <2>1. Stored(h1, ask)
    BY <1>1, ShrunkStored
  <2>2. Chain(L, m, h1)
    BY <1>1, ShrunkChain
  <2>3. Len(h1) = Len(h) /\ Sequence(h1)
    BY DEF Shrunk
  <2>4. Sequence(h) => Len(h) \in Nat
    BY DEF Sequence
  <2> QED BY <1>1, <2>1, <2>2, <2>3, <2>4 DEF Stored
<1>4. Grown(g, h1) /\ g[Len(h) + 1] = v /\ Len(g) = Len(h) + 1
  BY <1>3, AppendIs DEF Grown
<1>5. \A from \in ask2 \ ask : \A t \in 1..Len(h) : ~Holds(h1, t, from)
  <2> SUFFICES ASSUME NEW from \in ask2 \ ask, NEW t \in 1..Len(h), Holds(h1, t, from) PROVE FALSE
    OBVIOUS
  <2>1. from[1] \in 0..t
    BY <1>3 DEF Stored, Holds
  <2>2. from[1] = Len(h) + 1
    OBVIOUS
  <2> QED BY <2>1, <2>2, <1>3
<1>6. Stored(g, ask2)
  <2>1. \A t \in 1..Len(h1) : \A n \in DOMAIN h1[t] : h1[t][n].from \in ask2 => h1[t][n].from \in ask
    BY <1>3, <1>5 DEF Holds
  <2> QED BY <2>1, <1>3, GrownStored
<1>7. Chain(M, m + 1, g)
  <2>1. \A k \in 1..m + 1 : IsConf(g, M[k].conf)
    <3>1. \A k \in 1..m : IsConf(h1, L[k].conf)
      BY <1>3 DEF Chain
    <3>2. \A c : IsConf(h1, c) => IsConf(g, c)
      BY <1>3, <1>4 DEF IsConf
    <3> QED BY <3>1, <3>2, <1>2
  <2>2. \A k \in 2..m : Framed(g, L[k], L[k - 1])
    BY <1>3, <1>4, GrownPlace
  <2>3. \A k \in 2..m + 1 : Framed(g, M[k], M[k - 1])
    BY <2>2, <1>2
  <2>4. ASSUME NEW i \in 1..m + 1, NEW j \in 1..m + 1, i <= j
        PROVE  M[i].conf.store <= M[j].conf.store
    <3>1. CASE j \in 1..m
      <4>1. i \in 1..m
        BY <3>1, <2>4, <1>2
      <4> QED BY <3>1, <4>1, <2>4, <1>1 DEF Chain
    <3>2. CASE j = m + 1 /\ i \in 1..m
      BY <3>2, <1>2
    <3>3. CASE j = m + 1 /\ i = m + 1
      BY <3>3, <1>3
    <3> QED BY <3>1, <3>2, <3>3, <1>2
  <2>5. DOMAIN g[1] = {}
    <3>1. 1 \in 1..Len(h)
      BY <1>1, <1>2 DEF Chain
    <3> QED BY <3>1, <1>3, <1>4 DEF Chain, Grown
  <2> QED BY <1>1, <1>2, <2>1, <2>3, <2>4, <2>5 DEF Chain
<1>8. \A t \in 1..Len(h) : \A from : Holds(g, t, from) <=> Holds(h1, t, from)
  BY <1>3, <1>4 DEF Grown, Holds
<1>9. \A from : Holds(g, Len(h) + 1, from) <=> Has(from)
  BY <1>4 DEF Holds
<1>10. \A t \in 1..Len(h) : \A from : Holds(h1, t, from) => Holds(h, t, from)
  BY UsedHolds
<1>11. \A t \in 1..Len(h) : t < s => \A from : Holds(h1, t, from) <=> Holds(h, t, from)
  BY DEF Shrunk, Holds
<1>12. \A from \in ask : Has(from) => Holds(h, s, from)
  OBVIOUS
<1>13. \A from \in ask : Holds(h, s, from) => Holds(h1, s, from) \/ Has(from)
  OBVIOUS
<1>14. ASSUME NEW from \in ask, NEW k \in 1..m
       PROVE  Passed(M, m + 1, g, tak, k, from) <=> Passed(L, m, h, tak, k, from)
  <2>1. /\ m \in k..m /\ m + 1 \in k..m + 1 /\ \A i \in k..m + 1 : i \in k..m \/ i = m + 1
        /\ \A i \in k..m : i \in 1..m /\ i \in k..m + 1
    BY <1>2
  <2>2. ASSUME NEW i \in k..m
        PROVE  /\ L[i].conf.store \in 1..Len(h) /\ L[i].conf.store <= s
               /\ M[i] = L[i] /\ L[i].conf.store \in Nat /\ s \in Nat
    <3>1. i \in 1..m /\ i <= m
      BY <2>1
    <3> QED BY <3>1, <1>1, <1>2 DEF Chain
  <2>3. ASSUME NEW i \in k..m, Holds(h, L[i].conf.store, from)
        PROVE  Holds(g, L[i].conf.store, from) \/ Has(from)
    <3>1. CASE L[i].conf.store = s
      BY <3>1, <2>2, <2>3, <1>8, <1>13
    <3>2. CASE L[i].conf.store < s
      BY <3>2, <2>2, <2>3, <1>8, <1>11
    <3> QED BY <3>1, <3>2, <2>2
  <2>4. ASSUME Passed(L, m, h, tak, k, from) PROVE Passed(M, m + 1, g, tak, k, from)
    <3>1. CASE Used(tak, from)
      BY <3>1 DEF Passed
    <3>2. CASE \E i \in k..m : Holds(h, L[i].conf.store, from)
      BY <3>2, <2>1, <2>2, <2>3, <1>9 DEF Passed
    <3> QED BY <2>4, <3>1, <3>2 DEF Passed
  <2>5. ASSUME Passed(M, m + 1, g, tak, k, from) PROVE Passed(L, m, h, tak, k, from)
    <3>1. CASE Used(tak, from)
      BY <3>1 DEF Passed
    <3>2. CASE Has(from)
      BY <3>2, <2>1, <1>12 DEF Passed
    <3>3. CASE \E i \in k..m : Holds(g, L[i].conf.store, from)
      BY <3>3, <2>2, <1>8, <1>10 DEF Passed
    <3> QED BY <2>1, <2>2, <2>5, <3>1, <3>2, <3>3, <1>9 DEF Passed
  <2> QED BY <2>4, <2>5
<1>15. ASSUME NEW from \in ask PROVE Routed(M, m + 1, g, tak, from)
  <2>1. Routed(L, m, h, tak, from)
    BY <1>1
  <2>2. ASSUME NEW k \in 1..m + 1, Holds(g, M[k].conf.store, from) PROVE M[k].conf.explicit
    <3>1. CASE k \in 1..m
      BY <3>1, <2>1, <2>2, <1>2, <1>8, <1>10 DEF Routed
    <3>2. CASE k = m + 1
      BY <3>2, <2>2, <1>9
    <3> QED BY <3>1, <3>2, <1>2
  <2>3. ASSUME NEW k \in 2..m + 1, M[k].conf.store # M[k - 1].conf.store,
               Holds(g, M[k - 1].conf.store, from)
        PROVE  Linked(g, M[k], from) <=> Passed(M, m + 1, g, tak, k, from)
    <3>1. CASE k \in 2..m
      <4>1. k \in 1..m /\ k - 1 \in 1..m /\ M[k] = L[k] /\ M[k - 1] = L[k - 1]
        BY <3>1, <1>2
      <4>2. Holds(h1, L[k - 1].conf.store, from) /\ (Linked(g, L[k], from) <=> Linked(h1, L[k], from))
        BY <4>1, <3>1, <2>3, <1>3, <1>4, GrownPlace
      <4>3. Holds(h, L[k - 1].conf.store, from) /\ (Linked(h1, L[k], from) <=> Linked(h, L[k], from))
        <5>1. Framed(h, L[k], L[k - 1])
          BY <3>1, <1>1 DEF Chain
        <5> QED BY <4>1, <4>2, <5>1, <3>1, <2>3, <1>1, ShrunkPlace
      <4> QED BY <4>1, <4>2, <4>3, <3>1, <2>1, <2>3, <1>14 DEF Routed
    <3>2. CASE k = m + 1
      <4>1. Holds(h1, s, from)
        BY <3>2, <2>3, <1>2, <1>8
      <4>2. Linked(g, M[k], from) <=> Has(from)
        BY <3>2, <4>1
      <4>3. ~Used(tak, from)
        BY <4>1, <2>1, <1>2, <1>10 DEF Routed
      <4>4. Passed(M, m + 1, g, tak, m + 1, from) <=> Has(from)
        <5>1. \A i \in m + 1..m + 1 : i = m + 1
          BY <1>2
        <5>2. m + 1 \in m + 1..m + 1
          BY <1>2
        <5> QED BY <5>1, <5>2, <4>3, <1>9 DEF Passed
      <4> QED BY <3>2, <4>2, <4>4
    <3> QED BY <3>1, <3>2, <1>2
  <2>4. Used(tak, from) => ~Holds(g, M[m + 1].conf.store, from)
    BY <2>1, <1>9, <1>12 DEF Routed
  <2>5. Passed(M, m + 1, g, tak, 1, from)
    BY <2>1, <1>2, <1>14 DEF Routed
  <2>6. from[1] \in 1..Len(g)
    BY <2>1, <1>3, <1>4 DEF Routed
  <2> QED BY <2>2, <2>3, <2>4, <2>5, <2>6 DEF Routed
<1>16. ASSUME NEW from \in ask2 \ ask PROVE Routed(M, m + 1, g, tak, from)
  <2>1. from[1] = Len(h) + 1 /\ Has(from)
    BY <1>16
  <2>2. \A k \in 1..m : ~Holds(g, M[k].conf.store, from)
    BY <1>2, <1>5, <1>8, <1>16
  <2>3. ~Used(tak, from)
    BY <2>1, <1>1, <1>3 DEF Told, Used
  <2>4. Passed(M, m + 1, g, tak, 1, from)
    <3>1. m + 1 \in 1..m + 1
      BY <1>2
    <3> QED BY <3>1, <2>1, <1>9 DEF Passed
  <2>5. \A k \in 1..m + 1 : Holds(g, M[k].conf.store, from) => M[k].conf.explicit
    BY <2>1, <2>2, <1>2, <1>16
  <2>6. \A k \in 2..m + 1 : k - 1 \in 1..m
    BY <1>2
  <2>7. from[1] \in 1..Len(g)
    BY <2>1, <1>3, <1>4
  <2> QED BY <2>2, <2>3, <2>4, <2>5, <2>6, <2>7 DEF Routed
<1>17. Told(g, tak)
  BY <1>1, <1>3, <1>4 DEF Told
<1> QED BY <1>6, <1>7, <1>15, <1>16, <1>17 DEF Accounted

(* A frame ends, and the stores have been settled. *)
LEMMA PopKeeps ==
    ASSUME NEW M, NEW m \in Nat \ {0}, NEW h, NEW ask, NEW tak, Accounted(M, m + 1, h, ask, tak),
           NEW L, \A k \in 1..m : L[k] = M[k],
           NEW g, Shrunk(g, h, M[m].conf.store),
           \A from \in ask : Used(tak, from) => ~Holds(g, M[m].conf.store, from),
           \A from \in ask : /\ ~Used(tak, from)
                             /\ Holds(h, M[m].conf.store, from) \/ Holds(h, M[m + 1].conf.store, from)
                             => Holds(g, M[m].conf.store, from)
    PROVE  Accounted(L, m, g, ask, tak)
<1> DEFINE s == M[m].conf.store
<1>1. /\ Stored(h, ask) /\ Chain(M, m + 1, h) /\ Told(h, tak)
      /\ \A from \in ask : Routed(M, m + 1, h, tak, from)
  BY DEF Accounted
<1>2. /\ m \in Nat \ {0} /\ m + 1 \in Nat \ {0} /\ m \in 1..m /\ 1 \in 1..m
      /\ \A k \in 1..m + 1 : k \in 1..m \/ k = m + 1
      /\ \A k \in 1..m : k \in 1..m + 1
      /\ \A k \in 2..m : k - 1 \in 1..m /\ k \in 1..m /\ k \in 2..m + 1
      /\ \A i \in 1..m : M[i].conf.store \in Nat /\ M[i].conf.store \in 1..Len(h)
  <2>1. m \in Nat \ {0}
    OBVIOUS
  <2>2. \A i \in 1..m + 1 : M[i].conf.store \in Nat /\ M[i].conf.store \in 1..Len(h)
    BY <1>1 DEF Chain, IsConf, Configurations
  <2> QED BY <2>1, <2>2
<1>3. Chain(L, m, h)
  <2>1. \A i, j \in 1..m : i <= j => L[i].conf.store <= L[j].conf.store
    BY <1>1, <1>2 DEF Chain
  <2>2. \A k \in 1..m : IsConf(h, L[k].conf)
    BY <1>1, <1>2 DEF Chain
  <2>3. \A k \in 2..m : Framed(h, L[k], L[k - 1])
    BY <1>1, <1>2 DEF Chain
  <2> QED BY <1>1, <1>2, <2>1, <2>2, <2>3 DEF Chain
<1>4. L[m].conf.store = s
  BY <1>2
<1>5. Stored(g, ask) /\ Chain(L, m, g) /\ Told(g, tak)
  <2>1. Stored(g, ask)
    BY <1>1, ShrunkStored
  <2>2. Chain(L, m, g)
    BY <1>3, <1>4, ShrunkChain
  <2>3. Told(g, tak)
    BY <1>1 DEF Told, Shrunk
  <2> QED BY <2>1, <2>2, <2>3
<1>6. \A t \in 1..Len(h) : \A from : Holds(g, t, from) => Holds(h, t, from)
  BY UsedHolds
<1>7. \A t \in 1..Len(h) : t < s => \A from : Holds(g, t, from) <=> Holds(h, t, from)
  BY DEF Shrunk, Holds
<1>8. ASSUME NEW from \in ask, NEW k \in 1..m
      PROVE  Passed(L, m, g, tak, k, from) <=> Passed(M, m + 1, h, tak, k, from)
  <2>1. /\ m \in k..m /\ m + 1 \in k..m + 1 /\ \A i \in k..m + 1 : i \in k..m \/ i = m + 1
        /\ \A i \in k..m : i \in 1..m /\ i \in k..m + 1
    BY <1>2
  <2>2. ASSUME NEW i \in k..m
        PROVE  /\ L[i].conf.store \in 1..Len(h) /\ L[i].conf.store <= s
               /\ M[i] = L[i] /\ L[i].conf.store \in Nat /\ s \in Nat
    <3>1. i \in 1..m /\ i <= m
      BY <2>1
    <3> QED BY <3>1, <1>2, <1>3, <1>4 DEF Chain
  <2>3. ASSUME Passed(L, m, g, tak, k, from) PROVE Passed(M, m + 1, h, tak, k, from)
    BY <2>1, <2>2, <2>3, <1>6 DEF Passed
  <2>4. ASSUME Passed(M, m + 1, h, tak, k, from), ~Used(tak, from) PROVE Passed(L, m, g, tak, k, from)
    <3>1. PICK i \in k..m + 1 : Holds(h, M[i].conf.store, from)
      BY <2>4 DEF Passed
    <3>2. CASE i = m + 1
      BY <3>1, <3>2, <2>1, <2>4, <1>4 DEF Passed
    <3>3. CASE i \in k..m /\ M[i].conf.store = s
      BY <3>1, <3>3, <2>1, <2>4, <1>4 DEF Passed
    <3>4. CASE i \in k..m /\ M[i].conf.store < s
      BY <3>1, <3>4, <2>2, <1>7 DEF Passed
    <3> QED BY <3>2, <3>3, <3>4, <2>1, <2>2
  <2> QED BY <2>3, <2>4 DEF Passed
<1>9. ASSUME NEW from \in ask PROVE Routed(L, m, g, tak, from)
  <2>1. Routed(M, m + 1, h, tak, from)
    BY <1>1
  <2>2. \A k \in 1..m : Holds(g, L[k].conf.store, from) => L[k].conf.explicit
    BY <2>1, <1>2, <1>6 DEF Routed
  <2>3. ASSUME NEW k \in 2..m, L[k].conf.store # L[k - 1].conf.store,
               Holds(g, L[k - 1].conf.store, from)
        PROVE  Linked(g, L[k], from) <=> Passed(L, m, g, tak, k, from)
    <3>1. /\ k \in 1..m /\ k - 1 \in 1..m /\ k \in 2..m + 1
          /\ M[k] = L[k] /\ M[k - 1] = L[k - 1] /\ Framed(h, L[k], L[k - 1])
      BY <1>2, <1>3 DEF Chain
    <3>2. Holds(h, L[k - 1].conf.store, from) /\ (Linked(g, L[k], from) <=> Linked(h, L[k], from))
      BY <3>1, <2>3, <1>3, <1>4, ShrunkPlace
    <3> QED BY <3>1, <3>2, <2>1, <2>3, <1>8 DEF Routed
  <2>4. Used(tak, from) => ~Holds(g, L[m].conf.store, from)
    BY <1>4
  <2>5. Passed(L, m, g, tak, 1, from)
    BY <2>1, <1>2, <1>8 DEF Routed
  <2>6. from[1] \in 1..Len(g)
    BY <2>1 DEF Routed, Shrunk
  <2> QED BY <2>2, <2>3, <2>4, <2>5, <2>6 DEF Routed
<1> QED BY <1>5, <1>9 DEF Accounted

LEMMA TopOf ==
    ASSUME NEW M, NEW m \in Nat \ {0}, NEW h, NEW ask, NEW tak, Accounted(M, m + 1, h, ask, tak)
    PROVE  /\ Sequence(h) /\ Framed(h, M[m + 1], M[m])
           /\ IsConf(h, M[m].conf) /\ IsConf(h, M[m + 1].conf)
           /\ M[m].conf.store \in 1..Len(h) /\ M[m + 1].conf.store \in 1..Len(h)
           /\ M[m].conf.store \in Nat /\ M[m + 1].conf.store \in Nat
           /\ \A i, j \in DOMAIN h[M[m].conf.store] :
                h[M[m].conf.store][i].from = h[M[m].conf.store][j].from => i = j
           /\ \A from \in ask :
                /\ Used(tak, from) => ~Holds(h, M[m + 1].conf.store, from)
                /\ Holds(h, M[m + 1].conf.store, from) => M[m + 1].conf.explicit
                /\ M[m + 1].conf.store # M[m].conf.store /\ Holds(h, M[m].conf.store, from) =>
                     (Linked(h, M[m + 1], from)
                        <=> Used(tak, from) \/ Holds(h, M[m + 1].conf.store, from))
<1>1. /\ Stored(h, ask) /\ Chain(M, m + 1, h)
      /\ \A from \in ask : Routed(M, m + 1, h, tak, from)
  BY DEF Accounted
<1>2. /\ m \in 1..m + 1 /\ m + 1 \in 1..m + 1 /\ m + 1 \in 2..m + 1 /\ (m + 1) - 1 = m
      /\ \A i : i \in m + 1..m + 1 <=> i = m + 1
  OBVIOUS
<1>3. /\ Sequence(h) /\ Framed(h, M[m + 1], M[m])
      /\ IsConf(h, M[m].conf) /\ IsConf(h, M[m + 1].conf)
  BY <1>1, <1>2 DEF Stored, Chain
<1>4. /\ M[m].conf.store \in 1..Len(h) /\ M[m + 1].conf.store \in 1..Len(h)
      /\ M[m].conf.store \in Nat /\ M[m + 1].conf.store \in Nat
  BY <1>3 DEF IsConf, Configurations
<1>5. ASSUME NEW from \in ask
      PROVE  /\ Used(tak, from) => ~Holds(h, M[m + 1].conf.store, from)
             /\ Holds(h, M[m + 1].conf.store, from) => M[m + 1].conf.explicit
             /\ M[m + 1].conf.store # M[m].conf.store /\ Holds(h, M[m].conf.store, from) =>
                  (Linked(h, M[m + 1], from)
                     <=> Used(tak, from) \/ Holds(h, M[m + 1].conf.store, from))
  <2>1. Routed(M, m + 1, h, tak, from)
    BY <1>1
  <2>2. Passed(M, m + 1, h, tak, m + 1, from)
          <=> Used(tak, from) \/ Holds(h, M[m + 1].conf.store, from)
    BY <1>2 DEF Passed
  <2> QED BY <2>1, <2>2, <1>2 DEF Routed
<1> QED BY <1>1, <1>3, <1>4, <1>5 DEF Stored

LEMMA ShrunkSelf ==
    ASSUME NEW h, Sequence(h), NEW low
    PROVE  Shrunk(h, h, low)
BY DEF Shrunk

(* A file that was imported ends, or a module loaded without a with clause. *)
LEMMA PopQuietly ==
    ASSUME NEW M, NEW m \in Nat \ {0}, NEW h, NEW ask, NEW tak, Accounted(M, m + 1, h, ask, tak),
           NEW L, \A k \in 1..m : L[k] = M[k],
           M[m + 1].by # "load" \/ M[m + 1].load = NoLoad
    PROVE  Accounted(L, m, h, ask, tak)
<1>1. M[m + 1].load = NoLoad => M[m + 1].load.adjusted = NoConfiguration /\ M[m + 1].load.given = NoConfiguration
  BY DEF NoLoad
<1>2. \/ M[m + 1].conf.store = M[m].conf.store
      \/ ~M[m + 1].conf.explicit /\ M[m + 1].load.adjusted = NoConfiguration
  <2>1. Framed(h, M[m + 1], M[m]) /\ IsConf(h, M[m + 1].conf)
    BY TopOf
  <2>2. ASSUME Lent(h, M[m + 1], M[m]) PROVE M[m + 1].load # NoLoad
    <3>1. M[m + 1].load.given = M[m + 1].conf
      BY <2>2 DEF Lent
    <3>2. M[m + 1].conf # NoConfiguration
      BY <2>1, ConfIs
    <3> QED BY <3>1, <3>2, <1>1
  <2> QED BY <2>1, <2>2, <1>1 DEF Framed
<1>3. ASSUME NEW from \in ask, Used(tak, from), Holds(h, M[m].conf.store, from) PROVE FALSE
  <2>1. CASE M[m + 1].conf.store = M[m].conf.store
    BY <2>1, <1>3, TopOf
  <2>2. CASE M[m + 1].conf.store # M[m].conf.store
    <3>1. Linked(h, M[m + 1], from)
      BY <2>2, <1>3, TopOf
    <3> QED BY <2>2, <3>1, <1>2 DEF Linked
  <2> QED BY <2>1, <2>2
<1>4. ASSUME NEW from \in ask, Holds(h, M[m + 1].conf.store, from)
      PROVE  Holds(h, M[m].conf.store, from)
  BY <1>2, <1>4, TopOf
<1>5. Shrunk(h, h, M[m].conf.store)
  BY TopOf, ShrunkSelf
<1> QED BY <1>3, <1>4, <1>5, PopKeeps

(* A module loaded with a configuration of its own ends. *)
LEMMA PopSettled ==
    ASSUME NEW M, NEW m \in Nat \ {0}, NEW h, NEW ask, NEW tak, Accounted(M, m + 1, h, ask, tak),
           NEW L, \A k \in 1..m : L[k] = M[k],
           Lent(h, M[m + 1], M[m]), M[m + 1].load.adjusted # NoConfiguration,
           LET l == M[m + 1].load
               g == SettleForward(h, l.adjusted, l.given, M[m + 1].stmt.with)
           IN  l.given.explicit => IsEmpty(g, l.given)
    PROVE  Accounted(L, m,
              SettleForward(h, M[m + 1].load.adjusted, M[m + 1].load.given, M[m + 1].stmt.with), ask, tak)
<1> DEFINE a  == M[m + 1].load.adjusted
           c  == M[m + 1].load.given
           w  == M[m + 1].stmt.with
           s  == M[m].conf.store
           t  == M[m + 1].conf.store
           U  == (Visible(h, a) \ Visible(h, c)) \ (DOMAIN w \ Guarded(w))
           h1 == RemoveNames(h, a, U)
           D  == Visible(h1, c) \ DOMAIN w
           g  == RemoveNames(h1, c, D)
<1>1. g = SettleForward(h, a, c, w)
  BY DEF SettleForward
<1>2. /\ c = M[m + 1].conf /\ IsConf(h, c) /\ c.store = t
      /\ s \in 1..Len(h) /\ t \in 1..Len(h) /\ s \in Nat /\ t \in Nat /\ s < t
      /\ Sequence(h)
  BY TopOf DEF Lent
<1>3. IsConf(h, a) /\ a.store = s
  BY DEF Lent, Copied
<1>4. Without(h1, h, s, Keys(a, U))
  BY <1>2, <1>3, RemoveIs
<1> HIDE DEF h1
<1>5. Sequence(h1) /\ Len(h1) = Len(h) /\ IsConf(h1, c)
  BY <1>2, <1>4 DEF Without, IsConf
<1>6. Without(g, h1, t, Keys(c, D))
  BY <1>2, <1>5, RemoveIs
<1> HIDE DEF g
<1>7. g[s] = h1[s] /\ h1[t] = h[t]
  BY <1>2, <1>4, <1>5, <1>6 DEF Without
<1>8. Shrunk(g, h, s)
  <2>1. Shrunk(h1, h, s)
    BY <1>2, <1>4, WithoutShrunk
  <2>2. Shrunk(g, h1, s)
    BY <1>2, <1>5, <1>6, WithoutShrunk
  <2> QED BY <2>1, <2>2, ShrunkTwice
<1>9. /\ \A n \in DOMAIN h[t] : n \in DOMAIN c.sees /\ c.sees[n] = n
      /\ Visible(h, c) = DOMAIN h[t] /\ Visible(h1, c) = DOMAIN h[t]
  BY <1>2, <1>7 DEF Lent, Visible
<1>10. ASSUME NEW n \in Visible(h, a), n \notin Hiding(w), n \in DOMAIN h[t]
       PROVE  h[t][n] = Value(h, a, n)
  BY <1>10 DEF Lent, Copied
<1>11. \A n \in DOMAIN h[t] \ DOMAIN w : n \in Visible(h, a)
  BY DEF Lent, Copied
<1>12. \A n \in Visible(h, a) : n \in DOMAIN a.sees /\ a.sees[n] \in DOMAIN h[s] /\ Value(h, a, n) = h[s][a.sees[n]]
  BY <1>3 DEF Visible, Value
<1>13. \A i, j \in DOMAIN a.sees : a.sees[i] = a.sees[j] => i = j
  BY <1>3 DEF IsConf, IsInjective
<1>14. \A i, j \in DOMAIN h[s] : h[s][i].from = h[s][j].from => i = j
  BY TopOf
<1>15. \A n : n \in U <=> n \in Visible(h, a) /\ n \notin Visible(h, c) /\ n \notin Hiding(w)
  BY DEF Hiding
<1>16. \A key : key \in Keys(a, U) <=> \E n \in U : n \in DOMAIN a.sees /\ key = a.sees[n]
  BY DEF Keys
<1>17. \A from : Linked(h, M[m + 1], from)
          <=> \E n \in Visible(h, a) : n \notin Hiding(w) /\ Value(h, a, n).from = from
  BY DEF Linked
<1>18. \A from \in ask :
          /\ Used(tak, from) => ~Holds(h, t, from)
          /\ Holds(h, t, from) => c.explicit
          /\ Holds(h, s, from) => (Linked(h, M[m + 1], from) <=> Used(tak, from) \/ Holds(h, t, from))
  BY <1>2, TopOf
<1>19. c.explicit => Visible(g, c) = {}
  BY <1>1 DEF IsEmpty
<1> HIDE DEF U, a, c, w, s, t
<1>20. ASSUME NEW from \in ask, Used(tak, from), Holds(g, s, from) PROVE FALSE
  <2>1. PICK key \in DOMAIN h[s] : h[s][key].from = from /\ key \notin Keys(a, U)
    <3>1. PICK key \in DOMAIN h1[s] : h1[s][key].from = from
      BY <1>7, <1>20 DEF Holds
    <3> QED BY <3>1, <1>4 DEF Without
  <2>2. Linked(h, M[m + 1], from) /\ ~Holds(h, t, from)
    BY <2>1, <1>18, <1>20 DEF Holds
  <2>3. PICK n \in Visible(h, a) : n \notin Hiding(w) /\ Value(h, a, n).from = from
    BY <2>2, <1>17
  <2>4. a.sees[n] = key
    BY <2>1, <2>3, <1>12, <1>14
  <2>5. n \notin DOMAIN h[t]
    BY <2>2, <2>3, <1>10 DEF Holds
  <2> QED BY <2>1, <2>3, <2>4, <2>5, <1>9, <1>12, <1>15, <1>16
<1>21. ASSUME NEW from \in ask, Holds(h, t, from) PROVE Holds(g, s, from)
  <2>1. PICK n \in DOMAIN h[t] : h[t][n].from = from
    BY <1>21 DEF Holds
  <2>2. n \notin DOMAIN w
    <3> SUFFICES ASSUME n \in DOMAIN w PROVE FALSE
      OBVIOUS
    <3>1. n \notin Keys(c, D)
      <4>1. \A i \in D : c.sees[i] = i /\ i \notin DOMAIN w
        BY <1>9
      <4> QED BY <4>1 DEF Keys
    <3>2. n \in DOMAIN g[t]
      BY <3>1, <2>1, <1>6, <1>7 DEF Without
    <3>3. n \in Visible(g, c)
      BY <3>2, <2>1, <1>2, <1>9 DEF Visible
    <3> QED BY <3>3, <1>18, <1>19, <1>21
  <2>3. n \in Visible(h, a) /\ n \notin Hiding(w) /\ n \in Visible(h, c)
    BY <2>1, <2>2, <1>9, <1>11 DEF Hiding
  <2>4. Value(h, a, n).from = from
    BY <2>1, <2>3, <1>10
  <2>5. a.sees[n] \notin Keys(a, U)
    BY <2>3, <1>12, <1>13, <1>15, <1>16
  <2>6. a.sees[n] \in DOMAIN h1[s] /\ h1[s][a.sees[n]].from = from
    BY <2>3, <2>4, <2>5, <1>4, <1>12 DEF Without
  <2> QED BY <2>6, <1>7 DEF Holds
<1>22. ASSUME NEW from \in ask, ~Used(tak, from), ~Holds(h, t, from), Holds(h, s, from)
       PROVE  Holds(g, s, from)
  <2>1. PICK key \in DOMAIN h[s] : h[s][key].from = from
    BY <1>22 DEF Holds
  <2>2. ~Linked(h, M[m + 1], from)
    BY <1>18, <1>22
  <2>3. key \notin Keys(a, U)
    BY <2>1, <2>2, <1>12, <1>15, <1>16, <1>17
  <2>4. key \in DOMAIN h1[s] /\ h1[s][key].from = from
    BY <2>1, <2>3, <1>4 DEF Without
  <2> QED BY <2>4, <1>7 DEF Holds
<1>23. Accounted(L, m, g, ask, tak)
  <2>1. \A from \in ask : Used(tak, from) => ~Holds(g, M[m].conf.store, from)
    BY <1>20 DEF s
  <2>2. \A from \in ask : /\ ~Used(tak, from)
                          /\ Holds(h, M[m].conf.store, from) \/ Holds(h, M[m + 1].conf.store, from)
                          => Holds(g, M[m].conf.store, from)
    BY <1>21, <1>22 DEF s, t
  <2>3. Shrunk(g, h, M[m].conf.store)
    BY <1>8 DEF s
  <2> QED BY <2>1, <2>2, <2>3, PopKeeps
<1> QED BY <1>1, <1>23 DEF a, c, w

(* Whatever the statement that loaded it. *)
LEMMA PopLoaded ==
    ASSUME NEW M, NEW m \in Nat \ {0}, NEW h, NEW ask, NEW tak, Accounted(M, m + 1, h, ask, tak),
           NEW L, \A k \in 1..m : L[k] = M[k],
           M[m + 1].by = "load", NEW g,
           LET l == M[m + 1].load
               s == M[m + 1].stmt
           IN  /\ g = IF s.op = "forward" /\ l.given # NoConfiguration
                      THEN SettleForward(h, l.adjusted, l.given, s.with) ELSE h
               /\ ~(l.given # NoConfiguration /\ l.given.explicit /\ ~IsEmpty(g, l.given))
    PROVE  Accounted(L, m, g, ask, tak)
<1> DEFINE l == M[m + 1].load
           s == M[m + 1].stmt
           c == M[m + 1].conf
<1>1. Framed(h, M[m + 1], M[m]) /\ IsConf(h, c)
  BY TopOf
<1>2. CASE l = NoLoad
  <2>1. g = h
    BY <1>2 DEF NoLoad
  <2> QED BY <2>1, <1>2, PopQuietly
<1>3. CASE Lent(h, M[m + 1], M[m])
  <2>1. l.given = c /\ c # NoConfiguration
    BY <1>1, <1>3, ConfIs DEF Lent
  <2>2. CASE l.adjusted # NoConfiguration
    <3>1. s.op = "forward"
      BY <1>3, <2>2 DEF Lent
    <3> QED BY <3>1, <2>1, <2>2, <1>3, PopSettled
  <2>3. CASE l.adjusted = NoConfiguration
    <3>1. g = h /\ c.explicit
      BY <1>3, <2>3 DEF Lent
    <3>2. Visible(h, c) = {}
      BY <3>1, <2>1 DEF IsEmpty
    <3>3. DOMAIN h[c.store] = {}
      BY <3>2, <1>3 DEF Lent, Visible
    <3>4. \A from : ~Holds(h, c.store, from)
      BY <3>3 DEF Holds
    <3>5. \A from : ~Linked(h, M[m + 1], from)
      BY <2>3 DEF Linked
    <3>6. M[m + 1].conf.store # M[m].conf.store
      BY <1>3, TopOf DEF Lent
    <3>7. \A from \in ask : Used(tak, from) => ~Holds(h, M[m].conf.store, from)
      BY <3>5, <3>6, TopOf
    <3>8. Shrunk(h, h, M[m].conf.store)
      BY TopOf, ShrunkSelf
    <3> QED BY <3>1, <3>4, <3>7, <3>8, PopKeeps
  <2> QED BY <2>2, <2>3
<1> QED BY <1>1, <1>2, <1>3 DEF Framed

PlaceOf(by, conf, load, stmt) == [by |-> by, conf |-> conf, load |-> load, stmt |-> stmt]
Begun(L, m, h, ask, tak, e, g) ==
    /\ \A M : (\A k \in 1..m : M[k] = L[k]) /\ M[m + 1] = e =>
              Accounted(M, m + 1, g, ask \cup Asks(g, e.load.given), tak)
    /\ \A from \in Asks(g, e.load.given) : ~Used(tak, from)

LEMMA PlaceIs ==
    ASSUME NEW by, NEW conf, NEW load, NEW stmt
    PROVE  /\ PlaceOf(by, conf, load, stmt).by = by /\ PlaceOf(by, conf, load, stmt).conf = conf
           /\ PlaceOf(by, conf, load, stmt).load = load /\ PlaceOf(by, conf, load, stmt).stmt = stmt
BY DEF PlaceOf

LEMMA TopPlace ==
    ASSUME NEW L, NEW m, NEW h, NEW ask, NEW tak, Accounted(L, m, h, ask, tak)
    PROVE  /\ m \in Nat \ {0} /\ m \in 1..m /\ Sequence(h) /\ Len(h) \in Nat
           /\ IsConf(h, L[m].conf) /\ L[m].conf.store \in 1..Len(h)
           /\ \A s \in 1..Len(h) : DOMAIN h[s] \subseteq Names
           /\ \A n \in DOMAIN h[L[m].conf.store] :
                /\ h[L[m].conf.store][n].from[1] \in 0..Len(h)
                /\ h[L[m].conf.store][n].from \in ask => h[L[m].conf.store][n].val # Null
           /\ \A i, j \in DOMAIN h[L[m].conf.store] :
                h[L[m].conf.store][i].from = h[L[m].conf.store][j].from => i = j
           /\ \A from \in ask :
                /\ from[1] \in 1..Len(h)
                /\ Holds(h, L[m].conf.store, from) => L[m].conf.explicit
           /\ \A from : Used(tak, from) => from[1] \in 0..Len(h)
<1>1. /\ Stored(h, ask) /\ Chain(L, m, h) /\ Told(h, tak)
      /\ \A from \in ask : Routed(L, m, h, tak, from)
  BY DEF Accounted
<1>2. m \in Nat \ {0} /\ m \in 1..m /\ Sequence(h) /\ Len(h) \in Nat
  BY <1>1 DEF Stored, Chain, Sequence
<1>3. IsConf(h, L[m].conf) /\ L[m].conf.store \in 1..Len(h)
  BY <1>1, <1>2 DEF Chain, IsConf
<1>4. \A n \in DOMAIN h[L[m].conf.store] :
          /\ h[L[m].conf.store][n].from[1] \in 0..Len(h)
          /\ h[L[m].conf.store][n].from \in ask => h[L[m].conf.store][n].val # Null
  <2>1. \A n \in DOMAIN h[L[m].conf.store] :
          /\ h[L[m].conf.store][n].from[1] \in 0..L[m].conf.store
          /\ h[L[m].conf.store][n].from \in ask => h[L[m].conf.store][n].val # Null
    BY <1>1, <1>3 DEF Stored
  <2> QED BY <2>1, <1>2, <1>3
<1>5. \A from \in ask : /\ from[1] \in 1..Len(h)
                        /\ Holds(h, L[m].conf.store, from) => L[m].conf.explicit
  BY <1>1, <1>2 DEF Routed
<1>6. \A from : Used(tak, from) => from[1] \in 0..Len(h)
  BY <1>1 DEF Told, Used
<1> QED BY <1>1, <1>2, <1>3, <1>4, <1>5, <1>6 DEF Stored

(* A module is loaded without a with clause. *)
LEMMA BeginPlain ==
    ASSUME NEW L, NEW m, NEW h, NEW ask, NEW tak, Accounted(L, m, h, ask, tak),
           NEW c, IsConf(h, c), c.store = L[m].conf.store, c.explicit = L[m].conf.explicit, NEW s
    PROVE  Begun(L, m, h, ask, tak, PlaceOf("load", c, NoLoad, s), h)
<1> DEFINE e == PlaceOf("load", c, NoLoad, s)
<1>1. /\ e.by = "load" /\ e.conf = c /\ e.load = NoLoad
  BY PlaceIs
<1>2. Framed(h, e, L[m])
  BY <1>1 DEF Framed
<1>3. Asks(h, e.load.given) = {}
  BY <1>1 DEF Asks, NoLoad
<1> HIDE DEF e
<1>4. ASSUME NEW M, \A k \in 1..m : M[k] = L[k], M[m + 1] = e
      PROVE  Accounted(M, m + 1, h, ask, tak)
  BY <1>1, <1>2, <1>4, PushSame
<1>5. ask \cup {} = ask
  OBVIOUS
<1> QED BY <1>3, <1>4, <1>5 DEF Begun, e

(* @use or load-css with a with clause. *)
LEMMA BeginWith ==
    ASSUME NEW L, NEW m, NEW h, NEW ask, NEW tak, Accounted(L, m, h, ask, tak),
           NEW with, DOMAIN with \subseteq Names, NEW s, s.op # "forward"
    PROVE  LET v == WithValues(h, with)
               c == NewConfiguration(h, v, TRUE)
           IN  Begun(L, m, h, ask, tak, PlaceOf("load", c, [NoLoad EXCEPT !.given = c], s), Append(h, v))
<1> DEFINE v == WithValues(h, with)
           c == NewConfiguration(h, v, TRUE)
           l == [NoLoad EXCEPT !.given = c]
           e == PlaceOf("load", c, l, s)
           g == Append(h, v)
           ask2 == ask \cup Asks(g, c)
           N == Len(h) + 1
<1>1. DOMAIN v = DOMAIN with /\ \A n \in DOMAIN v : v[n].from = <<N, n>>
  BY DEF WithValues
<1> HIDE DEF v
<1>2. Sequence(h) /\ Len(h) \in Nat /\ L[m].conf.store \in 1..Len(h)
  BY TopPlace
<1>3. /\ IsConf(g, c) /\ c.store = N /\ c.explicit
      /\ DOMAIN c.sees = DOMAIN v /\ \A n \in DOMAIN v : c.sees[n] = n
  BY <1>1, <1>2, NewIs
<1> HIDE DEF c
<1>4. l.given = c /\ l.adjusted = NoConfiguration
  BY DEF NoLoad
<1> HIDE DEF l
<1>5. /\ e.by = "load" /\ e.conf = c /\ e.load = l /\ e.stmt = s
  BY PlaceIs
<1> HIDE DEF e
<1>6. g[N] = v
  BY <1>2, AppendIs
<1> HIDE DEF g
<1>7. \A from : from \in Asks(g, c) <=> \E n \in DOMAIN v : from = v[n].from /\ v[n].val # Null
  <2>1. c # NoConfiguration
    BY <1>3, ConfIs
  <2>2. Asks(g, c) = {u.from : u \in {u \in Range(v) : u.val # Null /\ u.from[1] = N}}
    BY <2>1, <1>3, <1>6 DEF Asks
  <2>3. \A n \in DOMAIN v : v[n].from[1] = N
    BY <1>1
  <2> QED BY <2>2, <2>3 DEF Range
<1>8. \A from \in ask : from[1] # N
  BY <1>2, TopPlace
<1>9. \A n \in DOMAIN v : v[n].from[1] = N /\ v[n].from \notin ask
  BY <1>1, <1>8
<1>10. \A i, j \in DOMAIN v : v[i].from = v[j].from => i = j
  BY <1>1
<1>11. Lent(g, e, L[m])
  BY <1>2, <1>3, <1>4, <1>5, <1>6 DEF Lent
<1>12. Framed(g, e, L[m])
  BY <1>5, <1>11 DEF Framed
<1>13. \A from : ~Linked(g, e, from)
  BY <1>4, <1>5 DEF Linked
<1>14. ASSUME NEW n \in DOMAIN v, v[n].from \in ask2 PROVE v[n].val # Null
  BY <1>7, <1>9, <1>10, <1>14
<1>15. ASSUME NEW M, \A k \in 1..m : M[k] = L[k], M[m + 1] = e
       PROVE  Accounted(M, m + 1, g, ask2, tak)
  <2>1. Shrunk(h, h, L[m].conf.store)
    BY <1>2, ShrunkSelf
  <2>2. \A n \in DOMAIN v : v[n].from[1] \in 0..Len(h) + 1
    BY <1>2, <1>9
  <2>3. \A from \in ask2 \ ask : from[1] = Len(h) + 1 /\ \E n \in DOMAIN v : v[n].from = from
    BY <1>7, <1>9
  <2>4. ask \subseteq ask2
    OBVIOUS
  <2>5. M[m + 1].conf.store = Len(h) + 1 /\ M[m + 1].conf.explicit /\ IsConf(g, M[m + 1].conf)
        /\ Framed(g, M[m + 1], L[m]) /\ \A from : ~Linked(g, M[m + 1], from)
    BY <1>3, <1>5, <1>12, <1>13, <1>15
  <2>6. DOMAIN v \subseteq Names
    BY <1>1
  <2> HIDE DEF ask2, N
  <2>7. \A n \in DOMAIN v : /\ v[n].from \in ask2 => v[n].val # Null
                             /\ v[n].from \notin ask
    BY <1>9, <1>14
  <2>8. \A from \in ask : ~\E n \in DOMAIN v : v[n].from = from
    BY <1>9
  <2>9. /\ IsConf(Append(h, v), M[m + 1].conf) /\ Framed(Append(h, v), M[m + 1], L[m])
        /\ \A from : ~Linked(Append(h, v), M[m + 1], from)
    BY <2>5 DEF g
  <2>10. \A n \in DOMAIN v : v[n].from[1] \in 0..Len(h) + 1 /\ (v[n].from \in ask2 => v[n].val # Null)
    BY <2>2, <2>7
  <2>11. \A n \in DOMAIN v : v[n].from \in ask2 => M[m + 1].conf.explicit
    BY <2>5
  <2>12. \A n \in DOMAIN v : v[n].from \in ask => Holds(h, L[m].conf.store, v[n].from)
    <3>1. \A n \in DOMAIN v : v[n].from \notin ask
      BY <1>9
    <3> QED BY <3>1
  <2>13. \A from \in ask : Holds(h, L[m].conf.store, from) =>
            Holds(h, L[m].conf.store, from) \/ \E n \in DOMAIN v : v[n].from = from
    OBVIOUS
  <2>14. \A from \in ask : Holds(h, L[m].conf.store, from) =>
            (Linked(Append(h, v), M[m + 1], from) <=> \E n \in DOMAIN v : v[n].from = from)
    BY <2>8, <2>9
  <2>15. M[m + 1].conf.store = Len(h) + 1
    BY <2>5
  <2>16. \A k \in 1..m : M[k] = L[k]
    BY <1>15
  <2>17. Accounted(M, m + 1, Append(h, v), ask2, tak)
    BY <2>1, <2>3, <2>4, <2>6, <2>9, <2>10, <2>11, <2>12, <2>13, <2>14, <2>15, <2>16, <1>10, PushNew
  <2> QED BY <2>17 DEF g
<1>16. ASSUME NEW from \in Asks(g, c) PROVE ~Used(tak, from)
  <2>1. from[1] = N
    BY <1>7, <1>9, <1>16
  <2> QED BY <2>1, <1>2, TopPlace
<1>17. Begun(L, m, h, ask, tak, e, g)
  BY <1>4, <1>5, <1>15, <1>16 DEF Begun
<1> QED BY <1>17 DEF e, l, c, v, g

(* @import of a file that forwards: all it gets by its configuration is     *)
(* values nobody has asked for.                                             *)
LEMMA BeginImport ==
    ASSUME NEW L, NEW m, NEW h, NEW ask, NEW tak, Accounted(L, m, h, ask, tak),
           NEW v, DOMAIN v \subseteq Names, \A n \in DOMAIN v : v[n].from = <<0, n>>,
           NEW M, \A k \in 1..m : M[k] = L[k], M[m + 1].by = "import", M[m + 1].load = NoLoad,
           M[m + 1].conf = NewConfiguration(h, v, FALSE)
    PROVE  Accounted(M, m + 1, Append(h, v), ask, tak)
<1> DEFINE c == NewConfiguration(h, v, FALSE)
           g == Append(h, v)
<1>1. Sequence(h) /\ Len(h) \in Nat /\ L[m].conf.store \in 1..Len(h)
  BY TopPlace
<1>2. /\ IsConf(g, c) /\ c.store = Len(h) + 1 /\ ~c.explicit
  BY <1>1, NewIs
<1> HIDE DEF c, g
<1>3. M[m + 1].conf = c
  BY DEF c
<1>4. Framed(g, M[m + 1], L[m])
  <2>1. Len(h) + 1 > L[m].conf.store
    BY <1>1
  <2>2. M[m + 1].conf.store > L[m].conf.store /\ ~M[m + 1].conf.explicit
    BY <2>1, <1>2, <1>3
  <2> QED BY <2>2 DEF Framed
<1>5. \A n \in DOMAIN v : v[n].from[1] = 0 /\ v[n].from \notin ask
  BY <1>1, TopPlace
<1>6. \A i, j \in DOMAIN v : v[i].from = v[j].from => i = j
  OBVIOUS
<1>7. \A from : ~Linked(g, M[m + 1], from)
  BY DEF Linked, NoLoad
<1>8. Shrunk(h, h, L[m].conf.store)
  BY <1>1, ShrunkSelf
<1>9. \A n \in DOMAIN v : v[n].from[1] \in 0..Len(h) + 1
  BY <1>1, <1>5
<1>10. \A from \in ask \ ask : FALSE
  OBVIOUS
<1>11. \A from \in ask : ~\E n \in DOMAIN v : v[n].from = from
  BY <1>5
<1>12. IsConf(Append(h, v), M[m + 1].conf) /\ Framed(Append(h, v), M[m + 1], L[m])
       /\ M[m + 1].conf.store = Len(h) + 1 /\ \A from : ~Linked(Append(h, v), M[m + 1], from)
  BY <1>2, <1>3, <1>4, <1>7 DEF g
<1> QED BY <1>5, <1>6, <1>8, <1>9, <1>10, <1>11, <1>12, PushNew


(* @forward with a with clause. *)
LEMMA BeginForward ==
    ASSUME NEW L, NEW m, NEW h, NEW ask, NEW tak, Accounted(L, m, h, ask, tak),
           NEW a, IsConf(h, a), a.store = L[m].conf.store, a.explicit = L[m].conf.explicit,
           NEW with, DOMAIN with \subseteq Names, NEW s, s.op = "forward", s.with = with
    PROVE  LET added == AddForwardConfiguration(h, a, with)
           IN  Begun(L, m, h, ask, tak,
                     PlaceOf("load", added.given, [given |-> added.given, adjusted |-> a], s), added.heap)
<1> DEFINE added == AddForwardConfiguration(h, a, with)
           c == added.given
           g == added.heap
           v == g[Len(h) + 1]
           l == [given |-> c, adjusted |-> a]
           e == PlaceOf("load", c, l, s)
           t == L[m].conf.store
           N == Len(h) + 1
           G == Guarded(with)
           ask2 == ask \cup Asks(g, c)
<1>1. /\ m \in Nat \ {0} /\ m \in 1..m /\ Sequence(h) /\ Len(h) \in Nat /\ N \in Nat
      /\ t \in 1..Len(h) /\ t \in Nat /\ t < N /\ a.store = t
      /\ \A from \in ask : from[1] \in 1..Len(h)
      /\ \A from : Used(tak, from) => from[1] \in 0..Len(h)
  BY TopPlace
<1>2. /\ \A n \in DOMAIN h[t] : /\ h[t][n].from[1] \in 0..Len(h)
                                /\ h[t][n].from \in ask => h[t][n].val # Null
      /\ \A i, j \in DOMAIN h[t] : h[t][i].from = h[t][j].from => i = j
      /\ \A from \in ask : Holds(h, t, from) => a.explicit
  BY TopPlace
<1>3. PICK h1 :
        /\ Without(h1, h, a.store, Keys(a, G))
        /\ g = Append(h1, v)
        /\ DOMAIN v = DOMAIN with \cup Visible(h, a)
        /\ \A n \in DOMAIN v :
             v[n] = IF n \in G \cap Visible(h, a) /\ Value(h, a, n).val # Null
                    THEN Value(h, a, n)
                    ELSE IF n \in DOMAIN with
                    THEN [val |-> with[n].val, from |-> <<Len(h) + 1, n>>]
                    ELSE Value(h, a, n)
        /\ c = NewConfiguration(h1, v, a.explicit \/ IsEmpty(h1, a))
  <2>1. \A i \in 1..Len(h) : DOMAIN h[i] \subseteq Names
    BY TopPlace
  <2>2. Sequence(h)
    BY <1>1
  <2> HIDE DEF N, t, G
  <2> QED BY ONLY <2>1, <2>2, IsConf(h, a), DOMAIN with \subseteq Names, AddForwardIs DEF added, c, g, v, G
<1> HIDE DEF added
<1>4. G \subseteq DOMAIN with
  BY DEF Guarded
<1>5. /\ \A n \in Visible(h, a) : /\ n \in DOMAIN a.sees /\ a.sees[n] \in DOMAIN h[t]
                                  /\ Value(h, a, n) = h[t][a.sees[n]]
      /\ \A n \in DOMAIN a.sees : a.sees[n] \in DOMAIN h[t] => n \in Visible(h, a)
      /\ DOMAIN a.sees \subseteq Names
      /\ \A i, j \in DOMAIN a.sees : a.sees[i] = a.sees[j] => i = j
      /\ a.explicit \in BOOLEAN /\ a # NoConfiguration
  <2>1. a.explicit \in BOOLEAN /\ DOMAIN a.sees \subseteq Names /\ a # NoConfiguration
    BY ConfIs DEF IsConf, Configurations
  <2> QED BY <2>1, <1>1 DEF IsConf, Visible, Value, IsInjective
<1> HIDE DEF v, g, c, N, t, G
<1> DEFINE Kept(n) == n \in G /\ n \in Visible(h, a) /\ Value(h, a, n).val # Null
           Old(n)  == n \in Visible(h, a) /\ v[n] = Value(h, a, n)
<1>6. ASSUME NEW n \in DOMAIN v
      PROVE  /\ Kept(n) => Old(n)
             /\ ~Kept(n) /\ n \in DOMAIN with => v[n].from = <<N, n>>
             /\ n \notin DOMAIN with => Old(n)
  <2>1. v[n] = IF Kept(n) THEN Value(h, a, n)
               ELSE IF n \in DOMAIN with THEN [val |-> with[n].val, from |-> <<N, n>>]
               ELSE Value(h, a, n)
    BY <1>3, <1>6 DEF N
  <2>2. n \in DOMAIN with \/ n \in Visible(h, a)
    BY <1>3, <1>6
  <2> QED BY <2>1, <2>2
<1>7. \A n \in DOMAIN v : Old(n) \/ v[n].from = <<N, n>>
  BY <1>6
<1>8. /\ Sequence(h1) /\ Len(h1) = Len(h) /\ Shrunk(h1, h, t)
      /\ DOMAIN h1[t] = DOMAIN h[t] \ Keys(a, G)
      /\ \A n \in DOMAIN h1[t] : h1[t][n] = h[t][n]
  <2>1. Without(h1, h, t, Keys(a, G))
    BY <1>1, <1>3
  <2>2. Shrunk(h1, h, t)
    BY <1>1, <2>1, WithoutShrunk
  <2> QED BY <2>1, <2>2 DEF Without
<1>9. \A n \in DOMAIN a.sees : a.sees[n] \in Keys(a, G) <=> n \in G
  BY <1>5 DEF Keys
<1>10. \A key \in Keys(a, G) : \E n \in G : n \in DOMAIN a.sees /\ key = a.sees[n]
  BY DEF Keys
<1>11. \A n \in DOMAIN v : Old(n) => /\ v[n].from[1] \in 0..Len(h) /\ Holds(h, t, v[n].from)
                                     /\ v[n].from \in ask => v[n].val # Null
  BY <1>2, <1>5 DEF Holds
<1>12. \A n \in DOMAIN v : v[n].from = <<N, n>> => v[n].from[1] = N /\ v[n].from \notin ask
  BY <1>1 DEF N
<1>13. \A n \in DOMAIN v : v[n].from \in ask => Old(n)
  BY <1>7, <1>12
<1>14. ASSUME NEW i \in DOMAIN v, NEW j \in DOMAIN v, v[i].from = v[j].from
       PROVE  i = j
  <2>1. CASE Old(i) /\ Old(j)
    <3>1. a.sees[i] = a.sees[j]
      BY <2>1, <1>2, <1>5, <1>14
    <3> QED BY <2>1, <3>1, <1>5
  <2>2. CASE v[i].from = <<N, i>> /\ v[j].from = <<N, j>>
    BY <2>2, <1>14
  <2>3. CASE Old(i) /\ v[j].from = <<N, j>>
    BY <2>3, <1>1, <1>11, <1>12, <1>14 DEF N
  <2>4. CASE Old(j) /\ v[i].from = <<N, i>>
    BY <2>4, <1>1, <1>11, <1>12, <1>14 DEF N
  <2> QED BY <2>1, <2>2, <2>3, <2>4, <1>7
<1>15. DOMAIN v \subseteq Names
  BY <1>3, <1>5
<1>16. /\ IsConf(g, c) /\ c.store = N /\ (a.explicit => c.explicit)
       /\ DOMAIN c.sees = DOMAIN v /\ \A n \in DOMAIN v : c.sees[n] = n
  <2>1. (a.explicit \/ IsEmpty(h1, a)) \in BOOLEAN
    BY <1>5 DEF IsEmpty
  <2>2. PICK x \in BOOLEAN : x = (a.explicit \/ IsEmpty(h1, a))
    BY <2>1
  <2>3. c = NewConfiguration(h1, v, x) /\ g = Append(h1, v)
    BY <2>2, <1>3
  <2>4. /\ IsConf(g, c) /\ c.store = Len(h1) + 1 /\ c.explicit = x
        /\ DOMAIN c.sees = DOMAIN v /\ \A n \in DOMAIN v : c.sees[n] = n
    BY <2>3, <1>8, <1>15, NewIs
  <2> QED BY <2>2, <2>4, <1>8 DEF N
<1>17. g[N] = v /\ g[t] = h1[t] /\ Len(g) = Len(h) + 1
  <2>1. Sequence(h1) /\ Len(h1) = Len(h) /\ g = Append(h1, v)
    BY <1>3, <1>8
  <2>2. /\ Len(g) = Len(h1) + 1 /\ g[Len(h1) + 1] = v
        /\ \A k \in 1..Len(h1) : g[k] = h1[k]
    BY <2>1, AppendIs
  <2> QED BY <2>1, <2>2, <1>1 DEF N
<1>18. \A from : from \in Asks(g, c) <=>
          c.explicit /\ \E n \in DOMAIN v : from = v[n].from /\ v[n].val # Null /\ v[n].from[1] = N
  <2>1. c # NoConfiguration
    BY <1>16, ConfIs
  <2>2. c.explicit => Asks(g, c) = {u.from : u \in {u \in Range(v) : u.val # Null /\ u.from[1] = N}}
    BY <2>1, <1>16, <1>17 DEF Asks
  <2>3. ~c.explicit => Asks(g, c) = {}
    BY <2>1 DEF Asks
  <2> QED BY <2>2, <2>3 DEF Range
<1>19. /\ \A n \in Visible(g, a) : n \in DOMAIN a.sees /\ a.sees[n] \in DOMAIN h1[t]
       /\ \A n \in DOMAIN a.sees : a.sees[n] \in DOMAIN h1[t] => n \in Visible(g, a)
       /\ \A n \in Visible(g, a) : Value(g, a, n) = h1[t][a.sees[n]]
  BY <1>1, <1>17 DEF Visible, Value
<1>20. \A n : n \in Visible(g, a) <=> n \in Visible(h, a) /\ n \notin G
  BY <1>5, <1>8, <1>9, <1>19
<1>21. \A n \in Visible(g, a) : Value(g, a, n) = Value(h, a, n)
  BY <1>5, <1>8, <1>19, <1>20
<1>22. \A n \in Visible(g, a) \ Hiding(with) : n \in DOMAIN v /\ v[n] = Value(g, a, n)
  <2> SUFFICES ASSUME NEW n \in Visible(g, a) \ Hiding(with) PROVE n \in DOMAIN v /\ v[n] = Value(g, a, n)
    OBVIOUS
  <2>1. n \in Visible(h, a) /\ n \notin DOMAIN with
    BY <1>20 DEF Hiding, G
  <2>2. n \in DOMAIN v
    BY <2>1, <1>3
  <2> QED BY <2>1, <2>2, <1>6, <1>21
<1>23. \A n \in DOMAIN v \ DOMAIN with : n \in Visible(g, a)
  <2>1. \A n \in DOMAIN v : n \notin DOMAIN with => n \in Visible(h, a)
    BY <1>3
  <2> QED BY <2>1, <1>4, <1>20
<1>24. l.given = c /\ l.adjusted = a
  OBVIOUS
<1> HIDE DEF l
<1>25. /\ e.by = "load" /\ e.conf = c /\ e.load = l /\ e.stmt = s
  BY PlaceIs
<1> HIDE DEF e
<1>26. Lent(g, e, L[m])
  <2>1. IsConf(g, a)
    BY <1>1, <1>17 DEF IsConf
  <2>2. Copied(g, e, L[m])
    BY <2>1, <1>1, <1>16, <1>17, <1>22, <1>23, <1>24, <1>25 DEF Copied, t
  <2>3. e.conf.store > L[m].conf.store
    BY <1>1, <1>16, <1>25 DEF t
  <2>4. DOMAIN g[e.conf.store] \subseteq DOMAIN e.conf.sees
    BY <1>16, <1>17, <1>25
  <2> QED BY <2>2, <2>3, <2>4, <1>5, <1>16, <1>24, <1>25 DEF Lent
<1>27. Framed(g, e, L[m])
  BY <1>25, <1>26 DEF Framed
<1>28. \A from : Linked(g, e, from) <=> \E n \in Visible(g, a) \ Hiding(with) : Value(g, a, n).from = from
  BY <1>5, <1>24, <1>25 DEF Linked
<1> HIDE DEF ask2
<1>29. \A from : from \in ask2 <=> from \in ask \/ from \in Asks(g, c)
  BY DEF ask2
<1>30. ASSUME NEW n \in DOMAIN v, v[n].from \in ask2
       PROVE  v[n].val # Null /\ c.explicit
  <2>1. CASE v[n].from \in ask
    BY <2>1, <1>2, <1>11, <1>13, <1>16
  <2>2. CASE v[n].from \in Asks(g, c)
    BY <2>2, <1>14, <1>18
  <2> QED BY <2>1, <2>2, <1>29, <1>30
<1>31. ASSUME NEW from \in ask, Holds(h, t, from)
       PROVE  Holds(h1, t, from) \/ \E n \in DOMAIN v : v[n].from = from
  <2>1. PICK key \in DOMAIN h[t] : h[t][key].from = from
    BY <1>31 DEF Holds
  <2>2. CASE key \notin Keys(a, G)
    BY <2>1, <2>2, <1>8 DEF Holds
  <2>3. CASE key \in Keys(a, G)
    <3>1. PICK n \in G : n \in DOMAIN a.sees /\ key = a.sees[n]
      BY <2>3, <1>10
    <3>2. Kept(n) /\ Value(h, a, n).from = from
      BY <2>1, <3>1, <1>2, <1>5
    <3>3. n \in DOMAIN v /\ Old(n)
      BY <3>2, <1>3, <1>6
    <3> QED BY <3>2, <3>3
  <2> QED BY <2>2, <2>3
<1>32. ASSUME NEW from \in ask, Holds(h1, t, from), NEW n \in DOMAIN v, v[n].from = from
       PROVE  n \in Visible(g, a) /\ n \notin Hiding(with) /\ Value(g, a, n).from = from
  <2>1. Old(n)
    BY <1>13, <1>32
  <2>2. PICK key \in DOMAIN h1[t] : h1[t][key].from = from
    BY <1>32 DEF Holds
  <2>3. key = a.sees[n] /\ key \notin Keys(a, G) /\ n \in DOMAIN a.sees
    BY <2>1, <2>2, <1>2, <1>5, <1>8, <1>32
  <2>4. n \notin G /\ n \in Visible(g, a)
    BY <2>1, <2>3, <1>9, <1>20
  <2>5. n \notin DOMAIN with
    <3>1. n \in DOMAIN with => v[n].from = <<N, n>>
      BY <2>4, <1>6
    <3> QED BY <3>1, <1>12, <1>32
  <2> QED BY <2>1, <2>4, <2>5, <1>21, <1>32 DEF Hiding
<1>33. ASSUME NEW M, \A k \in 1..m : M[k] = L[k], M[m + 1] = e
       PROVE  Accounted(M, m + 1, Append(h1, v), ask2, tak)
  <2>1. Shrunk(h1, h, L[m].conf.store)
    BY <1>8 DEF t
  <2>2. \A k \in 1..m : M[k] = L[k]
    BY <1>33
  <2>3. \A n \in DOMAIN v : v[n].from[1] \in 0..Len(h) + 1 /\ (v[n].from \in ask2 => v[n].val # Null)
    <3> SUFFICES ASSUME NEW n \in DOMAIN v
                 PROVE  v[n].from[1] \in 0..Len(h) + 1 /\ (v[n].from \in ask2 => v[n].val # Null)
      OBVIOUS
    <3>1. v[n].from[1] \in 0..Len(h) \/ v[n].from[1] = Len(h) + 1
      BY <1>7, <1>11, <1>12 DEF N
    <3>2. v[n].from[1] \in 0..Len(h) + 1
      BY <3>1, <1>1
    <3> QED BY <3>2, <1>30
  <2>4. \A i, j \in DOMAIN v : v[i].from = v[j].from => i = j
    BY <1>14
  <2>5. \A from \in ask2 \ ask : from[1] = Len(h) + 1 /\ \E n \in DOMAIN v : v[n].from = from
    BY <1>18, <1>29 DEF N
  <2>6. ask \subseteq ask2
    BY <1>29
  <2>7. \A n \in DOMAIN v : v[n].from \in ask2 => M[m + 1].conf.explicit
    BY <1>25, <1>30, <1>33
  <2>8. \A n \in DOMAIN v : v[n].from \in ask => Holds(h, L[m].conf.store, v[n].from)
    BY <1>11, <1>13 DEF t
  <2>9. \A from \in ask : Holds(h, L[m].conf.store, from) =>
           Holds(h1, L[m].conf.store, from) \/ \E n \in DOMAIN v : v[n].from = from
    BY <1>31 DEF t
  <2>10. g = Append(h1, v)
    BY <1>3
  <2>11. \A from \in ask : Holds(h1, L[m].conf.store, from) =>
            (Linked(Append(h1, v), M[m + 1], from) <=> \E n \in DOMAIN v : v[n].from = from)
    <3> SUFFICES ASSUME NEW from \in ask, Holds(h1, t, from)
                 PROVE  Linked(g, e, from) <=> \E n \in DOMAIN v : v[n].from = from
      BY <2>10, <1>33 DEF t
    <3>1. Linked(g, e, from) => \E n \in DOMAIN v : v[n].from = from
      BY <1>22, <1>28
    <3>2. (\E n \in DOMAIN v : v[n].from = from) => Linked(g, e, from)
      BY <1>28, <1>32
    <3> QED BY <3>1, <3>2
  <2>12. M[m + 1].conf.store = Len(h) + 1
    BY <1>16, <1>25, <1>33 DEF N
  <2>13. IsConf(Append(h1, v), M[m + 1].conf) /\ Framed(Append(h1, v), M[m + 1], L[m])
    BY <2>10, <1>16, <1>25, <1>27, <1>33
  <2> QED BY <2>1, <2>2, <2>3, <2>4, <2>5, <2>6, <2>7, <2>8, <2>9, <2>11, <2>12, <2>13, <1>15, PushNew
<1>34. ASSUME NEW from \in Asks(g, c) PROVE ~Used(tak, from)
  <2>1. from[1] = N
    BY <1>18, <1>34
  <2> QED BY <2>1, <1>1 DEF N
<1>35. ASSUME NEW M, \A k \in 1..m : M[k] = L[k], M[m + 1] = e
       PROVE  Accounted(M, m + 1, g, ask \cup Asks(g, e.load.given), tak)
  <2>1. g = Append(h1, v) /\ ask2 = ask \cup Asks(g, e.load.given)
    BY <1>3, <1>24, <1>25 DEF ask2
  <2>2. Accounted(M, m + 1, Append(h1, v), ask2, tak)
    BY <1>33, <1>35
  <2> QED BY <2>1, <2>2
<1>36. Begun(L, m, h, ask, tak, e, g)
  <2>1. \A from \in Asks(g, e.load.given) : ~Used(tak, from)
    BY <1>24, <1>25, <1>34
  <2> QED BY <2>1, <1>35 DEF Begun
<1> QED BY <1>36 DEF e, l, c, g, added

(* A configured value is used. *)
LEMMA DeclareKeeps ==
    ASSUME NEW L, NEW m, NEW h, NEW ask, NEW tak, Accounted(L, m, h, ask, tak), Once(ask, tak),
           NEW n, n \in Visible(h, L[m].conf), NEW by, NEW tak2,
           tak2 = IF Value(h, L[m].conf, n).val # Null
                  THEN Append(tak, [from |-> Value(h, L[m].conf, n).from, by |-> by]) ELSE tak
    PROVE  Accounted(L, m, RemoveNames(h, L[m].conf, {n}), ask, tak2) /\ Once(ask, tak2)
<1> DEFINE c   == L[m].conf
           s   == c.store
           key == c.sees[n]
           old == h[s][key]
           g   == RemoveNames(h, c, {n})
<1>1. /\ m \in 1..m /\ Sequence(h) /\ IsConf(h, c) /\ s \in 1..Len(h) /\ Len(h) \in Nat
      /\ \A k \in DOMAIN h[s] : h[s][k].from[1] \in 0..Len(h) /\ (h[s][k].from \in ask => h[s][k].val # Null)
  BY TopPlace
<1>2. n \in DOMAIN c.sees /\ key \in DOMAIN h[s] /\ Value(h, c, n) = old
  BY DEF Visible, Value
<1>3. Without(g, h, s, {key})
  <2>1. Without(g, h, s, Keys(c, {n}))
    BY <1>1, RemoveIs
  <2>2. Keys(c, {n}) = {key}
    BY <1>2 DEF Keys
  <2> QED BY <2>1, <2>2
<1> HIDE DEF g, old, key
<1>4. Told(h, tak) /\ Sequence(tak) /\ \A from \in ask : Routed(L, m, h, tak, from)
  BY DEF Accounted, Once
<1>5. old.from[1] \in 0..Len(h) /\ (old.from \in ask => old.val # Null)
  BY <1>1, <1>2 DEF old
<1>6. old.from \in ask => ~Used(tak, old.from)
  <2>1. Holds(h, s, old.from)
    BY <1>2 DEF Holds, old
  <2> QED BY <2>1, <1>4 DEF Routed
<1>7. CASE old.val = Null
  <2>1. tak2 = tak /\ old.from \notin ask
    BY <1>2, <1>5, <1>7
  <2>2. \A from \in ask : Used(tak2, from) <=> Used(tak, from) \/ from = h[L[m].conf.store][key].from
    BY <2>1 DEF old
  <2>3. Accounted(L, m, g, ask, tak2)
    BY <2>1, <2>2, <1>2, <1>3, <1>4, DropKeeps
  <2> QED BY <2>1, <2>3 DEF g
<1>8. CASE old.val # Null
  <2> DEFINE t == [from |-> old.from, by |-> by]
  <2>1. tak2 = Append(tak, t) /\ t.from = old.from
    BY <1>2, <1>8
  <2> HIDE DEF t
  <2>2. /\ Len(tak) \in Nat /\ Sequence(tak2) /\ Len(tak2) = Len(tak) + 1
        /\ tak2[Len(tak) + 1] = t
        /\ \A k \in 1..Len(tak) : tak2[k] = tak[k]
    BY <2>1, <1>4, AppendIs
  <2>3. /\ \A k \in 1..Len(tak2) : k \in 1..Len(tak) \/ k = Len(tak) + 1
        /\ \A k \in 1..Len(tak) : k \in 1..Len(tak2)
        /\ Len(tak) + 1 \in 1..Len(tak2)
    BY <2>2
  <2>4. \A from : Used(tak2, from) <=> Used(tak, from) \/ from = old.from
    BY <2>1, <2>2, <2>3 DEF Used
  <2>5. \A from \in ask : Used(tak2, from) <=> Used(tak, from) \/ from = h[L[m].conf.store][key].from
    BY <2>4 DEF old
  <2>6. Told(h, tak2)
    BY <2>1, <2>2, <2>3, <1>4, <1>5 DEF Told
  <2>7. Accounted(L, m, g, ask, tak2)
    BY <2>5, <2>6, <1>2, <1>3, DropKeeps
  <2>8. ASSUME NEW i \in 1..Len(tak2), NEW j \in 1..Len(tak2), tak2[i].from = tak2[j].from, tak2[i].from \in ask
        PROVE  i = j
    <3>1. \A k \in 1..Len(tak) : tak2[k].from = old.from /\ old.from \in ask => FALSE
      BY <2>2, <1>6 DEF Used
    <3>2. CASE i \in 1..Len(tak) /\ j \in 1..Len(tak)
      BY <3>2, <2>2, <2>8 DEF Once
    <3>3. CASE i = Len(tak) + 1 /\ j \in 1..Len(tak)
      BY <3>1, <3>3, <2>1, <2>2, <2>8
    <3>4. CASE j = Len(tak) + 1 /\ i \in 1..Len(tak)
      BY <3>1, <3>4, <2>1, <2>2, <2>8
    <3>5. CASE i = Len(tak) + 1 /\ j = Len(tak) + 1
      BY <3>5
    <3> QED BY <2>3, <3>2, <3>3, <3>4, <3>5
  <2>9. Once(ask, tak2)
    BY <2>2, <2>8 DEF Once
  <2> QED BY <2>7, <2>9 DEF g
<1> QED BY <1>7, <1>8

(* New values are asked for that nobody has used. *)
LEMMA MoreAsked ==
    ASSUME NEW ask, NEW tak, Once(ask, tak), NEW more, \A from \in more : ~Used(tak, from)
    PROVE  Once(ask \cup more, tak)
BY DEF Once, Used

-----------------------------------------------------------------------------
(* The stack as places *)
PlacesOf(prog, st) ==
    [k \in 1..Len(st) |->
        PlaceOf(st[k].by, st[k].conf, st[k].load,
                IF k = 1 THEN None ELSE prog[st[k - 1].file][st[k - 1].pc])]

LEMMA PlacesGoOn ==
    ASSUME NEW prog, NEW st, Sequence(st), st # <<>>, NEW g,
           g.by = st[Len(st)].by, g.conf = st[Len(st)].conf, g.load = st[Len(st)].load
    PROVE  /\ Len(Append(Front(st), g)) = Len(st)
           /\ PlacesOf(prog, Append(Front(st), g)) = PlacesOf(prog, st)
<1> DEFINE t == Append(Front(st), g)
<1>1. /\ Len(st) \in Nat \ {0} /\ Len(t) = Len(st) /\ t[Len(st)] = g
      /\ \A k \in 1..Len(st) - 1 : t[k] = st[k]
  <2> DEFINE S == {st[k] : k \in DOMAIN st} \cup {g}
  <2>1. st \in Seq(S) /\ g \in S
    BY DEF Sequence
  <2> HIDE DEF S
  <2>2. /\ Front(st) \in Seq(S) /\ Len(Front(st)) = Len(st) - 1
        /\ \A k \in 1..Len(st) - 1 : Front(st)[k] = st[k]
        /\ Len(st) \in Nat \ {0}
    BY <2>1, FrontIs
  <2> QED BY <2>1, <2>2
<1> HIDE DEF t
<1>2. ASSUME NEW k \in 1..Len(st) PROVE PlacesOf(prog, t)[k] = PlacesOf(prog, st)[k]
  <2>1. k \in 1..Len(t) /\ (k = 1 \/ k - 1 \in 1..Len(st) - 1) /\ (k = Len(st) \/ k \in 1..Len(st) - 1)
    BY <1>1
  <2>2. t[k].by = st[k].by /\ t[k].conf = st[k].conf /\ t[k].load = st[k].load
    BY <1>1, <2>1
  <2>3. k # 1 => t[k - 1] = st[k - 1]
    BY <1>1, <2>1
  <2> QED BY <2>1, <2>2, <2>3 DEF PlacesOf
<1> QED BY <1>1, <1>2 DEF PlacesOf, t

LEMMA PlacesEntered ==
    ASSUME NEW prog, NEW st, Sequence(st), st # <<>>, NEW g
    PROVE  /\ Len(Append(st, g)) = Len(st) + 1
           /\ \A k \in 1..Len(st) : PlacesOf(prog, Append(st, g))[k] = PlacesOf(prog, st)[k]
           /\ PlacesOf(prog, Append(st, g))[Len(st) + 1] =
                PlaceOf(g.by, g.conf, g.load, prog[st[Len(st)].file][st[Len(st)].pc])
<1> DEFINE t == Append(st, g)
<1>1. /\ Len(st) \in Nat /\ Len(t) = Len(st) + 1 /\ t[Len(st) + 1] = g
      /\ \A k \in 1..Len(st) : t[k] = st[k]
  BY AppendIs
<1>2. Len(st) # 0
  BY DEF Sequence
<1> HIDE DEF t
<1>3. ASSUME NEW k \in 1..Len(st) PROVE PlacesOf(prog, t)[k] = PlacesOf(prog, st)[k]
  <2>1. k \in 1..Len(t) /\ (k = 1 \/ k - 1 \in 1..Len(st))
    BY <1>1
  <2> QED BY <1>1, <2>1 DEF PlacesOf
<1>4. PlacesOf(prog, t)[Len(st) + 1] =
         PlaceOf(g.by, g.conf, g.load, prog[st[Len(st)].file][st[Len(st)].pc])
  <2>1. Len(st) + 1 \in 1..Len(t) /\ Len(st) + 1 # 1 /\ (Len(st) + 1) - 1 = Len(st) /\ Len(st) \in 1..Len(st)
    BY <1>1, <1>2
  <2> QED BY <1>1, <2>1 DEF PlacesOf
<1> QED BY <1>1, <1>3, <1>4 DEF t

LEMMA PlacesLeft ==
    ASSUME NEW prog, NEW st, Sequence(st), Len(st) > 1
    PROVE  /\ Len(st) \in Nat \ {0} /\ Len(Front(st)) = Len(st) - 1
           /\ \A k \in 1..Len(st) - 1 : PlacesOf(prog, Front(st))[k] = PlacesOf(prog, st)[k]
<1>1. /\ Len(st) \in Nat \ {0} /\ Len(Front(st)) = Len(st) - 1
      /\ \A k \in 1..Len(st) - 1 : Front(st)[k] = st[k]
  <2>1. st # <<>>
    OBVIOUS
  <2> QED BY <2>1, FrontIs DEF Sequence
<1>2. ASSUME NEW k \in 1..Len(st) - 1 PROVE PlacesOf(prog, Front(st))[k] = PlacesOf(prog, st)[k]
  <2>1. k \in 1..Len(Front(st)) /\ k \in 1..Len(st) /\ (k = 1 \/ k - 1 \in 1..Len(st) - 1)
    BY <1>1
  <2> QED BY <1>1, <2>1 DEF PlacesOf
<1> QED BY <1>1, <1>2

-----------------------------------------------------------------------------
(* The steps once more                                                      *)

AccountsInv ==
    /\ Once(asked, taken)
    /\ status = "running" => Accounted(PlacesOf(program, stack), Len(stack), stores, asked, taken)
    /\ status = "done" => \A from \in asked : Used(taken, from)

LEMMA TopIs ==
    ASSUME LoadingInv, status = "running"
    PROVE  /\ Sequence(stack) /\ stack # <<>> /\ Len(stack) \in Nat \ {0}
           /\ PlacesOf(program, stack)[Len(stack)].by = Top.by
           /\ PlacesOf(program, stack)[Len(stack)].conf = Top.conf
           /\ PlacesOf(program, stack)[Len(stack)].load = Top.load
           /\ Len(stack) > 1 => PlacesOf(program, stack)[Len(stack)].stmt =
                                  program[stack[Len(stack) - 1].file][stack[Len(stack) - 1].pc]
           /\ Stmt = program[stack[Len(stack)].file][stack[Len(stack)].pc]
<1>1. Sequence(stack) /\ stack # <<>> /\ Len(stack) \in Nat \ {0}
  BY StackTop DEF Lined, Nested, Sequence
<1>2. Len(stack) \in 1..Len(stack) /\ Top = stack[Len(stack)]
  BY <1>1 DEF Top
<1> QED BY <1>1, <1>2, PlaceIs DEF PlacesOf, Stmt

LEMMA AccountsGoOn ==
    ASSUME LoadingInv, status = "running", NEW g, Stays(Top, g),
           stack' = Append(Below, Advance(g)), UNCHANGED program
    PROVE  Len(stack') = Len(stack) /\ PlacesOf(program', stack') = PlacesOf(program, stack)
<1>1. Stays(Top, Advance(g))
  BY AdvanceStays, StaysTwice DEF Stays, Same
<1>2. Sequence(stack) /\ stack # <<>> /\ Top = stack[Len(stack)] /\ Below = Front(stack)
  BY TopIs DEF Top, Below
<1> QED BY <1>1, <1>2, PlacesGoOn DEF Stays, Same

LEMMA AccountsEmit ==
    ASSUME LoadingInv, AccountsInv, VisitStyleRule \/ VisitLoudComment \/ VisitStaticImport
    PROVE  AccountsInv'
<1>1. Len(stack') = Len(stack) /\ PlacesOf(program', stack') = PlacesOf(program, stack)
  BY EmittingStays, AccountsGoOn
<1>2. status = "running" /\ UNCHANGED <<stores, status, asked, taken>>
  BY EmittingStays
<1> QED BY <1>1, <1>2 DEF AccountsInv

LEMMA AccountsDeclare ==
    ASSUME LoadingInv, AccountsInv, VisitVariableDeclaration
    PROVE  AccountsInv'
<1> DEFINE n == Stmt.name
           f == IF Stmt.guarded THEN [Top EXCEPT !.configurable = @ \cup {n}] ELSE Top
           c == Top.conf
           L == PlacesOf(program, stack)
           m == Len(stack)
           set == Stmt.guarded /\ n \in Visible(stores, c)
           cv == ConfigurationValues(stores, c)[n]
<1>1. /\ status = "running" /\ UNCHANGED <<program, status, asked>>
      /\ Len(stack') = m /\ PlacesOf(program', stack') = L
  BY DeclarationStays, AccountsGoOn
<1>2. Accounted(L, m, stores, asked, taken) /\ Once(asked, taken) /\ L[m].conf = c
  BY <1>1, TopIs DEF AccountsInv
<1>3. f.conf = c
  OBVIOUS
<1>4. /\ stores' = IF set THEN RemoveNames(stores, c, {n}) ELSE stores
      /\ \/ set /\ cv.val # Null /\ taken' = Append(taken, [from |-> cv.from, by |-> <<Top.file, n>>])
         \/ ~(set /\ cv.val # Null) /\ taken' = taken
  BY <1>3 DEF VisitVariableDeclaration
<1>5. n \in Visible(stores, c) => cv = Value(stores, c, n)
  BY DEF ConfigurationValues, Value
<1> HIDE DEF n, f, c, L, m, cv
<1>6. CASE ~set
  BY <1>1, <1>2, <1>4, <1>6 DEF AccountsInv, L, m
<1>7. CASE set
  <2>1. n \in Visible(stores, L[m].conf) /\ stores' = RemoveNames(stores, L[m].conf, {n})
    BY <1>2, <1>4, <1>7
  <2>2. taken' = IF Value(stores, L[m].conf, n).val # Null
                 THEN Append(taken, [from |-> Value(stores, L[m].conf, n).from, by |-> <<Top.file, n>>])
                 ELSE taken
    BY <1>2, <1>4, <1>5, <1>7
  <2>3. Accounted(L, m, stores', asked, taken') /\ Once(asked, taken')
    BY <2>1, <2>2, <1>2, DeclareKeeps
  <2> QED BY <2>3, <1>1 DEF AccountsInv, m
<1> QED BY <1>6, <1>7

LEMMA ErrorIs ==
    ASSUME NEW below, NEW f, NEW load, NEW heap, NEW mods, NEW first,
           AfterLoad(below, f, load, heap, mods, first),
           program[f.file][f.pc].op \in Loading, status = "running"
    PROVE  LET s == program[f.file][f.pc]
           IN  /\ UNCHANGED <<program, taken>>
               /\ stores' = IF s.op = "forward" /\ load.given # NoConfiguration
                            THEN SettleForward(heap, load.adjusted, load.given, s.with) ELSE heap
               /\ \/ /\ stack' = Append(below, Advance(Callback(f, s, mods, first)))
                     /\ status' = "running"
                     /\ ~(load.given # NoConfiguration /\ load.given.explicit /\ ~IsEmpty(stores', load.given))
                  \/ status' \notin {"running", "done"}
<1> DEFINE s == program[f.file][f.pc]
           error == IF CallbackError(f, s, mods) # "none" THEN CallbackError(f, s, mods)
                    ELSE IF load.given # NoConfiguration /\ load.given.explicit /\ ~IsEmpty(stores', load.given)
                    THEN "not-declared" ELSE "none"
<1>1. /\ UNCHANGED <<program, taken>>
      /\ stores' = IF s.op = "forward" /\ load.given # NoConfiguration
                   THEN SettleForward(heap, load.adjusted, load.given, s.with) ELSE heap
  BY DEF AfterLoad
<1>2. IF error = "none" THEN stack' = Append(below, Advance(Callback(f, s, mods, first))) /\ UNCHANGED status
      ELSE status' = error
  BY DEF AfterLoad
<1>3. CallbackError(f, s, mods) \in {"none", "namespace", "conflict"}
  BY DEF CallbackError, Loading
<1> HIDE DEF s
<1>4. CASE error = "none"
  BY <1>1, <1>2, <1>4 DEF s
<1>5. CASE error # "none"
  BY <1>1, <1>2, <1>3, <1>5 DEF s
<1> QED BY <1>4, <1>5

(* loadModule, whatever configuration the module gets. *)
LEMMA AccountsLoad ==
    ASSUME LoadingInv, AccountsInv, NEW conf, NEW load, NEW heap,
           status = "running", Stmt.op \in Loading, IsStatement(Stmt),
           Begun(PlacesOf(program, stack), Len(stack), stores, asked, taken,
                 PlaceOf("load", conf, load, Stmt), heap),
           LoadModule(Stmt.url, conf, load, heap)
    PROVE  AccountsInv'
<1> DEFINE L == PlacesOf(program, stack)
           m == Len(stack)
           e == PlaceOf("load", conf, load, Stmt)
           ask2 == asked \cup Asks(heap, load.given)
<1>1. e.by = "load" /\ e.conf = conf /\ e.load = load /\ e.stmt = Stmt
  BY PlaceIs
<1>2. asked' = ask2 /\ m \in Nat \ {0}
  BY TopIs DEF LoadModule
<1>3. ASSUME NEW M, \A k \in 1..m : M[k] = L[k], M[m + 1] = e
      PROVE  Accounted(M, m + 1, heap, ask2, taken)
  BY <1>1, <1>3 DEF Begun
<1>4. Once(ask2, taken)
  <2>1. \A from \in Asks(heap, load.given) : ~Used(taken, from)
    BY <1>1 DEF Begun
  <2> QED BY <2>1, MoreAsked DEF AccountsInv
<1> HIDE DEF e, ask2
<1>5. ASSUME NEW error, error \notin {"running", "done"}, status' = error, taken' = taken
      PROVE  AccountsInv'
  BY <1>2, <1>4, <1>5 DEF AccountsInv
<1>6. CASE Fail("loop") \/ Fail("already-loaded")
  BY <1>5, <1>6 DEF Fail
<1>7. CASE Stmt.url \in DOMAIN modules /\ AfterLoad(Below, Top, load, heap, modules, FALSE)
  <2>1. program[Top.file][Top.pc] = Stmt
    BY DEF Stmt
  <2>2. /\ UNCHANGED <<program, taken>>
        /\ stores' = IF Stmt.op = "forward" /\ load.given # NoConfiguration
                     THEN SettleForward(heap, load.adjusted, load.given, Stmt.with) ELSE heap
        /\ \/ /\ stack' = Append(Below, Advance(Callback(Top, Stmt, modules, FALSE)))
              /\ status' = "running"
              /\ ~(load.given # NoConfiguration /\ load.given.explicit /\ ~IsEmpty(stores', load.given))
           \/ status' \notin {"running", "done"}
    BY <1>7, <2>1, ErrorIs
  <2>3. CASE status' \notin {"running", "done"}
    BY <2>2, <2>3, <1>5
  <2>4. CASE status' = "running"
    <3>1. /\ stack' = Append(Below, Advance(Callback(Top, Stmt, modules, FALSE)))
          /\ ~(load.given # NoConfiguration /\ load.given.explicit /\ ~IsEmpty(stores', load.given))
      BY <2>2, <2>4
    <3>2. Stays(Top, Callback(Top, Stmt, modules, FALSE))
      BY <1>7, StackTop, CallbackStays DEF Viewed
    <3>3. Len(stack') = m /\ PlacesOf(program', stack') = L
      BY <2>2, <3>1, <3>2, AccountsGoOn
    <3> DEFINE M == [k \in 1..m + 1 |-> IF k = m + 1 THEN e ELSE L[k]]
    <3>4. (\A k \in 1..m : M[k] = L[k]) /\ M[m + 1] = e
      BY <1>2
    <3> HIDE DEF M, L, m
    <3>5. Accounted(M, m + 1, heap, ask2, taken)
      BY <3>4, <1>3
    <3>6. Accounted(L, m, stores', ask2, taken)
      <4>1. LET l == M[m + 1].load
                s == M[m + 1].stmt
            IN  /\ stores' = IF s.op = "forward" /\ l.given # NoConfiguration
                             THEN SettleForward(heap, l.adjusted, l.given, s.with) ELSE heap
                /\ ~(l.given # NoConfiguration /\ l.given.explicit /\ ~IsEmpty(stores', l.given))
        BY <2>2, <3>1, <3>4, <1>1
      <4>2. M[m + 1].by = "load" /\ \A k \in 1..m : L[k] = M[k]
        BY <3>4, <1>1
      <4> QED BY <4>1, <4>2, <3>5, <1>2, PopLoaded
    <3>7. taken' = taken
      BY <2>2
    <3> QED BY <3>3, <3>6, <3>7, <2>4, <1>2, <1>4 DEF AccountsInv
  <2> QED BY <2>2, <2>3, <2>4
<1>8. CASE LoadFirst(Stmt.url, conf, load, heap)
  <2> DEFINE g == Fresh(Stmt.url, "load", conf, load)
             M == PlacesOf(program, Append(stack, g))
  <2>1. /\ stack' = Append(stack, g) /\ stores' = heap /\ UNCHANGED <<program, status, taken>>
    BY <1>8 DEF LoadFirst
  <2>2. g.by = "load" /\ g.conf = conf /\ g.load = load
    BY FreshIs DEF IsStatement, Loading
  <2> HIDE DEF g
  <2>3. Sequence(stack) /\ stack # <<>> /\ Stmt = program[stack[Len(stack)].file][stack[Len(stack)].pc]
    BY TopIs
  <2>4. /\ Len(Append(stack, g)) = m + 1 /\ \A k \in 1..m : M[k] = L[k]
        /\ M[m + 1] = PlaceOf(g.by, g.conf, g.load, Stmt)
    BY <2>3, PlacesEntered
  <2> HIDE DEF M, L
  <2>5. Accounted(M, m + 1, heap, ask2, taken)
    BY <2>2, <2>4, <1>3 DEF e
  <2> QED BY <2>1, <2>4, <2>5, <1>2, <1>4 DEF AccountsInv, M
<1> QED BY <1>6, <1>7, <1>8 DEF LoadModule, LoadedBefore

LEMMA AccountsUse ==
    ASSUME LoadingInv, AccountsInv, VisitUseRule \/ LoadCss
    PROVE  AccountsInv'
<1> DEFINE L == PlacesOf(program, stack)
           m == Len(stack)
           with == Stmt.with
           vals == WithValues(stores, with)
           given == NewConfiguration(stores, vals, TRUE)
           load == [NoLoad EXCEPT !.given = given]
<1>1. /\ status = "running" /\ Stmt.op \in Loading /\ Stmt.op # "forward" /\ IsStatement(Stmt)
      /\ with = None \/ DOMAIN with \subseteq Names
  BY StmtIs DEF VisitUseRule, LoadCss, Loading, IsStatement
<1>2. Accounted(L, m, stores, asked, taken) /\ L[m].conf = Top.conf
  BY <1>1, TopIs DEF AccountsInv
<1>3. LoadWith(with)
  BY DEF VisitUseRule, LoadCss
<1>4. CASE with = None
  <2>1. LoadModule(Stmt.url, Top.conf, NoLoad, stores)
    BY <1>3, <1>4 DEF LoadWith
  <2>2. IsConf(stores, Top.conf)
    BY <1>2, TopPlace
  <2>3. Begun(L, m, stores, asked, taken, PlaceOf("load", Top.conf, NoLoad, Stmt), stores)
    BY <1>2, <2>2, BeginPlain
  <2> QED BY <1>1, <2>1, <2>3, AccountsLoad
<1>5. CASE with # None
  <2>1. LoadModule(Stmt.url, given, load, Append(stores, vals))
    BY <1>3, <1>5 DEF LoadWith
  <2>2. Begun(L, m, stores, asked, taken, PlaceOf("load", given, load, Stmt), Append(stores, vals))
    BY <1>1, <1>2, <1>5, BeginWith
  <2> QED BY <1>1, <2>1, <2>2, AccountsLoad
<1> QED BY <1>4, <1>5

LEMMA AccountsForward ==
    ASSUME LoadingInv, AccountsInv, VisitForwardRule
    PROVE  AccountsInv'
<1> DEFINE L == PlacesOf(program, stack)
           m == Len(stack)
           with == Stmt.with
           adjusted == ThroughForward(stores, Top.conf, Stmt.rule)
           added == AddForwardConfiguration(stores, adjusted, with)
           load == [given |-> added.given, adjusted |-> adjusted]
<1>1. /\ status = "running" /\ Stmt.op \in Loading /\ Stmt.op = "forward" /\ IsStatement(Stmt)
      /\ Stmt.rule.prefix \in Names
      /\ with = None \/ DOMAIN with \subseteq Names
  BY StmtIs DEF VisitForwardRule, Loading, IsStatement
<1>2. Accounted(L, m, stores, asked, taken) /\ L[m].conf = Top.conf
  BY <1>1, TopIs DEF AccountsInv
<1>3. /\ IsConf(stores, adjusted) /\ adjusted.store = L[m].conf.store
      /\ adjusted.explicit = L[m].conf.explicit
  <2>1. IsConf(stores, Top.conf)
    BY <1>2, TopPlace
  <2> QED BY <1>1, <1>2, <2>1, ThroughIs
<1>4. CASE with = None
  <2>1. LoadModule(Stmt.url, adjusted, NoLoad, stores)
    BY <1>4 DEF VisitForwardRule
  <2> HIDE DEF adjusted
  <2>2. Begun(L, m, stores, asked, taken, PlaceOf("load", adjusted, NoLoad, Stmt), stores)
    BY <1>2, <1>3, BeginPlain
  <2> QED BY <1>1, <2>1, <2>2, AccountsLoad
<1>5. CASE with # None
  <2>1. LoadModule(Stmt.url, added.given, load, added.heap)
    BY <1>5 DEF VisitForwardRule
  <2> HIDE DEF adjusted
  <2>2. DOMAIN with \subseteq Names
    BY <1>1, <1>5
  <2>3. Begun(L, m, stores, asked, taken, PlaceOf("load", added.given, load, Stmt), added.heap)
    BY <1>1, <1>2, <1>3, <2>2, BeginForward
  <2> QED BY <1>1, <2>1, <2>3, AccountsLoad
<1> QED BY <1>4, <1>5

LEMMA AccountsImport ==
    ASSUME LoadingInv, AccountsInv, VisitDynamicImport
    PROVE  AccountsInv'
<1>1. CASE Fail("loop")
  BY <1>1 DEF Fail, AccountsInv, VisitDynamicImport
<1>2. CASE ~Fail("loop")
  <2> DEFINE L == PlacesOf(program, stack)
             m == Len(stack)
             v == ImplicitValues(Top)
  <2>1. /\ status = "running" /\ UNCHANGED <<program, status, asked, taken>>
    BY <1>2, ImportEnters
  <2>2. PICK g : /\ stack' = Append(stack, g)
                 /\ \/ g.by = "inject" /\ g.conf = Top.conf /\ stores' = stores
                    \/ g.by = "import" /\ g.load = NoLoad /\ g.conf = Top.conf /\ stores' = stores
                    \/ /\ g.by = "import" /\ g.load = NoLoad
                       /\ g.conf = NewConfiguration(stores, v, FALSE)
                       /\ stores' = Append(stores, v)
    BY <1>2, ImportEnters
  <2>3. /\ Accounted(L, m, stores, asked, taken) /\ L[m].conf = Top.conf /\ Once(asked, taken)
        /\ Sequence(stack) /\ stack # <<>> /\ m \in Nat \ {0} /\ IsFrame(Top)
    BY <2>1, TopIs, StackTop DEF AccountsInv
  <2>4. DOMAIN v \subseteq Names /\ \A n \in DOMAIN v : v[n].from = <<0, n>>
    <3>1. DOMAIN v = DOMAIN Top.vars \cup UNION {DOMAIN w.exports : w \in Top.imported}
      BY DEF ImplicitValues
    <3>2. \A n \in DOMAIN v : v[n] = [val |-> GetVariable(Top, n), from |-> <<0, n>>]
      BY DEF ImplicitValues
    <3> HIDE DEF v
    <3>3. DOMAIN v \subseteq Names
      BY <3>1, <2>3 DEF IsFrame, IsView
    <3> QED BY <3>2, <3>3
  <2> HIDE DEF v
  <2> DEFINE M == PlacesOf(program, Append(stack, g))
  <2>5. /\ Len(Append(stack, g)) = m + 1 /\ \A k \in 1..m : M[k] = L[k]
        /\ M[m + 1].by = g.by /\ M[m + 1].conf = g.conf /\ M[m + 1].load = g.load
    <3>1. /\ Len(Append(stack, g)) = m + 1 /\ \A k \in 1..m : M[k] = L[k]
          /\ M[m + 1] = PlaceOf(g.by, g.conf, g.load, program[stack[m].file][stack[m].pc])
      BY <2>3, PlacesEntered
    <3> HIDE DEF M, L, m
    <3> QED BY <3>1, PlaceIs
  <2> HIDE DEF M, L, m
  <2>6. IsConf(stores, Top.conf)
    BY <2>3, TopPlace
  <2>7. CASE /\ g.by = "inject" \/ (g.by = "import" /\ g.load = NoLoad)
             /\ g.conf = Top.conf /\ stores' = stores
    <3>1. Framed(stores, M[m + 1], L[m])
      BY <2>3, <2>5, <2>7 DEF Framed
    <3>2. Accounted(M, m + 1, stores, asked, taken)
      BY <3>1, <2>3, <2>5, <2>6, <2>7, PushSame
    <3> QED BY <3>2, <2>1, <2>2, <2>3, <2>5, <2>7 DEF AccountsInv, M
  <2>8. CASE /\ g.by = "import" /\ g.load = NoLoad
             /\ g.conf = NewConfiguration(stores, v, FALSE) /\ stores' = Append(stores, v)
    <3>1. Accounted(M, m + 1, Append(stores, v), asked, taken)
      BY <2>3, <2>4, <2>5, <2>8, BeginImport
    <3> QED BY <3>1, <2>1, <2>2, <2>3, <2>5, <2>8 DEF AccountsInv, M
  <2> QED BY <2>2, <2>7, <2>8
<1> QED BY <1>1, <1>2

(* A file other than the entry point ends: what is below it. *)
LEMMA BelowIs ==
    ASSUME LoadingInv, AccountsInv, status = "running", Top.by # "run"
    PROVE  LET m == Len(stack) - 1
               M == PlacesOf(program, stack)
               L == PlacesOf(program, Below)
           IN  /\ m \in Nat \ {0} /\ Len(Below) = m /\ \A k \in 1..m : L[k] = M[k]
               /\ Accounted(M, m + 1, stores, asked, taken)
               /\ M[m + 1].by = Top.by /\ M[m + 1].conf = Top.conf /\ M[m + 1].load = Top.load
               /\ M[m + 1].stmt = program[Last(Below).file][Last(Below).pc]
               /\ M[m].conf = Last(Below).conf
<1> DEFINE m == Len(stack) - 1
           M == PlacesOf(program, stack)
           L == PlacesOf(program, Below)
<1>1. Sequence(stack) /\ Len(stack) \in Nat \ {0} /\ Top = stack[Len(stack)]
  BY TopIs DEF Top
<1>2. Len(stack) > 1
  <2>1. stack[1].by = "run"
    BY StackTop DEF Lined, Nested
  <2> QED BY <1>1, <2>1
<1>3. m \in Nat \ {0} /\ m + 1 = Len(stack)
  BY <1>1, <1>2
<1>4. Len(Below) = m /\ \A k \in 1..m : L[k] = M[k]
  BY <1>1, <1>2, PlacesLeft DEF Below
<1>5. Last(Below) = stack[Len(stack) - 1]
  BY StackTop, FileLeft
<1>6. /\ M[m + 1].by = Top.by /\ M[m + 1].conf = Top.conf /\ M[m + 1].load = Top.load
      /\ M[m + 1].stmt = program[Last(Below).file][Last(Below).pc]
  BY <1>2, <1>3, <1>5, TopIs
<1>7. M[m].conf = Last(Below).conf
  <2>1. m \in 1..Len(stack)
    BY <1>1, <1>3
  <2> QED BY <2>1, <1>5, PlaceIs DEF PlacesOf
<1>8. Accounted(M, m + 1, stores, asked, taken)
  BY <1>3 DEF AccountsInv
<1> QED BY <1>3, <1>4, <1>6, <1>7, <1>8

LEMMA BelowGoesOn ==
    ASSUME LoadingInv, AccountsInv, status = "running", Top.by # "run",
           NEW g, g.by = Last(Below).by, g.conf = Last(Below).conf, g.load = Last(Below).load,
           stack' = Append(Front(Below), g), UNCHANGED program
    PROVE  Len(stack') = Len(Below) /\ PlacesOf(program', stack') = PlacesOf(program, Below)
<1>1. Sequence(Below) /\ Below # <<>> /\ Last(Below) = Below[Len(Below)]
  BY Returns DEF Lined, Nested, Sequence
<1> QED BY <1>1, PlacesGoOn

LEMMA AccountsFinishModule ==
    ASSUME LoadingInv, AccountsInv, FinishModule
    PROVE  AccountsInv'
<1> DEFINE mods == Put(modules, Top.file, ToModule(modules, Top, Children(Top)))
           f == Last(Below)
           s == program[f.file][f.pc]
           g == Callback(f, s, mods, TRUE)
           load == Top.load
           m == Len(stack) - 1
           M == PlacesOf(program, stack)
           L == PlacesOf(program, Below)
<1>1. /\ status = "running" /\ Top.by = "load" /\ s.op \in Loading
      /\ AfterLoad(Front(Below), f, load, stores, mods, TRUE) /\ Stays(f, g) /\ UNCHANGED asked
  BY FinishModuleStays DEF FinishModule
<1> HIDE DEF mods
<1>2. /\ UNCHANGED <<program, taken>>
      /\ stores' = IF s.op = "forward" /\ load.given # NoConfiguration
                   THEN SettleForward(stores, load.adjusted, load.given, s.with) ELSE stores
      /\ \/ /\ stack' = Append(Front(Below), Advance(g))
            /\ status' = "running"
            /\ ~(load.given # NoConfiguration /\ load.given.explicit /\ ~IsEmpty(stores', load.given))
         \/ status' \notin {"running", "done"}
  BY <1>1, ErrorIs
<1>3. CASE status' \notin {"running", "done"}
  BY <1>1, <1>2, <1>3 DEF AccountsInv
<1>4. CASE status' = "running"
  <2>1. Stays(f, Advance(g))
    BY <1>1, AdvanceStays, StaysTwice DEF Stays, Same
  <2>2. Len(stack') = Len(Below) /\ PlacesOf(program', stack') = L
    BY <2>1, <1>1, <1>2, <1>4, BelowGoesOn DEF Stays, Same
  <2>3. /\ m \in Nat \ {0} /\ Len(Below) = m /\ \A k \in 1..m : L[k] = M[k]
        /\ Accounted(M, m + 1, stores, asked, taken)
        /\ M[m + 1].by = "load" /\ M[m + 1].load = load /\ M[m + 1].stmt = s
    BY <1>1, BelowIs
  <2> HIDE DEF L, M, m, g, s, f
  <2>4. LET l == M[m + 1].load
            t == M[m + 1].stmt
        IN  /\ stores' = IF t.op = "forward" /\ l.given # NoConfiguration
                         THEN SettleForward(stores, l.adjusted, l.given, t.with) ELSE stores
            /\ ~(l.given # NoConfiguration /\ l.given.explicit /\ ~IsEmpty(stores', l.given))
    BY <1>2, <1>4, <2>3
  <2>5. Accounted(L, m, stores', asked, taken)
    BY <2>3, <2>4, PopLoaded
  <2> QED BY <2>2, <2>3, <2>5, <1>1, <1>2, <1>4 DEF AccountsInv
<1> QED BY <1>2, <1>3, <1>4

LEMMA AccountsReturn ==
    ASSUME LoadingInv, AccountsInv, status = "running", Top.by \in {"inject", "import"},
           NEW g, g.by = Last(Below).by, g.conf = Last(Below).conf, g.load = Last(Below).load,
           stack' = Append(Front(Below), g), UNCHANGED <<program, stores, status, asked, taken>>
    PROVE  AccountsInv'
<1> DEFINE m == Len(stack) - 1
           M == PlacesOf(program, stack)
           L == PlacesOf(program, Below)
<1>1. Len(stack') = Len(Below) /\ PlacesOf(program', stack') = L
  BY BelowGoesOn
<1>2. /\ m \in Nat \ {0} /\ Len(Below) = m /\ \A k \in 1..m : L[k] = M[k]
      /\ Accounted(M, m + 1, stores, asked, taken) /\ M[m + 1].by # "load"
  BY BelowIs
<1> HIDE DEF L, M, m
<1>3. Accounted(L, m, stores, asked, taken)
  BY <1>2, PopQuietly
<1> QED BY <1>1, <1>2, <1>3 DEF AccountsInv

LEMMA AccountsFinishInject ==
    ASSUME LoadingInv, AccountsInv, FinishInject
    PROVE  AccountsInv'
<1> DEFINE f == Last(Below)
           g == [Top EXCEPT !.file = f.file, !.pc = f.pc, !.by = f.by, !.load = f.load]
           m == Len(stack) - 1
           M == PlacesOf(program, stack)
<1>1. /\ status = "running" /\ Top.by = "inject" /\ stack' = Append(Front(Below), Advance(g))
      /\ UNCHANGED <<program, stores, status, asked, taken>>
  BY DEF FinishInject, AtEnd
<1>2. /\ m \in Nat \ {0} /\ Accounted(M, m + 1, stores, asked, taken)
      /\ M[m + 1].by = "inject" /\ M[m + 1].conf = Top.conf /\ M[m].conf = f.conf
  BY <1>1, BelowIs
<1>3. M[m + 1].conf = M[m].conf
  <2>1. Framed(stores, M[m + 1], M[m])
    BY <1>2, TopOf
  <2> QED BY <2>1, <1>2 DEF Framed
<1>4. g.by = f.by /\ g.conf = f.conf /\ g.load = f.load
  BY <1>1, <1>2, <1>3, StackTop DEF IsFrame
<1> HIDE DEF g
<1>5. Advance(g).by = f.by /\ Advance(g).conf = f.conf /\ Advance(g).load = f.load
  BY <1>4 DEF Advance
<1> QED BY <1>1, <1>5, AccountsReturn

LEMMA AccountsFinishImport ==
    ASSUME LoadingInv, AccountsInv, FinishImport
    PROVE  AccountsInv'
<1>1. PICK g : Stays(Last(Below), g) /\ stack' = Append(Front(Below), Advance(g))
  BY FinishImportStays
<1>2. /\ status = "running" /\ Top.by = "import"
      /\ UNCHANGED <<program, stores, status, asked, taken>>
  BY FinishImportStays
<1>3. Stays(Last(Below), Advance(g))
  BY <1>1, AdvanceStays, StaysTwice DEF Stays, Same
<1> QED BY <1>1, <1>2, <1>3, AccountsReturn DEF Stays, Same

(* At the end of the entry point nothing is left in its empty configuration.*)
LEMMA AccountsFinishRun ==
    ASSUME LoadingInv, AccountsInv, FinishRun
    PROVE  AccountsInv'
<1> DEFINE m == Len(stack)
           L == PlacesOf(program, stack)
<1>1. /\ status = "running" /\ Top.by = "run" /\ status' = "done"
      /\ UNCHANGED <<asked, taken>>
  BY DEF FinishRun, AtEnd
<1>2. Accounted(L, m, stores, asked, taken) /\ m \in Nat \ {0} /\ L[m].by = "run"
  BY <1>1, TopIs DEF AccountsInv
<1> HIDE DEF L, m
<1>3. m = 1
  <2> SUFFICES ASSUME m # 1 PROVE FALSE
    OBVIOUS
  <2>1. m \in 2..m
    BY <1>2
  <2>2. Framed(stores, L[m], L[m - 1])
    BY <1>2, <2>1 DEF Accounted, Chain
  <2> QED BY <1>2, <2>2 DEF Framed
<1>4. ASSUME NEW from \in asked PROVE Used(taken, from)
  <2>1. Passed(L, m, stores, taken, 1, from)
    BY <1>2 DEF Accounted, Routed
  <2>2. L[1].conf.store = 1 /\ DOMAIN stores[1] = {}
    BY <1>2 DEF Accounted, Chain
  <2>3. \A i \in 1..m : i = 1
    BY <1>3
  <2> QED BY <2>1, <2>2, <2>3 DEF Passed, Holds
<1> QED BY <1>1, <1>4 DEF AccountsInv

LEMMA AccountsInit == Init => AccountsInv
<1> SUFFICES ASSUME Init PROVE AccountsInv
  OBVIOUS
<1> DEFINE f == Fresh(Entry, "run", EmptyConfiguration, NoLoad)
           L == PlacesOf(program, stack)
<1>1. /\ stack = <<f>> /\ stores = << <<>> >> /\ asked = {} /\ taken = <<>> /\ status = "running"
      /\ f.conf = EmptyConfiguration
  <2>1. f.conf = EmptyConfiguration
    BY LoadingConstants, FreshIs
  <2> QED BY <2>1 DEF Init
<1> HIDE DEF f
<1>2. Len(stack) = 1 /\ L[1].conf = EmptyConfiguration
  <2>1. Len(stack) = 1 /\ stack[1] = f
    BY <1>1
  <2> QED BY <1>1, <2>1, PlaceIs DEF PlacesOf
<1> HIDE DEF L
<1>3. /\ EmptyConfiguration.store = 1 /\ EmptyConfiguration.sees = <<>>
      /\ EmptyConfiguration \in Configurations
  <2>1. <<>> \in [{} -> Names]
    OBVIOUS
  <2>2. <<>> \in UNION {[S -> Names] : S \in SUBSET Names}
    <3>1. {} \in SUBSET Names
      OBVIOUS
    <3> QED BY <2>1, <3>1
  <2> QED BY <2>2 DEF EmptyConfiguration, Configurations
<1>4. IsConf(stores, EmptyConfiguration)
  <2>1. Len(stores) = 1
    BY <1>1
  <2>2. IsInjective(<<>>)
    BY DEF IsInjective
  <2> QED BY <1>3, <2>1, <2>2 DEF IsConf
<1>5. Sequence(stores) /\ Len(stores) = 1 /\ stores[1] = <<>> /\ DOMAIN stores[1] = {}
  BY <1>1 DEF Sequence
<1>6. Stored(stores, asked)
  BY <1>5 DEF Stored
<1>7. Chain(L, 1, stores)
  <2>1. \A k \in 1..1 : k = 1
    OBVIOUS
  <2>2. \A k \in 2..1 : FALSE
    OBVIOUS
  <2> QED BY <2>1, <2>2, <1>2, <1>3, <1>4, <1>5 DEF Chain
<1>8. Told(stores, taken) /\ Once(asked, taken)
  BY <1>1 DEF Told, Once, Sequence
<1>9. Accounted(L, 1, stores, asked, taken)
  BY <1>1, <1>6, <1>7, <1>8 DEF Accounted
<1> QED BY <1>1, <1>2, <1>8, <1>9 DEF AccountsInv, L

LEMMA AccountsNext == LoadingInv /\ AccountsInv /\ [Next]_vars => AccountsInv'
<1> SUFFICES ASSUME LoadingInv, AccountsInv, [Next]_vars PROVE AccountsInv'
  OBVIOUS
<1>1. CASE VisitStyleRule \/ VisitLoudComment \/ VisitStaticImport
  BY <1>1, AccountsEmit
<1>2. CASE VisitVariableDeclaration
  BY <1>2, AccountsDeclare
<1>3. CASE VisitUseRule \/ LoadCss
  BY <1>3, AccountsUse
<1>4. CASE VisitForwardRule
  BY <1>4, AccountsForward
<1>5. CASE VisitDynamicImport
  BY <1>5, AccountsImport
<1>6. CASE FinishModule
  BY <1>6, AccountsFinishModule
<1>7. CASE FinishInject
  BY <1>7, AccountsFinishInject
<1>8. CASE FinishImport
  BY <1>8, AccountsFinishImport
<1>9. CASE FinishRun
  BY <1>9, AccountsFinishRun
<1>10. CASE UNCHANGED vars
  BY <1>10 DEF vars, AccountsInv
<1> QED
  BY <1>1, <1>2, <1>3, <1>4, <1>5, <1>6, <1>7, <1>8, <1>9, <1>10 DEF Next

LEMMA OnceIs == AccountsInv => ConfiguredOnce
<1> SUFFICES ASSUME AccountsInv, NEW from \in asked
             PROVE  IF status = "done" THEN Cardinality(Uses(from)) = 1 ELSE Cardinality(Uses(from)) <= 1
  BY DEF ConfiguredOnce
<1>1. \A j, k \in Uses(from) : j = k
  BY DEF AccountsInv, Once, Uses
<1>2. CASE Uses(from) = {}
  <2>1. Cardinality(Uses(from)) = 0
    BY <1>2, FS_EmptySet
  <2>2. status # "done"
    BY <1>2 DEF AccountsInv, Used, Uses
  <2> QED BY <2>1, <2>2
<1>3. CASE Uses(from) # {}
  <2>1. PICK k : k \in Uses(from)
    BY <1>3
  <2>2. Uses(from) = {k}
    BY <2>1, <1>1
  <2>3. Cardinality(Uses(from)) = 1
    BY <2>2, FS_Singleton
  <2> QED BY <2>3
<1> QED BY <1>2, <1>3

(* A compilation that succeeds has used each value of an explicit with      *)
(* clause for exactly one variable, and before that none is used twice:     *)
(* through however many @forward rules it goes (VisitForwardRule,           *)
(* addForwardConfiguration), each of which may hand on a copy of it, and    *)
(* whatever @import and load-css come between.                              *)
THEOREM EachConfiguredOnce == Spec => []ConfiguredOnce
<1>1. Init => LoadingInv /\ AccountsInv
  BY LoadingInit, AccountsInit
<1>2. (LoadingInv /\ AccountsInv) /\ [Next]_vars => (LoadingInv /\ AccountsInv)'
  BY LoadingNext, AccountsNext
<1>3. LoadingInv /\ AccountsInv => ConfiguredOnce
  BY OnceIs
<1> QED
  BY <1>1, <1>2, <1>3, PTL DEF Spec
=============================================================================
