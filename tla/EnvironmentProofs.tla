-------------------------- MODULE EnvironmentProofs --------------------------
(***************************************************************************)
(* The caches of an environment, for every set of names, every program and *)
(* every bound: an index they hold agrees with a walk of the chain.        *)
(*                                                                         *)
(* What makes it so is who shares which scope.  Of the scopes of a frame   *)
(* on the visitor's stack, those it opened itself are in the chain of no   *)
(* frame below it; what it declares in one of the others was there before, *)
(* or is in the root scope, or the name is bypassed.                       *)
(***************************************************************************)
EXTENDS Environment, FiniteSetTheorems, SequenceTheorems, TLAPS

-----------------------------------------------------------------------------
(* What the variables hold *)

Tables == {"vars", "callables"}
Chains ==
    {s \in Seq(ScopeIds) :
        /\ Len(s) >= 1 /\ s[1] = 1
        /\ \A p, q \in 1 .. Len(s) : s[p] = s[q] => p = q}
EnvRecords ==
    [scopes : Chains, idx : [Names -> Nat], cidx : [Names -> Nat],
     last : [name : Names \cup {""}, index : Nat], semi : BOOLEAN,
     nested : [arr : Nat, len : Nat], forwards : {"nil", "none", "some"}]
BlockRecords == [flow : BOOLEAN, scope : BOOLEAN, semi : BOOLEAN]
Frames == [kind : {"main", "callable", "import"}, blocks : Seq(BlockRecords), env : EnvRecords]
Heaps == [ScopeIds -> [vars : SUBSET Names, callables : SUBSET Names]]

(* Entering the blocks has taken a frame from "base" scopes to "depth". *)
Levels(blocks, base, depth) ==
    \E level \in [0 .. Len(blocks) -> Nat] :
        /\ level[0] = base
        /\ level[Len(blocks)] = depth
        /\ \A i \in 0 .. Len(blocks) : level[i] >= base
        /\ \A i \in 1 .. Len(blocks) :
              level[i] = level[i - 1] + (IF blocks[i].scope THEN 1 ELSE 0)

(* The first "shared" scopes of a frame's chain were there when the frame began;
   the others are in no chain of a frame below. *)
Opened(run, k, shared) ==
    /\ Levels(run[k].blocks, shared + (IF run[k].kind = "callable" THEN 1 ELSE 0),
              Len(run[k].env.scopes))
    /\ \A j \in 1 .. k - 1 : \A p \in 1 .. Len(run[k].env.scopes) :
          p > shared => \A q \in 1 .. Len(run[j].env.scopes) :
                            run[k].env.scopes[p] # run[j].env.scopes[q]
Stacked(run) ==
    /\ run \in Seq(Frames) /\ Len(run) >= 1
    /\ \A k \in 1 .. Len(run) : run[k].kind = "main" <=> k = 1
    /\ \A k \in 1 .. Len(run) : \E shared \in Nat \ {0} : Opened(run, k, shared)

(* Names the modules an imported file forwarded may answer for: the root scope
   need not hold them, although an index says so. *)
Loose(imp) == IF imp THEN Forwarded ELSE {}
(* An index is no higher than the scope it names and no scope above declares
   the name. *)
Agrees(h, s, table, n, i, loose) ==
    \/ i = 0
    \/ /\ i \in 1 .. Len(s)
       /\ i > 1 \/ n \notin loose => n \in h[s[i]][table]
       /\ \A p \in 1 .. Len(s) : n \in h[s[p]][table] => p <= i
CachesOf(h, e, n, loose) ==
    /\ Agrees(h, e.scopes, "vars", n, e.idx[n], loose)
    /\ Agrees(h, e.scopes, "callables", n, e.cidx[n], loose)
    /\ e.last.name = n => /\ e.last.index # 0
                          /\ Agrees(h, e.scopes, "vars", n, e.last.index, loose)
Forgetful(e) ==
    e.last.name = "" /\ \A n \in Names : e.idx[n] = 0 /\ e.cidx[n] = 0

In(s, e) == \E p \in 1 .. Len(e.scopes) : e.scopes[p] = s

(* The backing array of nestedForwardedModules has a slot for every scope but the
   root; one holds a module only when the names it forwards are bypassed. *)
Backed(e, arr) ==
    e.nested = Nil \/ /\ e.nested.arr \in ArrayIds
                      /\ e.nested.len = Len(e.scopes) - 1
                      /\ e.nested.len <= Len(arr[e.nested.arr])
                      /\ Len(arr[e.nested.arr]) >= 1
Empty(arr) == \A a \in ArrayIds : \A i \in 1 .. Len(arr[a]) : ~arr[a][i]
ArraysOf(live, arr, byp) ==
    /\ arr \in [ArrayIds -> Seq(BOOLEAN)]
    /\ \A e \in live : Backed(e, arr)
    /\ Forwarded \subseteq byp \/ Empty(arr)

IInv ==
    /\ heap \in Heaps /\ imported \in BOOLEAN /\ bypassed \subseteq Names
    /\ Stacked(running)
    /\ template # NoEnv => template \in EnvRecords /\ Forgetful(template)
    /\ \A s \in ScopeIds : (\A e \in Envs : ~In(s, e)) => heap[s] = Blank
    /\ \A e \in Envs : \A n \in Names \ bypassed : CachesOf(heap, e, n, Loose(imported))
    /\ ArraysOf(Envs, arrays, bypassed)
-----------------------------------------------------------------------------
(* Greatest and least elements *)

LEMMA HasExtremes ==
  ASSUME NEW N \in Nat, NEW S \in SUBSET (1 .. N), S # {}
  PROVE  /\ Max(S) \in S /\ \A y \in S : y <= Max(S)
         /\ Min(S) \in S /\ \A y \in S : Min(S) <= y
<1> DEFINE Above(x) == {y \in S : y > x}
           Below(x) == {y \in S : y < x}
           A == {Above(x) : x \in S}
           B == {Below(x) : x \in S}
<1>0. S \subseteq Int
  OBVIOUS
<1>1. IsFiniteSet(S)
  <2>1. IsFiniteSet(1 .. N)
    BY FS_Interval
  <2> QED BY <2>1, FS_Subset
<1>2. A \subseteq FiniteSubsetsOf(S) /\ A # {} /\ B \subseteq FiniteSubsetsOf(S) /\ B # {}
  <2>1. ASSUME NEW T, T \subseteq S PROVE T \in FiniteSubsetsOf(S)
    BY <1>1, <2>1, FS_Subset DEF FiniteSubsetsOf
  <2> QED BY <2>1
<1>3. PICK a \in A : \A y \in A : <<y, a>> \notin StrictSubsetOrdering(S)
  <2> HIDE DEF A
  <2> QED BY <1>2, FS_StrictSubsetOrderingWellFounded, WFMin, Zenon
<1>4. PICK b \in B : \A y \in B : <<y, b>> \notin StrictSubsetOrdering(S)
  <2> HIDE DEF B
  <2> QED BY <1>2, FS_StrictSubsetOrderingWellFounded, WFMin, Zenon
<1>5. PICK top \in S : a = Above(top)
  BY <1>3
<1>6. PICK low \in S : b = Below(low)
  BY <1>4
<1>7. \A y \in S : y <= top
  <2>1. SUFFICES ASSUME NEW y \in S, y > top PROVE FALSE
    OBVIOUS
  <2>2. Above(y) \in A /\ y \in a /\ y \notin Above(y) /\ a \subseteq S
    <3>1. y \in Int /\ top \in Int
      BY <1>0, <2>1
    <3> QED BY <3>1, <1>5, <2>1
  <2>0. Above(y) \subseteq a
    <3>1. SUFFICES ASSUME NEW z \in Above(y) PROVE z \in Above(top)
      BY <1>5
    <3>2. z \in S /\ z \in Int /\ y \in Int /\ top \in Int
      BY <1>0, <2>1
    <3> QED BY <3>1, <3>2, <2>1
  <2>3. <<Above(y), a>> \in StrictSubsetOrdering(S)
    BY <2>0, <2>2 DEF StrictSubsetOrdering
  <2> QED BY <1>3, <2>2, <2>3
<1>8. \A y \in S : low <= y
  <2>1. SUFFICES ASSUME NEW y \in S, y < low PROVE FALSE
    OBVIOUS
  <2>2. Below(y) \in B /\ y \in b /\ y \notin Below(y) /\ b \subseteq S
    <3>1. y \in Int /\ low \in Int
      BY <1>0, <2>1
    <3> QED BY <3>1, <1>6, <2>1
  <2>0. Below(y) \subseteq b
    <3>1. SUFFICES ASSUME NEW z \in Below(y) PROVE z \in Below(low)
      BY <1>6
    <3>2. z \in S /\ z \in Int /\ y \in Int /\ low \in Int
      BY <1>0, <2>1
    <3> QED BY <3>1, <3>2, <2>1
  <2>3. <<Below(y), b>> \in StrictSubsetOrdering(S)
    BY <2>0, <2>2 DEF StrictSubsetOrdering
  <2> QED BY <1>4, <2>2, <2>3
<1>9. Max(S) \in S /\ \A y \in S : Max(S) >= y
  BY <1>7 DEF Max
<1>10. Min(S) \in S /\ \A y \in S : Min(S) <= y
  BY <1>8 DEF Min
<1> QED BY <1>9, <1>10

LEMMA ChainType ==
  ASSUME NEW s \in Chains
  PROVE  /\ s \in Seq(ScopeIds) /\ Len(s) \in Nat /\ Len(s) >= 1 /\ DOMAIN s = 1 .. Len(s)
         /\ s[1] = 1 /\ \A p \in 1 .. Len(s) : s[p] \in ScopeIds
         /\ \A p, q \in 1 .. Len(s) : s[p] = s[q] => p = q
<1>1. s \in Seq(ScopeIds) /\ Len(s) >= 1 /\ s[1] = 1
      /\ \A p, q \in 1 .. Len(s) : s[p] = s[q] => p = q
  BY DEF Chains
<1>2. Len(s) \in Nat /\ DOMAIN s = 1 .. Len(s) /\ \A p \in 1 .. Len(s) : s[p] \in ScopeIds
  BY <1>1
<1> QED BY <1>1, <1>2

LEMMA EnvType ==
  ASSUME NEW e \in EnvRecords
  PROVE  /\ e.scopes \in Chains /\ e.idx \in [Names -> Nat] /\ e.cidx \in [Names -> Nat]
         /\ e.last \in [name : Names \cup {""}, index : Nat] /\ e.semi \in BOOLEAN
         /\ e.nested \in [arr : Nat, len : Nat] /\ e.forwards \in {"nil", "none", "some"}
BY DEF EnvRecords

LEMMA WalkIs ==
  ASSUME NEW e \in EnvRecords, NEW table \in Tables, NEW n
  PROVE  /\ Walk(e, table, n) \in 0 .. Len(e.scopes)
         /\ Walk(e, table, n) = 0 => \A p \in 1 .. Len(e.scopes) : n \notin heap[e.scopes[p]][table]
         /\ Walk(e, table, n) # 0 =>
              /\ n \in heap[e.scopes[Walk(e, table, n)]][table]
              /\ \A p \in 1 .. Len(e.scopes) :
                    n \in heap[e.scopes[p]][table] => p <= Walk(e, table, n)
<1> DEFINE holders == {i \in DOMAIN e.scopes : n \in heap[e.scopes[i]][table]}
<1>1. Len(e.scopes) \in Nat /\ DOMAIN e.scopes = 1 .. Len(e.scopes)
  BY EnvType, ChainType
<1>2. CASE holders = {}
  BY <1>1, <1>2 DEF Walk
<1>3. CASE holders # {}
  <2>1. Walk(e, table, n) = Max(holders)
    BY <1>3 DEF Walk
  <2>2. Max(holders) \in holders /\ \A y \in holders : y <= Max(holders)
    BY <1>1, <1>3, HasExtremes
  <2> QED BY <1>1, <2>1, <2>2
<1> QED BY <1>2, <1>3

-----------------------------------------------------------------------------
(* The stack of frames *)

LEMMA LastAndFront ==
  ASSUME NEW T, NEW s \in Seq(T), s # <<>>
  PROVE  /\ Len(s) \in Nat \ {0} /\ Last(s) = s[Len(s)] /\ Last(s) \in T
         /\ Front(s) \in Seq(T) /\ Len(Front(s)) = Len(s) - 1
         /\ \A i \in 1 .. Len(s) - 1 : Front(s)[i] = s[i]
BY DEF Last, Front

LEMMA LevelsEnter ==
  ASSUME NEW blocks \in Seq(BlockRecords), NEW b \in BlockRecords, NEW base \in Nat, NEW depth \in Nat,
         Levels(blocks, base, depth)
  PROVE  Levels(Append(blocks, b), base, depth + (IF b.scope THEN 1 ELSE 0))
<1> DEFINE m == Len(blocks)
           new == Append(blocks, b)
           up == IF b.scope THEN 1 ELSE 0
<1>1. PICK level \in [0 .. m -> Nat] :
        /\ level[0] = base
        /\ level[m] = depth
        /\ \A i \in 0 .. m : level[i] >= base
        /\ \A i \in 1 .. m : level[i] = level[i - 1] + (IF blocks[i].scope THEN 1 ELSE 0)
  BY DEF Levels
<1>2. m \in Nat /\ Len(new) = m + 1 /\ new[m + 1] = b /\ \A i \in 1 .. m : new[i] = blocks[i]
  OBVIOUS
<1>3. up \in {0, 1}
  OBVIOUS
<1> HIDE DEF m, new, up
<1> DEFINE next == [i \in 0 .. m + 1 |-> IF i <= m THEN level[i] ELSE depth + up]
<1>4. next \in [0 .. m + 1 -> Nat]
  BY <1>2, <1>3
<1>5. next[0] = base /\ next[m + 1] = depth + up
  BY <1>1, <1>2
<1>6. \A i \in 0 .. m + 1 : next[i] >= base
  BY <1>1, <1>2, <1>3
<1>7. ASSUME NEW i \in 1 .. m + 1
      PROVE  next[i] = next[i - 1] + (IF new[i].scope THEN 1 ELSE 0)
  <2>1. CASE i <= m
    <3>1. i \in 1 .. m /\ i - 1 \in 0 .. m /\ next[i] = level[i] /\ next[i - 1] = level[i - 1]
      BY <1>2, <2>1
    <3> QED BY <1>1, <1>2, <3>1
  <2>2. CASE i = m + 1
    <3>1. next[i] = depth + up /\ next[i - 1] = depth
      BY <1>1, <1>2, <2>2
    <3> QED BY <1>2, <2>2, <3>1 DEF up
  <2> QED BY <1>2, <2>1, <2>2
<1>8. Levels(new, base, depth + up)
  <2> HIDE DEF next
  <2> QED BY <1>2, <1>4, <1>5, <1>6, <1>7 DEF Levels
<1> QED BY <1>8 DEF new, up

LEMMA LevelsLeave ==
  ASSUME NEW blocks \in Seq(BlockRecords), blocks # <<>>, NEW base \in Nat, NEW depth \in Nat,
         Levels(blocks, base, depth)
  PROVE  /\ Levels(Front(blocks), base, depth - (IF Last(blocks).scope THEN 1 ELSE 0))
         /\ depth - (IF Last(blocks).scope THEN 1 ELSE 0) >= base
<1> DEFINE m == Len(blocks)
           old == Front(blocks)
           down == IF Last(blocks).scope THEN 1 ELSE 0
<1>1. PICK level \in [0 .. m -> Nat] :
        /\ level[0] = base
        /\ level[m] = depth
        /\ \A i \in 0 .. m : level[i] >= base
        /\ \A i \in 1 .. m : level[i] = level[i - 1] + (IF blocks[i].scope THEN 1 ELSE 0)
  BY DEF Levels
<1>2. m \in Nat \ {0} /\ Len(old) = m - 1 /\ \A i \in 1 .. m - 1 : old[i] = blocks[i]
  BY LastAndFront
<1>3. down \in {0, 1} /\ level[m] = level[m - 1] + down
  <2>1. m \in 1 .. m /\ Last(blocks) = blocks[m]
    <3>1. Last(blocks) = blocks[m]
      BY LastAndFront
    <3>2. m \in 1 .. m
      BY <1>2
    <3> QED BY <3>1, <3>2
  <2>2. level[m] = level[m - 1] + (IF blocks[m].scope THEN 1 ELSE 0)
    BY <1>1, <2>1
  <2> QED BY <2>1, <2>2
<1> HIDE DEF m, old, down
<1> DEFINE next == [i \in 0 .. m - 1 |-> level[i]]
<1>4. next \in [0 .. m - 1 -> Nat] /\ next[0] = base
  BY <1>1, <1>2
<1>5. next[m - 1] = depth - down /\ depth - down >= base
  BY <1>1, <1>2, <1>3
<1>6. \A i \in 0 .. m - 1 : next[i] >= base
  BY <1>1, <1>2
<1>7. ASSUME NEW i \in 1 .. m - 1
      PROVE  next[i] = next[i - 1] + (IF old[i].scope THEN 1 ELSE 0)
  <2>1. i \in 1 .. m /\ next[i] = level[i] /\ next[i - 1] = level[i - 1]
    BY <1>2
  <2> QED BY <1>1, <1>2, <2>1
<1>8. Levels(old, base, depth - down)
  <2> HIDE DEF next
  <2> QED BY <1>2, <1>4, <1>5, <1>6, <1>7 DEF Levels
<1> QED BY <1>5, <1>8 DEF old, down

LEMMA LevelsNone ==
  ASSUME NEW base \in Nat, NEW depth \in Nat
  PROVE  Levels(<<>>, base, depth) <=> depth = base
<1>1. Len(<<>>) = 0 /\ 1 .. 0 = {} /\ 0 .. 0 = {0}
  OBVIOUS
<1>2. ASSUME Levels(<<>>, base, depth) PROVE depth = base
  BY <1>1, <1>2 DEF Levels
<1>3. ASSUME depth = base PROVE Levels(<<>>, base, depth)
  <2> DEFINE level == [i \in 0 .. 0 |-> base]
  <2>1. level \in [0 .. Len(<<>>) -> Nat] /\ level[0] = base /\ \A i \in 0 .. Len(<<>>) : level[i] >= base
    BY <1>1
  <2> HIDE DEF level
  <2> QED BY <1>1, <1>3, <2>1 DEF Levels
<1> QED BY <1>2, <1>3

(* The frames, and that of its own scopes a frame has the top one when it stands
   in a block that opened one, or at the start of a callable. *)
LEMMA StackTypes ==
  ASSUME NEW run, Stacked(run)
  PROVE  /\ run \in Seq(Frames) /\ run # <<>> /\ Len(run) \in Nat \ {0} /\ Last(run) = run[Len(run)]
         /\ \A k \in 1 .. Len(run) :
              /\ run[k] \in Frames /\ run[k].kind \in {"main", "callable", "import"}
              /\ run[k].blocks \in Seq(BlockRecords) /\ run[k].env \in EnvRecords
              /\ run[k].kind = "main" <=> k = 1
<1>1. run \in Seq(Frames) /\ Len(run) >= 1
  BY DEF Stacked
<1>2. run # <<>> /\ Len(run) \in Nat \ {0} /\ Last(run) = run[Len(run)]
  BY <1>1 DEF Last
<1>3. \A k \in 1 .. Len(run) : run[k] \in Frames
  BY <1>1
<1>4. ASSUME NEW f \in Frames
      PROVE  /\ f.kind \in {"main", "callable", "import"}
             /\ f.blocks \in Seq(BlockRecords) /\ f.env \in EnvRecords
  BY DEF Frames
<1> QED BY <1>1, <1>2, <1>3, <1>4 DEF Stacked

LEMMA TopIsOwn ==
  ASSUME NEW run, Stacked(run), NEW k \in 1 .. Len(run), NEW shared \in Nat \ {0}, Opened(run, k, shared)
  PROVE  /\ Len(run[k].env.scopes) >= shared
         /\ run[k].blocks = <<>> =>
              Len(run[k].env.scopes) = shared + (IF run[k].kind = "callable" THEN 1 ELSE 0)
         /\ run[k].blocks # <<>> /\ Last(run[k].blocks).scope => Len(run[k].env.scopes) > shared
<1> DEFINE blocks == run[k].blocks
           depth == Len(run[k].env.scopes)
           base == shared + (IF run[k].kind = "callable" THEN 1 ELSE 0)
<1>1. blocks \in Seq(BlockRecords) /\ run[k].env \in EnvRecords
  BY StackTypes
<1>2. depth \in Nat
  BY <1>1, EnvType, ChainType
<1>3. base \in Nat /\ base >= shared
  OBVIOUS
<1>4. Levels(blocks, base, depth)
  BY DEF Opened
<1> HIDE DEF blocks, depth, base
<1>5. CASE blocks = <<>>
  <2>1. depth = base
    BY <1>2, <1>3, <1>4, <1>5, LevelsNone
  <2> QED BY <1>3, <1>5, <2>1 DEF blocks, depth, base
<1>6. CASE blocks # <<>>
  <2>1. depth - (IF Last(blocks).scope THEN 1 ELSE 0) >= base
    BY <1>1, <1>2, <1>3, <1>4, <1>6, LevelsLeave
  <2>2. depth >= shared /\ (Last(blocks).scope => depth > shared)
    BY <1>2, <1>3, <2>1
  <2> QED BY <1>6, <2>2 DEF blocks, depth, base
<1> QED BY <1>5, <1>6

(* The top frame gets another environment and other blocks. *)
Replaces(new, run, e, blocks) ==
    /\ new \in Seq(Frames) /\ Len(new) = Len(run)
    /\ new[Len(run)].kind = run[Len(run)].kind
    /\ new[Len(run)].env = e /\ new[Len(run)].blocks = blocks
    /\ \A k \in 1 .. Len(run) - 1 : new[k] = run[k]

LEMMA WithTopReplaces ==
  ASSUME Stacked(running), NEW e \in EnvRecords, NEW blocks \in Seq(BlockRecords)
  PROVE  Replaces(WithTop(e, blocks), running, e, blocks)
<1> DEFINE m == Len(running)
<1>1. running \in Seq(Frames) /\ m \in Nat \ {0} /\ running[m] \in Frames
  BY StackTypes
<1>2. ASSUME NEW f \in Frames PROVE [[f EXCEPT !.env = e] EXCEPT !.blocks = blocks] \in Frames
  BY DEF Frames
<1>3. ASSUME NEW f \in Frames
      PROVE  LET g == [[f EXCEPT !.env = e] EXCEPT !.blocks = blocks]
             IN  g.kind = f.kind /\ g.env = e /\ g.blocks = blocks
  BY DEF Frames
<1> DEFINE top == [[running[m] EXCEPT !.env = e] EXCEPT !.blocks = blocks]
<1>4. WithTop(e, blocks) = [running EXCEPT ![m] = top]
  BY <1>1 DEF WithTop, Frames
<1> HIDE DEF top
<1>5. top \in Frames /\ top.kind = running[m].kind /\ top.env = e /\ top.blocks = blocks
  BY <1>1, <1>2, <1>3 DEF top
<1> QED BY <1>1, <1>4, <1>5 DEF Replaces

LEMMA WithEnvReplaces ==
  ASSUME NEW run, Stacked(run), NEW e \in EnvRecords
  PROVE  Replaces([run EXCEPT ![Len(run)].env = e], run, e, run[Len(run)].blocks)
<1> DEFINE m == Len(run)
           top == [run[m] EXCEPT !.env = e]
<1>1. run \in Seq(Frames) /\ m \in Nat \ {0} /\ run[m] \in Frames
  BY StackTypes
<1>2. [run EXCEPT ![m].env = e] = [run EXCEPT ![m] = top]
  OBVIOUS
<1>3. top \in Frames /\ top.kind = run[m].kind /\ top.env = e /\ top.blocks = run[m].blocks
  BY <1>1 DEF Frames
<1> HIDE DEF top
<1> QED BY <1>1, <1>2, <1>3 DEF Replaces

LEMMA OpenedKept ==
  ASSUME NEW run, NEW new, NEW k, NEW shared, Opened(run, k, shared),
         new[k] = run[k], \A j \in 1 .. k - 1 : new[j] = run[j]
  PROVE  Opened(new, k, shared)
<1>1. /\ Levels(run[k].blocks, shared + (IF run[k].kind = "callable" THEN 1 ELSE 0),
                 Len(run[k].env.scopes))
      /\ \A j \in 1 .. k - 1 : \A p \in 1 .. Len(run[k].env.scopes) :
            p > shared => \A q \in 1 .. Len(run[j].env.scopes) :
                              run[k].env.scopes[p] # run[j].env.scopes[q]
  BY DEF Opened
<1>2. ASSUME NEW j \in 1 .. k - 1, NEW p \in 1 .. Len(new[k].env.scopes), p > shared,
             NEW q \in 1 .. Len(new[j].env.scopes)
      PROVE  new[k].env.scopes[p] # new[j].env.scopes[q]
  <2>1. new[j] = run[j]
    OBVIOUS
  <2> QED BY <1>1, <1>2, <2>1
<1> QED BY <1>1, <1>2 DEF Opened

LEMMA StackedReplaced ==
  ASSUME NEW run, Stacked(run), NEW e \in EnvRecords, NEW blocks \in Seq(BlockRecords),
         NEW new, Replaces(new, run, e, blocks),
         NEW shared \in Nat \ {0}, Opened(run, Len(run), shared),
         Levels(blocks, shared + (IF run[Len(run)].kind = "callable" THEN 1 ELSE 0), Len(e.scopes)),
         \A p \in 1 .. Len(e.scopes) : p > shared =>
            \/ p <= Len(run[Len(run)].env.scopes) /\ e.scopes[p] = run[Len(run)].env.scopes[p]
            \/ \A j \in 1 .. Len(run) - 1 : \A q \in 1 .. Len(run[j].env.scopes) :
                  e.scopes[p] # run[j].env.scopes[q]
  PROVE  Stacked(new)
<1> DEFINE m == Len(run)
<1>1. /\ run \in Seq(Frames) /\ m \in Nat \ {0}
      /\ \A k \in 1 .. m : run[k].kind = "main" <=> k = 1
  BY StackTypes
<1>2. /\ new \in Seq(Frames) /\ Len(new) = m
      /\ new[m].kind = run[m].kind /\ new[m].env = e /\ new[m].blocks = blocks
      /\ \A k \in 1 .. m - 1 : new[k] = run[k]
  BY DEF Replaces
<1>3. \A k \in 1 .. m : new[k].kind = "main" <=> k = 1
  BY <1>1, <1>2
<1>4. Opened(new, m, shared)
  <2>1. ASSUME NEW j \in 1 .. m - 1, NEW p \in 1 .. Len(e.scopes), p > shared,
               NEW q \in 1 .. Len(run[j].env.scopes)
        PROVE  e.scopes[p] # run[j].env.scopes[q]
    <3>1. CASE p <= Len(run[m].env.scopes) /\ e.scopes[p] = run[m].env.scopes[p]
      <4>1. Len(run[m].env.scopes) \in Nat /\ Len(e.scopes) \in Nat
        <5>1. m \in 1 .. m
          BY <1>1
        <5>2. run[m].env \in EnvRecords
          BY <5>1, StackTypes
        <5> QED BY <5>2, EnvType, ChainType
      <4>2. p \in 1 .. Len(run[m].env.scopes)
        BY <3>1, <4>1
      <4> QED BY <2>1, <3>1, <4>2 DEF Opened
    <3> QED BY <2>1, <3>1
  <2>2. \A j \in 1 .. m - 1 : new[j].env = run[j].env
    BY <1>2
  <2> QED BY <1>2, <2>1, <2>2 DEF Opened
<1>5. ASSUME NEW k \in 1 .. m - 1 PROVE \E s \in Nat \ {0} : Opened(new, k, s)
  <2>1. k \in 1 .. m
    BY <1>1
  <2>2. PICK s \in Nat \ {0} : Opened(run, k, s)
    BY <2>1 DEF Stacked
  <2>3. new[k] = run[k] /\ \A j \in 1 .. k - 1 : new[j] = run[j]
    BY <1>1, <1>2
  <2> QED BY <2>2, <2>3, OpenedKept
<1>6. \A k \in 1 .. m : \E s \in Nat \ {0} : Opened(new, k, s)
  <2>1. \A k \in 1 .. m : k = m \/ k \in 1 .. m - 1
    BY <1>1
  <2> QED BY <1>4, <1>5, <2>1
<1> QED BY <1>1, <1>2, <1>3, <1>6 DEF Stacked

LEMMA StackedSame ==
  ASSUME NEW run, Stacked(run), NEW e \in EnvRecords, e.scopes = run[Len(run)].env.scopes,
         NEW new, Replaces(new, run, e, run[Len(run)].blocks)
  PROVE  Stacked(new)
<1> DEFINE m == Len(run)
<1>1. m \in 1 .. m /\ run[m].blocks \in Seq(BlockRecords) /\ Len(e.scopes) \in Nat
  <2>1. m \in Nat \ {0}
    BY StackTypes
  <2>2. m \in 1 .. m
    BY <2>1
  <2>3. run[m].blocks \in Seq(BlockRecords)
    BY <2>2, StackTypes
  <2> QED BY <2>2, <2>3, EnvType, ChainType
<1>2. PICK shared \in Nat \ {0} : Opened(run, m, shared)
  BY <1>1 DEF Stacked
<1>3. Levels(run[m].blocks, shared + (IF run[m].kind = "callable" THEN 1 ELSE 0), Len(e.scopes))
  BY <1>2 DEF Opened
<1>4. \A p \in 1 .. Len(e.scopes) : p <= Len(run[m].env.scopes) /\ e.scopes[p] = run[m].env.scopes[p]
  BY <1>1
<1> QED BY <1>1, <1>2, <1>3, <1>4, StackedReplaced

LEMMA StackedPushed ==
  ASSUME NEW run, Stacked(run), NEW f \in Frames, f.kind # "main", f.blocks = <<>>,
         NEW shared \in Nat \ {0},
         Len(f.env.scopes) = shared + (IF f.kind = "callable" THEN 1 ELSE 0),
         \A j \in 1 .. Len(run) : \A p \in 1 .. Len(f.env.scopes) :
            p > shared => \A q \in 1 .. Len(run[j].env.scopes) : f.env.scopes[p] # run[j].env.scopes[q]
  PROVE  Stacked(Append(run, f))
<1> DEFINE m == Len(run)
           new == Append(run, f)
<1>1. /\ run \in Seq(Frames) /\ m \in Nat \ {0}
      /\ \A k \in 1 .. m : run[k].kind = "main" <=> k = 1
  BY StackTypes
<1>2. /\ new \in Seq(Frames) /\ Len(new) = m + 1 /\ new[m + 1] = f
      /\ \A k \in 1 .. m : new[k] = run[k]
  BY <1>1
<1> HIDE DEF new
<1>3. \A k \in 1 .. m + 1 : k = m + 1 \/ k \in 1 .. m
  BY <1>1
<1>4. \A k \in 1 .. m + 1 : new[k].kind = "main" <=> k = 1
  BY <1>1, <1>2, <1>3
<1>5. Opened(new, m + 1, shared)
  <2>1. shared + (IF f.kind = "callable" THEN 1 ELSE 0) \in Nat
    OBVIOUS
  <2>2. Levels(<<>>, shared + (IF f.kind = "callable" THEN 1 ELSE 0), Len(f.env.scopes))
    BY <2>1, LevelsNone
  <2>3. (m + 1) - 1 = m
    BY <1>1
  <2> QED BY <1>2, <2>2, <2>3 DEF Opened
<1>6. ASSUME NEW k \in 1 .. m PROVE \E s \in Nat \ {0} : Opened(new, k, s)
  <2>1. PICK s \in Nat \ {0} : Opened(run, k, s)
    BY DEF Stacked
  <2>2. new[k] = run[k] /\ \A j \in 1 .. k - 1 : new[j] = run[j]
    BY <1>1, <1>2
  <2> QED BY <2>1, <2>2, OpenedKept
<1>7. \A k \in 1 .. m + 1 : \E s \in Nat \ {0} : Opened(new, k, s)
  BY <1>3, <1>5, <1>6
<1>8. Len(new) >= 1
  BY <1>1, <1>2
<1> QED BY <1>2, <1>4, <1>7, <1>8 DEF Stacked, new

LEMMA StackedPopped ==
  ASSUME NEW run, Stacked(run), Last(run).kind # "main"
  PROVE  /\ Stacked(Front(run)) /\ Len(run) >= 2 /\ Len(Front(run)) = Len(run) - 1
         /\ \A k \in 1 .. Len(run) - 1 : Front(run)[k] = run[k]
<1> DEFINE m == Len(run)
           new == Front(run)
<1>1. /\ run \in Seq(Frames) /\ m \in Nat \ {0} /\ run # <<>> /\ Last(run) = run[m]
      /\ \A k \in 1 .. m : run[k].kind = "main" <=> k = 1
  BY StackTypes
<1>2. m >= 2
  BY <1>1
<1>3. /\ new \in Seq(Frames) /\ Len(new) = m - 1
      /\ \A k \in 1 .. m - 1 : new[k] = run[k]
  BY <1>1, LastAndFront
<1> HIDE DEF new
<1>4. \A k \in 1 .. m - 1 : new[k].kind = "main" <=> k = 1
  BY <1>1, <1>3
<1>5. ASSUME NEW k \in 1 .. m - 1 PROVE \E s \in Nat \ {0} : Opened(new, k, s)
  <2>1. k \in 1 .. m
    BY <1>1
  <2>2. PICK s \in Nat \ {0} : Opened(run, k, s)
    BY <2>1 DEF Stacked
  <2>3. new[k] = run[k] /\ \A j \in 1 .. k - 1 : new[j] = run[j]
    BY <1>1, <1>3
  <2> QED BY <2>2, <2>3, OpenedKept
<1>6. Stacked(new)
  BY <1>2, <1>3, <1>4, <1>5 DEF Stacked
<1> QED BY <1>2, <1>3, <1>6 DEF new

(* The environments in use. *)
LEMMA LiveIs ==
  ASSUME NEW run \in Seq(Frames), NEW tmpl, NEW e
  PROVE  e \in Live(run, tmpl) <=> \/ \E k \in 1 .. Len(run) : e = run[k].env
                                   \/ tmpl # NoEnv /\ e = tmpl
BY DEF Live

LEMMA LiveReplaced ==
  ASSUME NEW run, Stacked(run), NEW e, NEW blocks, NEW new, Replaces(new, run, e, blocks),
         NEW tmpl, NEW x \in Live(new, tmpl)
  PROVE  \/ x = e
         \/ \E k \in 1 .. Len(run) - 1 : x = run[k].env
         \/ tmpl # NoEnv /\ x = tmpl
<1>1. new \in Seq(Frames) /\ Len(new) = Len(run) /\ Len(run) \in Nat \ {0}
      /\ new[Len(run)].env = e /\ \A k \in 1 .. Len(run) - 1 : new[k] = run[k]
  BY StackTypes DEF Replaces
<1>2. CASE tmpl # NoEnv /\ x = tmpl
  BY <1>2
<1>3. ASSUME NEW k \in 1 .. Len(run), x = new[k].env
      PROVE  x = e \/ \E j \in 1 .. Len(run) - 1 : x = run[j].env
  <2>1. CASE k = Len(run)
    BY <1>1, <1>3, <2>1
  <2>2. CASE k # Len(run)
    <3>1. k \in 1 .. Len(run) - 1
      BY <1>1, <2>2
    <3> QED BY <1>1, <1>3, <3>1
  <2> QED BY <2>1, <2>2
<1> QED BY <1>1, <1>2, <1>3, LiveIs

LEMMA LiveTypes ==
  ASSUME NEW run, Stacked(run), NEW tmpl, tmpl # NoEnv => tmpl \in EnvRecords, NEW e \in Live(run, tmpl)
  PROVE  e \in EnvRecords
BY StackTypes, LiveIs

-----------------------------------------------------------------------------
(* The end of a step: what no environment refers to is garbage. *)

LEMMA RangeIs ==
  ASSUME NEW e \in EnvRecords, NEW s
  PROVE  s \in Range(e.scopes) <=> In(s, e)
<1>1. DOMAIN e.scopes = 1 .. Len(e.scopes)
  BY EnvType, ChainType
<1> QED BY <1>1 DEF Range, In

LEMMA AgreesOnChain ==
  ASSUME NEW s \in Chains, NEW h, NEW h2, \A p \in 1 .. Len(s) : h2[s[p]] = h[s[p]],
         NEW table, NEW n, NEW i, NEW loose, Agrees(h, s, table, n, i, loose)
  PROVE  Agrees(h2, s, table, n, i, loose)
BY DEF Agrees

LEMMA CachesOnChain ==
  ASSUME NEW e \in EnvRecords, NEW h, NEW h2, \A p \in 1 .. Len(e.scopes) : h2[e.scopes[p]] = h[e.scopes[p]],
         NEW n, NEW loose, CachesOf(h, e, n, loose)
  PROVE  CachesOf(h2, e, n, loose)
BY EnvType, AgreesOnChain DEF CachesOf

LEMMA HeapsType ==
  ASSUME NEW h \in Heaps, NEW s \in ScopeIds
  PROVE  h[s] \in [vars : SUBSET Names, callables : SUBSET Names]
         /\ h[s].vars \subseteq Names /\ h[s].callables \subseteq Names
         /\ h[s]["vars"] = h[s].vars /\ h[s]["callables"] = h[s].callables
BY DEF Heaps

LEMMA BlankType == Blank \in [vars : SUBSET Names, callables : SUBSET Names]
BY DEF Blank

LEMMA Becomes ==
  ASSUME NEW run, NEW tmpl, NEW h \in Heaps, NEW arr, Become(run, tmpl, h, arr),
         Stacked(run), tmpl # NoEnv => tmpl \in EnvRecords /\ Forgetful(tmpl),
         imported' \in BOOLEAN, bypassed' \subseteq Names,
         \A e \in Live(run, tmpl) : \A n \in Names \ bypassed' : CachesOf(h, e, n, Loose(imported')),
         ArraysOf(Live(run, tmpl), arr, bypassed')
  PROVE  IInv'
<1> DEFINE live == Live(run, tmpl)
           cleared == [s \in ScopeIds |-> IF \E e \in live : s \in Range(e.scopes) THEN h[s] ELSE Blank]
           freed == [a \in ArrayIds |-> IF \E e \in live : e.nested.arr = a THEN arr[a] ELSE <<>>]
<1>1. running' = run /\ template' = tmpl /\ heap' = cleared /\ arrays' = freed
  BY DEF Become
<1>2. Envs' = live
  BY <1>1 DEF Envs, Live
<1>3. \A e \in live : e \in EnvRecords
  BY LiveTypes
<1> HIDE DEF live
<1>4. cleared \in Heaps
  <2>1. \A s \in ScopeIds : h[s] \in [vars : SUBSET Names, callables : SUBSET Names]
    BY HeapsType
  <2> QED BY <2>1, BlankType DEF Heaps
<1>5. ASSUME NEW s \in ScopeIds, \A e \in live : ~In(s, e) PROVE cleared[s] = Blank
  BY <1>3, <1>5, RangeIs
<1>6. ASSUME NEW e \in live, NEW n \in Names \ bypassed' PROVE CachesOf(cleared, e, n, Loose(imported'))
  <2>1. \A p \in 1 .. Len(e.scopes) : e.scopes[p] \in ScopeIds /\ In(e.scopes[p], e)
    BY <1>3, EnvType, ChainType DEF In
  <2>2. \A p \in 1 .. Len(e.scopes) : cleared[e.scopes[p]] = h[e.scopes[p]]
    BY <1>3, <2>1, RangeIs
  <2>3. CachesOf(h, e, n, Loose(imported')) /\ e \in EnvRecords
    BY <1>3 DEF live
  <2> HIDE DEF cleared
  <2> QED BY <2>2, <2>3, CachesOnChain
<1>7. ArraysOf(live, freed, bypassed')
  <2>1. /\ arr \in [ArrayIds -> Seq(BOOLEAN)] /\ \A e \in live : Backed(e, arr)
        /\ Forwarded \subseteq bypassed' \/ Empty(arr)
    BY DEF live, ArraysOf
  <2>2. <<>> \in Seq(BOOLEAN) /\ Len(<<>>) = 0 /\ 1 .. 0 = {}
    OBVIOUS
  <2>3. freed \in [ArrayIds -> Seq(BOOLEAN)]
    BY <2>1, <2>2
  <2>4. ASSUME NEW e \in live PROVE Backed(e, freed)
    <3>1. CASE e.nested = Nil
      BY <3>1 DEF Backed
    <3>2. CASE e.nested # Nil
      <4>1. e.nested.arr \in ArrayIds
        BY <2>1, <3>2 DEF Backed
      <4>2. freed[e.nested.arr] = arr[e.nested.arr]
        BY <4>1
      <4> HIDE DEF freed
      <4> QED BY <2>1, <3>2, <4>1, <4>2 DEF Backed
    <3> QED BY <3>1, <3>2
  <2>5. ASSUME Empty(arr) PROVE Empty(freed)
    <3>1. ASSUME NEW a \in ArrayIds, NEW i \in 1 .. Len(freed[a]) PROVE ~freed[a][i]
      <4>1. CASE freed[a] = arr[a]
        <5> HIDE DEF freed
        <5> QED BY <2>5, <3>1, <4>1 DEF Empty
      <4>2. CASE freed[a] = <<>>
        <5> HIDE DEF freed
        <5> QED BY <2>2, <3>1, <4>2
      <4> QED BY <4>1, <4>2
    <3> HIDE DEF freed
    <3> QED BY <3>1 DEF Empty
  <2> HIDE DEF freed
  <2> QED BY <2>1, <2>3, <2>4, <2>5 DEF ArraysOf
<1> HIDE DEF cleared, freed
<1>8. (\A s \in ScopeIds : (\A e \in Envs : ~In(s, e)) => heap[s] = Blank)'
  BY <1>1, <1>2, <1>5
<1>9. (\A e \in Envs : \A n \in Names \ bypassed : CachesOf(heap, e, n, Loose(imported)))'
  BY <1>1, <1>2, <1>6
<1>10. ArraysOf(Envs, arrays, bypassed)'
  BY <1>1, <1>2, <1>7
<1>11. (heap \in Heaps /\ imported \in BOOLEAN /\ bypassed \subseteq Names)'
  BY <1>1, <1>4
<1>12. Stacked(running)' /\ (template # NoEnv => template \in EnvRecords /\ Forgetful(template))'
  BY <1>1
<1> QED BY <1>8, <1>9, <1>10, <1>11, <1>12 DEF IInv

-----------------------------------------------------------------------------
(* The first state *)

LEMMA BoundsType ==
  /\ MaxScopes \in Nat \ {0} /\ MaxArrays \in Nat \ {0} /\ MaxDepth \in Nat \ {0} /\ MaxRunning \in Nat \ {0}
  /\ "" \notin Names /\ Forwarded \subseteq Names /\ 1 \in ScopeIds
<1>1. /\ MaxScopes \in Nat \ {0} /\ MaxArrays \in Nat \ {0} /\ MaxDepth \in Nat \ {0} /\ MaxRunning \in Nat \ {0}
      /\ "" \notin Names /\ Forwarded \subseteq Names
  BY EnvironmentAssumption
<1>2. 1 \in 1 .. MaxScopes
  <2>1. MaxScopes \in Nat \ {0}
    BY <1>1
  <2> QED BY <2>1
<1> QED BY <1>1, <1>2 DEF ScopeIds

LEMMA NewEnvType ==
  ASSUME NEW s \in Chains, NEW nested \in [arr : Nat, len : Nat], NEW forwards \in {"nil", "none", "some"}
  PROVE  /\ NewEnv(s, nested, forwards) \in EnvRecords
         /\ NewEnv(s, nested, forwards).scopes = s /\ NewEnv(s, nested, forwards).nested = nested
         /\ NewEnv(s, nested, forwards).forwards = forwards
         /\ Forgetful(NewEnv(s, nested, forwards))
BY DEF NewEnv, EnvRecords, NoLast, Forgetful

LEMMA ForgetfulAgrees ==
  ASSUME NEW e \in EnvRecords, Forgetful(e), NEW h, NEW n \in Names, NEW loose
  PROVE  CachesOf(h, e, n, loose)
BY BoundsType DEF Forgetful, CachesOf, Agrees

LEMMA NilType == Nil \in [arr : Nat, len : Nat]
BY DEF Nil

LEMMA IInvInit == Init => IInv
<1> SUFFICES ASSUME Init PROVE IInv
  OBVIOUS
<1> DEFINE root == NewEnv(<<1>>, Nil, "nil")
           main == [kind |-> "main", blocks |-> <<>>, env |-> root]
<1>1. <<1>> \in Chains
  <2>0. 1 \in ScopeIds
    BY BoundsType
  <2>1. <<1>> \in Seq(ScopeIds) /\ Len(<<1>>) = 1 /\ <<1>>[1] = 1
    BY <2>0
  <2>2. \A p, q \in 1 .. 1 : p = q
    OBVIOUS
  <2> QED BY <2>1, <2>2 DEF Chains
<1>2. root \in EnvRecords /\ Forgetful(root) /\ root.scopes = <<1>> /\ root.nested = Nil
  BY <1>1, NilType, NewEnvType
<1> HIDE DEF root
<1>3. main \in Frames /\ main.kind = "main" /\ main.blocks = <<>> /\ main.env = root
  BY <1>2 DEF Frames
<1>4. running = <<main>>
  BY DEF Init, root
<1> HIDE DEF main
<1>5. running \in Seq(Frames) /\ Len(running) = 1 /\ running[1] = main
  BY <1>3, <1>4
<1>6. Opened(running, 1, 1)
  <2>1. Levels(<<>>, 1, 1)
    BY LevelsNone
  <2>2. Len(running[1].env.scopes) = 1 /\ running[1].blocks = <<>>
        /\ 1 + (IF running[1].kind = "callable" THEN 1 ELSE 0) = 1
    BY <1>2, <1>3, <1>5
  <2>3. 1 .. 1 - 1 = {}
    OBVIOUS
  <2> QED BY <2>1, <2>2, <2>3 DEF Opened
<1>7. Stacked(running)
  <2>1. \A k \in 1 .. 1 : k = 1
    OBVIOUS
  <2> QED BY <1>3, <1>5, <1>6, <2>1 DEF Stacked
<1>8. template = NoEnv /\ imported = FALSE /\ bypassed = {} /\ heap = [s \in ScopeIds |-> Blank]
      /\ arrays = [a \in ArrayIds |-> <<>>]
  BY DEF Init
<1>9. \A e \in Envs : e = root
  <2>1. \A k \in 1 .. Len(running) : running[k].env = root
    BY <1>3, <1>5
  <2> QED BY <1>5, <1>8, <2>1, LiveIs DEF Envs
<1>10. heap \in Heaps
  BY <1>8, BlankType DEF Heaps
<1>11. ArraysOf(Envs, arrays, bypassed)
  <2>1. <<>> \in Seq(BOOLEAN) /\ Len(<<>>) = 0 /\ 1 .. 0 = {}
    OBVIOUS
  <2>2. arrays \in [ArrayIds -> Seq(BOOLEAN)] /\ Empty(arrays)
    BY <1>8, <2>1 DEF Empty
  <2> QED BY <1>2, <1>9, <2>2 DEF ArraysOf, Backed
<1>12. \A e \in Envs : \A n \in Names \ bypassed : CachesOf(heap, e, n, Loose(imported))
  BY <1>2, <1>9, ForgetfulAgrees
<1>13. \A s \in ScopeIds : heap[s] = Blank
  BY <1>8
<1> QED BY <1>7, <1>8, <1>10, <1>11, <1>12, <1>13 DEF IInv

-----------------------------------------------------------------------------
(* What holds of the current frame *)

LEMMA CurrentIs ==
  ASSUME IInv
  PROVE  /\ Stacked(running) /\ Len(running) \in Nat \ {0} /\ running \in Seq(Frames)
         /\ Current = running[Len(running)] /\ Env = running[Len(running)].env
         /\ Blocks = running[Len(running)].blocks
         /\ Env \in Envs /\ Env \in EnvRecords /\ Blocks \in Seq(BlockRecords)
         /\ Env.scopes \in Chains /\ Len(Env.scopes) \in Nat \ {0}
         /\ \A e \in Envs : e \in EnvRecords
<1>1. Stacked(running) /\ (template # NoEnv => template \in EnvRecords)
  BY DEF IInv
<1>2. Len(running) \in Nat \ {0} /\ running \in Seq(Frames) /\ Last(running) = running[Len(running)]
  BY <1>1, StackTypes
<1>3. Current = running[Len(running)] /\ Env = running[Len(running)].env
      /\ Blocks = running[Len(running)].blocks
  BY <1>2 DEF Current, Env, Blocks
<1>4. Len(running) \in 1 .. Len(running)
  BY <1>2
<1>5. Env \in EnvRecords /\ Blocks \in Seq(BlockRecords)
  BY <1>1, <1>3, <1>4, StackTypes
<1>6. Env \in Envs
  BY <1>2, <1>3, <1>4, LiveIs DEF Envs
<1>7. \A e \in Envs : e \in EnvRecords
  BY <1>1, LiveTypes DEF Envs
<1>8. Env.scopes \in Chains /\ Len(Env.scopes) \in Nat \ {0}
  <2>1. Env.scopes \in Chains
    BY <1>5, EnvType
  <2>2. Len(Env.scopes) \in Nat /\ Len(Env.scopes) >= 1
    BY <2>1, ChainType
  <2> QED BY <2>1, <2>2
<1> QED BY <1>1, <1>2, <1>3, <1>5, <1>6, <1>7, <1>8

LEMMA LowerIs ==
  ASSUME IInv, NEW k \in 1 .. Len(running) - 1
  PROVE  running[k].env \in EnvRecords /\ running[k].env \in Envs
<1>1. k \in 1 .. Len(running)
  BY CurrentIs
<1>2. running[k].env \in Envs
  BY <1>1, CurrentIs, LiveIs DEF Envs
<1> QED BY <1>2, CurrentIs

(* The top scope is in no chain of a frame below. *)
OwnTop ==
    \A k \in 1 .. Len(running) - 1 : \A q \in 1 .. Len(running[k].env.scopes) :
        Env.scopes[Len(Env.scopes)] # running[k].env.scopes[q]

LEMMA TopOwned ==
  ASSUME IInv, ~IntoImporter, CanDeclare
  PROVE  OwnTop
<1> DEFINE m == Len(running)
           depth == Len(Env.scopes)
<1>1. m \in Nat \ {0} /\ m \in 1 .. m /\ Env = running[m].env /\ Blocks = running[m].blocks
      /\ Current = running[m] /\ depth \in Nat \ {0} /\ depth \in 1 .. depth
  BY CurrentIs
<1>2. Stacked(running)
  BY CurrentIs
<1>3. PICK shared \in Nat \ {0} : Opened(running, m, shared)
  BY <1>1, <1>2 DEF Stacked
<1>4. CASE m = 1
  BY <1>4 DEF OwnTop
<1>5. CASE depth > shared
  BY <1>1, <1>3, <1>5 DEF Opened, OwnTop
<1>6. CASE m # 1 /\ ~(depth > shared)
  <2>1. Blocks = <<>>
    BY <1>1, <1>2, <1>3, <1>6, TopIsOwn DEF CanDeclare
  <2>2. depth = shared + (IF running[m].kind = "callable" THEN 1 ELSE 0)
    BY <1>1, <1>2, <1>3, <2>1, TopIsOwn
  <2>3. running[m].kind # "callable"
    BY <1>1, <1>6, <2>2
  <2>4. running[m].kind \in {"main", "callable", "import"} /\ (running[m].kind = "main" <=> m = 1)
    BY <1>1, <1>2, StackTypes
  <2> QED BY <1>1, <1>6, <2>1, <2>3, <2>4 DEF IntoImporter
<1> QED BY <1>4, <1>5, <1>6

-----------------------------------------------------------------------------
(* Steps of the current environment that leave its chain alone *)

LEMMA TopStep ==
  ASSUME IInv,
         NEW e \in EnvRecords, e.scopes = Env.scopes, e.nested = Env.nested,
         NEW tmpl, tmpl = template \/ (/\ tmpl \in EnvRecords /\ Forgetful(tmpl)
                                       /\ tmpl.scopes = Env.scopes /\ tmpl.nested = Env.nested),
         NEW h \in Heaps, Become(WithEnv(e), tmpl, h, arrays),
         bypassed \subseteq bypassed', bypassed' \subseteq Names, imported' = imported,
         \A n \in Names \ bypassed' : CachesOf(h, e, n, Loose(imported)),
         \A k \in 1 .. Len(running) - 1 : \A n \in Names \ bypassed' :
            CachesOf(h, running[k].env, n, Loose(imported))
  PROVE  IInv'
<1> DEFINE run == WithEnv(e)
<1>1. Replaces(run, running, e, Blocks)
  BY CurrentIs, WithTopReplaces DEF WithEnv
<1>2. Stacked(run)
  BY <1>1, CurrentIs, StackedSame
<1> HIDE DEF run
<1>3. tmpl # NoEnv => tmpl \in EnvRecords /\ Forgetful(tmpl)
  BY DEF IInv
<1>4. ASSUME NEW x \in Live(run, tmpl)
      PROVE  \/ x = e
             \/ \E k \in 1 .. Len(running) - 1 : x = running[k].env
             \/ tmpl # NoEnv /\ x = tmpl
  BY <1>1, CurrentIs, LiveReplaced
<1>5. \A x \in Live(run, tmpl) : \A n \in Names \ bypassed' : CachesOf(h, x, n, Loose(imported'))
  <2>1. tmpl # NoEnv => \A n \in Names : CachesOf(h, tmpl, n, Loose(imported'))
    BY <1>3, ForgetfulAgrees
  <2> QED BY <1>4, <2>1
<1>6. ArraysOf(Live(run, tmpl), arrays, bypassed')
  <2>1. ArraysOf(Envs, arrays, bypassed)
    BY DEF IInv
  <2>2. ASSUME NEW x \in Live(run, tmpl) PROVE Backed(x, arrays)
    <3>1. Backed(Env, arrays)
      BY <2>1, CurrentIs DEF ArraysOf
    <3>2. CASE x.scopes = Env.scopes /\ x.nested = Env.nested
      BY <3>1, <3>2 DEF Backed
    <3>3. CASE \E k \in 1 .. Len(running) - 1 : x = running[k].env
      BY <2>1, <3>3, LowerIs DEF ArraysOf
    <3>4. CASE tmpl = template /\ tmpl # NoEnv /\ x = tmpl
      <4>1. x \in Envs
        BY <3>4, CurrentIs, LiveIs DEF Envs
      <4> QED BY <2>1, <4>1 DEF ArraysOf
    <3> QED BY <1>4, <3>2, <3>3, <3>4
  <2> QED BY <2>1, <2>2 DEF ArraysOf
<1>7. imported' \in BOOLEAN
  BY DEF IInv
<1> QED BY <1>2, <1>3, <1>5, <1>6, <1>7, Becomes DEF run

(* A name is declared in a scope. *)
Declares(h2, h, table, t, x) ==
    /\ h2 \in Heaps
    /\ \A q \in ScopeIds, tb \in Tables :
          h2[q][tb] = IF q = t /\ tb = table THEN h[q][tb] \cup {x} ELSE h[q][tb]

LEMMA VarDeclares ==
  ASSUME NEW h \in Heaps, NEW t \in ScopeIds, NEW x \in Names
  PROVE  Declares([h EXCEPT ![t].vars = @ \cup {x}], h, "vars", t, x)
<1> DEFINE new == [h[t] EXCEPT !.vars = @ \cup {x}]
           h2 == [h EXCEPT ![t] = new]
<1>1. h[t] \in [vars : SUBSET Names, callables : SUBSET Names]
  BY HeapsType
<1>2. new \in [vars : SUBSET Names, callables : SUBSET Names]
      /\ new["vars"] = h[t]["vars"] \cup {x} /\ new["callables"] = h[t]["callables"]
  BY <1>1
<1>3. [h EXCEPT ![t].vars = @ \cup {x}] = h2
  OBVIOUS
<1> HIDE DEF new
<1>4. h2 \in Heaps /\ h2[t] = new /\ \A q \in ScopeIds : q # t => h2[q] = h[q]
  BY <1>2 DEF Heaps
<1> HIDE DEF h2
<1>5. ASSUME NEW q \in ScopeIds, NEW tb \in Tables
      PROVE  h2[q][tb] = IF q = t /\ tb = "vars" THEN h[q][tb] \cup {x} ELSE h[q][tb]
  BY <1>2, <1>4 DEF Tables
<1> QED BY <1>3, <1>4, <1>5 DEF Declares

LEMMA CallableDeclares ==
  ASSUME NEW h \in Heaps, NEW t \in ScopeIds, NEW x \in Names
  PROVE  Declares([h EXCEPT ![t].callables = @ \cup {x}], h, "callables", t, x)
<1> DEFINE new == [h[t] EXCEPT !.callables = @ \cup {x}]
           h2 == [h EXCEPT ![t] = new]
<1>1. h[t] \in [vars : SUBSET Names, callables : SUBSET Names]
  BY HeapsType
<1>2. new \in [vars : SUBSET Names, callables : SUBSET Names]
      /\ new["callables"] = h[t]["callables"] \cup {x} /\ new["vars"] = h[t]["vars"]
  BY <1>1
<1>3. [h EXCEPT ![t].callables = @ \cup {x}] = h2
  OBVIOUS
<1> HIDE DEF new
<1>4. h2 \in Heaps /\ h2[t] = new /\ \A q \in ScopeIds : q # t => h2[q] = h[q]
  BY <1>2 DEF Heaps
<1> HIDE DEF h2
<1>5. ASSUME NEW q \in ScopeIds, NEW tb \in Tables
      PROVE  h2[q][tb] = IF q = t /\ tb = "callables" THEN h[q][tb] \cup {x} ELSE h[q][tb]
  BY <1>2, <1>4 DEF Tables
<1> QED BY <1>3, <1>4, <1>5 DEF Declares

(* An index still agrees when the name is declared elsewhere, in the root scope,
   or where it was before. *)
LEMMA AgreesDeclared ==
  ASSUME NEW s \in Chains, NEW h, NEW h2, NEW table \in Tables, NEW tb \in Tables, NEW t, NEW x,
         Declares(h2, h, table, t, x), NEW n, NEW i, NEW loose,
         n # x \/ tb # table \/ t = 1 \/ x \in h[t][table] \/ \A p \in 1 .. Len(s) : s[p] # t,
         Agrees(h, s, tb, n, i, loose)
  PROVE  Agrees(h2, s, tb, n, i, loose)
<1>1. \A p \in 1 .. Len(s) : s[p] \in ScopeIds
  BY ChainType
<1>2. \A p \in 1 .. Len(s) :
        h2[s[p]][tb] = IF s[p] = t /\ tb = table THEN h[s[p]][tb] \cup {x} ELSE h[s[p]][tb]
  BY <1>1 DEF Declares
<1>3. CASE i = 0
  BY <1>3 DEF Agrees
<1>4. CASE i # 0
  <2>1. /\ i \in 1 .. Len(s)
        /\ i > 1 \/ n \notin loose => n \in h[s[i]][tb]
        /\ \A p \in 1 .. Len(s) : n \in h[s[p]][tb] => p <= i
    BY <1>4 DEF Agrees
  <2>2. i > 1 \/ n \notin loose => n \in h2[s[i]][tb]
    BY <1>2, <2>1
  <2>3. ASSUME NEW p \in 1 .. Len(s), n \in h2[s[p]][tb] PROVE p <= i
    <3>1. CASE n \in h[s[p]][tb]
      BY <2>1, <3>1
    <3>2. CASE s[p] = 1
      <4>1. s[1] = 1 /\ Len(s) \in Nat /\ Len(s) >= 1 /\ \A a, b \in 1 .. Len(s) : s[a] = s[b] => a = b
        BY ChainType
      <4>2. 1 \in 1 .. Len(s)
        BY <4>1
      <4>3. p = 1
        BY <3>2, <4>1, <4>2
      <4> QED BY <2>1, <4>1, <4>3
    <3> QED BY <1>2, <2>3, <3>1, <3>2
  <2> QED BY <2>1, <2>2, <2>3 DEF Agrees
<1> QED BY <1>3, <1>4

LEMMA AgreesAtDeclared ==
  ASSUME NEW s \in Chains, NEW h, NEW h2, NEW table \in Tables, NEW x, NEW i \in 1 .. Len(s),
         Declares(h2, h, table, s[i], x), NEW loose,
         \A p \in 1 .. Len(s) : x \in h[s[p]][table] => p <= i
  PROVE  Agrees(h2, s, table, x, i, loose)
<1>1. /\ Len(s) \in Nat /\ \A p \in 1 .. Len(s) : s[p] \in ScopeIds
      /\ \A p, q \in 1 .. Len(s) : s[p] = s[q] => p = q
  BY ChainType
<1>2. \A p \in 1 .. Len(s) :
        h2[s[p]][table] = IF s[p] = s[i] THEN h[s[p]][table] \cup {x} ELSE h[s[p]][table]
  BY <1>1 DEF Declares
<1>3. x \in h2[s[i]][table]
  BY <1>2
<1>4. ASSUME NEW p \in 1 .. Len(s), x \in h2[s[p]][table] PROVE p <= i
  <2>1. p = i \/ x \in h[s[p]][table]
    BY <1>1, <1>2, <1>4
  <2> QED BY <1>1, <2>1
<1> QED BY <1>3, <1>4 DEF Agrees

LEMMA CachesDeclared ==
  ASSUME NEW e \in EnvRecords, NEW h, NEW h2, NEW table \in Tables, NEW t, NEW x,
         Declares(h2, h, table, t, x), NEW n, NEW loose,
         n # x \/ t = 1 \/ x \in h[t][table] \/ \A p \in 1 .. Len(e.scopes) : e.scopes[p] # t,
         CachesOf(h, e, n, loose)
  PROVE  CachesOf(h2, e, n, loose)
<1>1. e.scopes \in Chains /\ "vars" \in Tables /\ "callables" \in Tables
  BY EnvType DEF Tables
<1>2. \A tb \in Tables : \A i : Agrees(h, e.scopes, tb, n, i, loose) => Agrees(h2, e.scopes, tb, n, i, loose)
  BY <1>1, AgreesDeclared
<1> QED BY <1>1, <1>2 DEF CachesOf

LEMMA DeclareStep ==
  ASSUME IInv,
         NEW e \in EnvRecords, e.scopes = Env.scopes, e.nested = Env.nested,
         NEW tmpl, tmpl = template \/ (/\ tmpl \in EnvRecords /\ Forgetful(tmpl)
                                       /\ tmpl.scopes = Env.scopes /\ tmpl.nested = Env.nested),
         NEW table \in Tables, NEW x \in Names, NEW index \in 1 .. Len(Env.scopes),
         NEW h, Declares(h, heap, table, Env.scopes[index], x), Become(WithEnv(e), tmpl, h, arrays),
         bypassed \subseteq bypassed', bypassed' \subseteq Names, imported' = imported,
         \A n \in Names \ bypassed' : CachesOf(h, e, n, Loose(imported)),
         \/ index = 1 \/ x \in heap[Env.scopes[index]][table] \/ x \in bypassed'
         \/ index = Len(Env.scopes) /\ OwnTop
  PROVE  IInv'
<1>1. ASSUME NEW k \in 1 .. Len(running) - 1, NEW n \in Names \ bypassed'
      PROVE  CachesOf(h, running[k].env, n, Loose(imported))
  <2>1. running[k].env \in EnvRecords /\ CachesOf(heap, running[k].env, n, Loose(imported))
    BY <1>1, LowerIs DEF IInv
  <2>2. index = 1 => Env.scopes[index] = 1
    BY CurrentIs, ChainType
  <2>3. \/ n # x \/ Env.scopes[index] = 1 \/ x \in heap[Env.scopes[index]][table]
        \/ \A p \in 1 .. Len(running[k].env.scopes) : running[k].env.scopes[p] # Env.scopes[index]
    BY <1>1, <2>2 DEF OwnTop
  <2> QED BY <2>1, <2>3, CachesDeclared
<1>2. h \in Heaps
  BY DEF Declares
<1> QED BY <1>1, <1>2, TopStep

-----------------------------------------------------------------------------
(* Looking up *)

LEMMA FoundAgrees ==
  ASSUME IInv, NEW e \in Envs, NEW n \in Names \ bypassed
  PROVE  /\ Agrees(heap, e.scopes, "vars", n, VariableIndex(e, n), Loose(imported))
         /\ VariableIndex(e, n) \in 0 .. Len(e.scopes)
         /\ VariableIndex(e, n) = 0 => /\ Walk(e, "vars", n) = 0 /\ e.last.name # n /\ e.idx[n] = 0
         /\ Agrees(heap, e.scopes, "callables", n, CallableIndex(e, n), Loose(imported))
         /\ CallableIndex(e, n) \in 0 .. Len(e.scopes)
         /\ CallableIndex(e, n) = 0 => Walk(e, "callables", n) = 0
<1>1. e \in EnvRecords /\ CachesOf(heap, e, n, Loose(imported)) /\ Len(e.scopes) \in Nat
  BY CurrentIs, EnvType, ChainType DEF IInv
<1>2. ASSUME NEW table \in Tables
      PROVE  Agrees(heap, e.scopes, table, n, Walk(e, table, n), Loose(imported))
  <2>1. CASE Walk(e, table, n) = 0
    BY <2>1 DEF Agrees
  <2>2. CASE Walk(e, table, n) # 0
    BY <1>1, <2>2, WalkIs DEF Agrees
  <2> QED BY <2>1, <2>2
<1>3. "vars" \in Tables /\ "callables" \in Tables
  BY DEF Tables
<1>4. Agrees(heap, e.scopes, "vars", n, VariableIndex(e, n), Loose(imported))
  BY <1>1, <1>2, <1>3 DEF VariableIndex, CachesOf
<1>5. Agrees(heap, e.scopes, "callables", n, CallableIndex(e, n), Loose(imported))
  BY <1>1, <1>2, <1>3 DEF CallableIndex, CachesOf
<1>6. VariableIndex(e, n) = 0 => /\ Walk(e, "vars", n) = 0 /\ e.last.name # n /\ e.idx[n] = 0
  BY <1>1 DEF VariableIndex, CachesOf
<1>7. CallableIndex(e, n) = 0 => Walk(e, "callables", n) = 0
  BY DEF CallableIndex
<1> QED BY <1>1, <1>4, <1>5, <1>6, <1>7 DEF Agrees

(* A walk finds what an index that agrees says. *)
LEMMA AgreesWalk ==
  ASSUME NEW e \in EnvRecords, NEW table \in Tables, NEW n, NEW i, NEW loose, i # 0,
         Agrees(heap, e.scopes, table, n, i, loose)
  PROVE  /\ i \in 1 .. Len(e.scopes)
         /\ i > 1 \/ n \notin loose => Walk(e, table, n) = i
         /\ Walk(e, table, n) \in {0, i}
         /\ Walk(e, table, n) = 0 => n \notin heap[e.scopes[i]][table]
<1>1. /\ i \in 1 .. Len(e.scopes) /\ Len(e.scopes) \in Nat
      /\ i > 1 \/ n \notin loose => n \in heap[e.scopes[i]][table]
      /\ \A p \in 1 .. Len(e.scopes) : n \in heap[e.scopes[p]][table] => p <= i
  BY EnvType, ChainType DEF Agrees
<1> DEFINE w == Walk(e, table, n)
<1>2. /\ w \in 0 .. Len(e.scopes)
      /\ w = 0 => \A p \in 1 .. Len(e.scopes) : n \notin heap[e.scopes[p]][table]
      /\ w # 0 => /\ n \in heap[e.scopes[w]][table]
                  /\ \A p \in 1 .. Len(e.scopes) : n \in heap[e.scopes[p]][table] => p <= w
  BY WalkIs
<1> HIDE DEF w
<1>3. CASE w = 0
  BY <1>1, <1>2, <1>3 DEF w
<1>4. CASE w # 0
  <2>1. w \in 1 .. Len(e.scopes) /\ w <= i
    BY <1>1, <1>2, <1>4
  <2>2. ASSUME n \in heap[e.scopes[i]][table] PROVE w = i
    BY <1>1, <1>2, <1>4, <2>1, <2>2
  <2>3. CASE i > 1
    BY <1>1, <2>2, <2>3, <1>4 DEF w
  <2>4. CASE i = 1
    BY <1>1, <2>1, <2>4 DEF w
  <2> QED BY <1>1, <2>3, <2>4
<1> QED BY <1>3, <1>4

LEMMA NothingNested ==
  ASSUME IInv, NEW e \in Envs, NEW n \in Names \ bypassed
  PROVE  ~NestedHas(e, n)
<1> SUFFICES ASSUME n \in Forwarded, NEW i \in 1 .. e.nested.len, arrays[e.nested.arr][i]
             PROVE  FALSE
  BY DEF NestedHas
<1>1. Empty(arrays) /\ Backed(e, arrays) /\ arrays \in [ArrayIds -> Seq(BOOLEAN)]
  BY DEF IInv, ArraysOf
<1>2. CASE e.nested = Nil
  BY <1>2 DEF Nil
<1>3. CASE e.nested # Nil
  <2>1. e.nested.arr \in ArrayIds /\ e.nested.len <= Len(arrays[e.nested.arr])
    BY <1>1, <1>3 DEF Backed
  <2>2. e.nested.len \in Nat /\ Len(arrays[e.nested.arr]) \in Nat
    <3>1. e.nested \in [arr : Nat, len : Nat]
      BY CurrentIs, EnvType
    <3> QED BY <1>1, <2>1, <3>1
  <2>3. i \in 1 .. Len(arrays[e.nested.arr])
    BY <2>1, <2>2
  <2> QED BY <1>1, <2>1, <2>3 DEF Empty
<1> QED BY <1>2, <1>3

(* What a variable's lookup or assignment leaves in the caches. *)
Remember(e, x, i, c) == [e EXCEPT !.last = [name |-> x, index |-> i], !.idx[x] = c]

LEMMA Remembers ==
  ASSUME NEW e \in EnvRecords, NEW x \in Names, NEW i \in Nat, NEW c \in Nat,
         NEW new, new = Remember(e, x, i, c)
  PROVE  /\ new \in EnvRecords /\ new.scopes = e.scopes /\ new.nested = e.nested
         /\ new.cidx = e.cidx /\ new.idx[x] = c /\ new.last.name = x /\ new.last.index = i
         /\ new.forwards = e.forwards
         /\ \A n \in Names : n # x => new.idx[n] = e.idx[n]
<1> DEFINE idx == [e.idx EXCEPT ![x] = c]
           last == [name |-> x, index |-> i]
<1>1. e.idx \in [Names -> Nat]
  BY EnvType
<1>2. idx \in [Names -> Nat] /\ idx[x] = c /\ \A n \in Names : n # x => idx[n] = e.idx[n]
  BY <1>1
<1>3. last \in [name : Names \cup {""}, index : Nat] /\ last.name = x /\ last.index = i
  OBVIOUS
<1>4. new = [[e EXCEPT !.last = last] EXCEPT !.idx = idx]
  BY DEF EnvRecords, Remember
<1> HIDE DEF idx, last
<1>5. /\ new \in EnvRecords /\ new.scopes = e.scopes /\ new.nested = e.nested /\ new.cidx = e.cidx
      /\ new.idx = idx /\ new.last = last /\ new.forwards = e.forwards
  BY <1>2, <1>3, <1>4 DEF EnvRecords
<1> QED BY <1>2, <1>3, <1>5

LEMMA CachesRemember ==
  ASSUME NEW e \in EnvRecords, NEW x \in Names, NEW i \in Nat, NEW c \in Nat,
         NEW h, NEW n \in Names, NEW loose,
         n # x => CachesOf(h, e, n, loose),
         n = x => /\ i # 0 /\ Agrees(h, e.scopes, "vars", x, i, loose)
                  /\ Agrees(h, e.scopes, "vars", x, c, loose)
                  /\ Agrees(h, e.scopes, "callables", x, e.cidx[x], loose)
  PROVE  CachesOf(h, Remember(e, x, i, c), n, loose)
<1> DEFINE new == Remember(e, x, i, c)
<1>1. /\ new.scopes = e.scopes /\ new.cidx = e.cidx
      /\ new.idx[x] = c /\ new.last.name = x /\ new.last.index = i
      /\ \A k \in Names : k # x => new.idx[k] = e.idx[k]
  BY Remembers
<1> SUFFICES CachesOf(h, new, n, loose)
  OBVIOUS
<1> HIDE DEF new
<1>2. CASE n = x
  BY <1>1, <1>2 DEF CachesOf
<1>3. CASE n # x
  BY <1>1, <1>3 DEF CachesOf
<1> QED BY <1>2, <1>3

(* The same for a callable's. *)
RememberCallable(e, x, i) == [e EXCEPT !.cidx[x] = i]

LEMMA RemembersCallable ==
  ASSUME NEW e \in EnvRecords, NEW x \in Names, NEW i \in Nat,
         NEW new, new = RememberCallable(e, x, i)
  PROVE  /\ new \in EnvRecords /\ new.scopes = e.scopes /\ new.nested = e.nested
         /\ new.idx = e.idx /\ new.last = e.last /\ new.cidx[x] = i
         /\ \A n \in Names : n # x => new.cidx[n] = e.cidx[n]
<1> DEFINE cidx == [e.cidx EXCEPT ![x] = i]
<1>1. e.cidx \in [Names -> Nat]
  BY EnvType
<1>2. cidx \in [Names -> Nat] /\ cidx[x] = i /\ \A n \in Names : n # x => cidx[n] = e.cidx[n]
  BY <1>1
<1>3. new = [e EXCEPT !.cidx = cidx]
  BY DEF EnvRecords, RememberCallable
<1> HIDE DEF cidx
<1>4. /\ new \in EnvRecords /\ new.scopes = e.scopes /\ new.nested = e.nested
      /\ new.idx = e.idx /\ new.last = e.last /\ new.cidx = cidx
  BY <1>2, <1>3 DEF EnvRecords
<1> QED BY <1>2, <1>4

LEMMA CachesRememberCallable ==
  ASSUME NEW e \in EnvRecords, NEW x \in Names, NEW i \in Nat,
         NEW h, NEW n \in Names, NEW loose,
         n # x => CachesOf(h, e, n, loose),
         n = x => /\ Agrees(h, e.scopes, "callables", x, i, loose)
                  /\ Agrees(h, e.scopes, "vars", x, e.idx[x], loose)
                  /\ e.last.name = x => /\ e.last.index # 0
                                        /\ Agrees(h, e.scopes, "vars", x, e.last.index, loose)
  PROVE  CachesOf(h, RememberCallable(e, x, i), n, loose)
<1> DEFINE new == RememberCallable(e, x, i)
<1>1. /\ new.scopes = e.scopes /\ new.idx = e.idx /\ new.last = e.last /\ new.cidx[x] = i
      /\ \A k \in Names : k # x => new.cidx[k] = e.cidx[k]
  BY RemembersCallable
<1> SUFFICES CachesOf(h, new, n, loose)
  OBVIOUS
<1> HIDE DEF new
<1>2. CASE n = x
  BY <1>1, <1>2 DEF CachesOf
<1>3. CASE n # x
  BY <1>1, <1>3 DEF CachesOf
<1> QED BY <1>2, <1>3

LEMMA IInvGetVariable == ASSUME IInv, NEW x \in Names, GetVariable(x) PROVE IInv'
<1> DEFINE i == VariableIndex(Env, x)
           c == IF Env.last.name = x THEN Env.idx[x] ELSE i
           e == Remember(Env, x, i, c)
<1>1. Env \in Envs /\ Env \in EnvRecords /\ Env.scopes \in Chains /\ Env.idx \in [Names -> Nat]
  BY CurrentIs, EnvType
<1>2. i \in 1 .. Len(Env.scopes) /\ imported' = imported /\ bypassed' = bypassed
      /\ Become(WithEnv(e), template, heap, arrays)
  <2>1. DOMAIN Env.scopes = 1 .. Len(Env.scopes)
    BY <1>1, ChainType
  <2> QED BY <2>1 DEF GetVariable, Remember
<1>3. i \in Nat /\ i # 0 /\ c \in Nat
  BY <1>1, <1>2
<1>4. e \in EnvRecords /\ e.scopes = Env.scopes /\ e.nested = Env.nested
  <2> HIDE DEF i, c
  <2> QED BY <1>1, <1>3, Remembers
<1>5. ASSUME NEW n \in Names \ bypassed PROVE CachesOf(heap, e, n, Loose(imported))
  <2>1. CachesOf(heap, Env, n, Loose(imported))
    BY <1>1 DEF IInv
  <2>2. Agrees(heap, Env.scopes, "vars", n, VariableIndex(Env, n), Loose(imported))
    BY <1>1, FoundAgrees
  <2>3. n = x => /\ Agrees(heap, Env.scopes, "vars", x, i, Loose(imported))
                 /\ Agrees(heap, Env.scopes, "vars", x, c, Loose(imported))
                 /\ Agrees(heap, Env.scopes, "callables", x, Env.cidx[x], Loose(imported))
    BY <2>1, <2>2 DEF CachesOf
  <2> HIDE DEF i, c
  <2> QED BY <1>1, <1>3, <2>1, <2>3, CachesRemember
<1>6. heap \in Heaps /\ bypassed \subseteq Names
  BY DEF IInv
<1>7. \A k \in 1 .. Len(running) - 1 : \A n \in Names \ bypassed :
         CachesOf(heap, running[k].env, n, Loose(imported))
  BY LowerIs DEF IInv
<1> HIDE DEF e
<1> QED BY <1>2, <1>4, <1>5, <1>6, <1>7, TopStep

LEMMA IInvGetCallable == ASSUME IInv, NEW x \in Names, GetCallable(x) PROVE IInv'
<1> DEFINE i == CallableIndex(Env, x)
           e == RememberCallable(Env, x, i)
<1>1. Env \in Envs /\ Env \in EnvRecords /\ Env.scopes \in Chains
  BY CurrentIs
<1>2. i \in 1 .. Len(Env.scopes) /\ imported' = imported /\ bypassed' = bypassed
      /\ Become(WithEnv(e), template, heap, arrays)
  <2>1. DOMAIN Env.scopes = 1 .. Len(Env.scopes)
    BY <1>1, ChainType
  <2> QED BY <2>1 DEF GetCallable, RememberCallable
<1>3. i \in Nat
  BY <1>2
<1>4. e \in EnvRecords /\ e.scopes = Env.scopes /\ e.nested = Env.nested
  <2> HIDE DEF i
  <2> QED BY <1>1, <1>3, RemembersCallable
<1>5. ASSUME NEW n \in Names \ bypassed PROVE CachesOf(heap, e, n, Loose(imported))
  <2>1. CachesOf(heap, Env, n, Loose(imported))
    BY <1>1 DEF IInv
  <2>2. Agrees(heap, Env.scopes, "callables", n, CallableIndex(Env, n), Loose(imported))
    BY <1>1, FoundAgrees
  <2>3. n = x => /\ Agrees(heap, Env.scopes, "callables", x, i, Loose(imported))
                 /\ Agrees(heap, Env.scopes, "vars", x, Env.idx[x], Loose(imported))
                 /\ Env.last.name = x =>
                       /\ Env.last.index # 0
                       /\ Agrees(heap, Env.scopes, "vars", x, Env.last.index, Loose(imported))
    BY <2>1, <2>2 DEF CachesOf
  <2> HIDE DEF i
  <2> QED BY <1>1, <1>3, <2>1, <2>3, CachesRememberCallable
<1>6. heap \in Heaps /\ bypassed \subseteq Names
  BY DEF IInv
<1>7. \A k \in 1 .. Len(running) - 1 : \A n \in Names \ bypassed :
         CachesOf(heap, running[k].env, n, Loose(imported))
  BY LowerIs DEF IInv
<1> HIDE DEF e
<1> QED BY <1>2, <1>4, <1>5, <1>6, <1>7, TopStep

-----------------------------------------------------------------------------
(* Declaring *)

LEMMA IInvSetGlobal ==
  ASSUME IInv, NEW x \in Names, SetGlobal(x), imported' = imported,
         bypassed' = IF Env.idx[x] = 0 /\ Walk(Env, "vars", x) > 1 THEN bypassed \cup {x} ELSE bypassed
  PROVE  IInv'
<1> DEFINE e == IF Env.idx[x] = 0 THEN Remember(Env, x, 1, 1) ELSE Env
           L == Loose(imported)
           h == [heap EXCEPT ![Env.scopes[1]].vars = @ \cup {x}]
<1>1. /\ Env \in Envs /\ Env \in EnvRecords /\ Env.scopes \in Chains /\ Env.idx \in [Names -> Nat]
      /\ 1 \in 1 .. Len(Env.scopes) /\ Len(Env.scopes) \in Nat /\ Env.scopes[1] = 1
      /\ Env.scopes[1] \in ScopeIds
  <2>1. Env \in Envs /\ Env \in EnvRecords /\ Env.scopes \in Chains /\ Env.idx \in [Names -> Nat]
    BY CurrentIs, EnvType
  <2>2. Len(Env.scopes) \in Nat /\ Len(Env.scopes) >= 1 /\ Env.scopes[1] = 1
    BY <2>1, ChainType
  <2>3. 1 \in 1 .. Len(Env.scopes)
    BY <2>2
  <2> QED BY <2>1, <2>2, <2>3, BoundsType
<1>2. e \in EnvRecords /\ e.scopes = Env.scopes /\ e.nested = Env.nested
  <2>1. Env \in EnvRecords /\ 1 \in Nat
    BY <1>1
  <2>2. CASE Env.idx[x] = 0
    <3>1. e = Remember(Env, x, 1, 1)
      BY <2>2
    <3> HIDE DEF e
    <3> QED BY <2>1, <3>1, Remembers
  <2>3. CASE Env.idx[x] # 0
    BY <2>1, <2>3
  <2> QED BY <2>2, <2>3
<1>3. bypassed \subseteq bypassed' /\ bypassed' \subseteq Names /\ heap \in Heaps
  BY DEF IInv
<1>4. ASSUME NEW n \in Names \ bypassed' PROVE CachesOf(heap, Env, n, L)
  BY <1>1, <1>3 DEF IInv
<1>5. ASSUME x \notin bypassed', Env.idx[x] = 0, NEW p \in 1 .. Len(Env.scopes),
             x \in heap[Env.scopes[p]]["vars"]
      PROVE  p <= 1
  <2>1. Walk(Env, "vars", x) <= 1 /\ Walk(Env, "vars", x) \in 0 .. Len(Env.scopes)
    BY <1>1, <1>5, WalkIs DEF Tables
  <2>2. Walk(Env, "vars", x) # 0 /\ p <= Walk(Env, "vars", x)
    BY <1>1, <1>5, WalkIs DEF Tables
  <2> QED BY <1>1, <2>1, <2>2
<1>6. CASE x \notin heap[e.scopes[1]].vars /\ FromOneModule(e, x) = <<"module">>
  <2>1. Become(WithEnv(e), template, heap, arrays)
    BY <1>6 DEF SetGlobal, Remember
  <2>2. NestedHas(e, x) = NestedHas(Env, x)
    BY <1>2 DEF NestedHas
  <2>3. ASSUME NEW n \in Names \ bypassed' PROVE CachesOf(heap, e, n, L)
    <3>1. CASE Env.idx[x] # 0 
      BY <1>4, <3>1
    <3>2. CASE Env.idx[x] = 0
      <4>1. ASSUME n = x PROVE Agrees(heap, Env.scopes, "vars", x, 1, L)
        <5>1. ~NestedHas(Env, x)
          BY <1>1, <1>3, <4>1, NothingNested
        <5>2. x \in L
          BY <1>6, <2>2, <5>1 DEF FromOneModule, Loose
        <5> QED BY <1>1, <1>5, <3>2, <4>1, <5>2 DEF Agrees
      <4>2. n = x => Agrees(heap, Env.scopes, "callables", x, Env.cidx[x], L)
        BY <1>4 DEF CachesOf
      <4> QED BY <1>1, <1>4, <3>2, <4>1, <4>2, CachesRemember
    <3> QED BY <3>1, <3>2
  <2>4. \A k \in 1 .. Len(running) - 1 : \A n \in Names \ bypassed' :
           CachesOf(heap, running[k].env, n, L)
    BY <1>3, LowerIs DEF IInv
  <2> HIDE DEF e
  <2> QED BY <1>2, <1>3, <2>1, <2>3, <2>4, TopStep
<1>7. CASE ~(x \notin heap[e.scopes[1]].vars /\ FromOneModule(e, x) = <<"module">>)
  <2>1. Become(WithEnv(e), template, h, arrays)
    <3>1. Declare(e, x, 1)
      BY <1>7 DEF SetGlobal, Remember
    <3> QED BY <1>2, <3>1 DEF Declare
  <2>2. Declares(h, heap, "vars", Env.scopes[1], x) /\ "vars" \in Tables /\ "callables" \in Tables
    BY <1>1, <1>3, VarDeclares DEF Tables
  <2> HIDE DEF h
  <2>3. ASSUME NEW n \in Names \ bypassed' PROVE CachesOf(h, e, n, L)
    <3>0. CachesOf(h, Env, n, L)
      BY <1>1, <1>4, <2>2, CachesDeclared
    <3>1. CASE Env.idx[x] # 0 
      BY <3>0, <3>1
    <3>2. CASE Env.idx[x] = 0
      <4>1. n = x => Agrees(h, Env.scopes, "vars", x, 1, L)
        BY <1>1, <1>5, <2>2, <3>2, AgreesAtDeclared
      <4>2. n = x => Agrees(h, Env.scopes, "callables", x, Env.cidx[x], L)
        BY <3>0 DEF CachesOf
      <4> QED BY <1>1, <3>0, <3>2, <4>1, <4>2, CachesRemember
    <3> QED BY <3>1, <3>2
  <2> HIDE DEF e
  <2> QED BY <1>1, <1>2, <1>3, <2>1, <2>2, <2>3, DeclareStep
<1> QED BY <1>6, <1>7

(* Where an assignment below the root lands, and what it leaves in the index. *)
SetNestedFound(x) == VariableIndex(Env, x)
SetNestedIndex(x) ==
    IF SetNestedFound(x) = 0 \/ (~Env.semi /\ SetNestedFound(x) = 1)
    THEN Len(Env.scopes) ELSE SetNestedFound(x)
SetNestedCached(x) ==
    IF Env.last.name = x /\ ~(~Env.semi /\ SetNestedFound(x) = 1) THEN Env.idx[x] ELSE SetNestedIndex(x)
ToModule(x) == Env.idx[x] = 0 /\ Walk(Env, "vars", x) = 0 /\ NestedHas(Env, x)

LEMMA SetNestedIs ==
  ASSUME IInv, NEW x, SetNested(x), ~ToModule(x)
  PROVE  /\ SetNestedIndex(x) \in 1 .. Len(Env.scopes)
         /\ Declare(Remember(Env, x, SetNestedIndex(x), SetNestedCached(x)), x, SetNestedIndex(x))
<1>1. DOMAIN Env.scopes = 1 .. Len(Env.scopes)
  BY CurrentIs, ChainType
<1> QED BY <1>1 DEF SetNested, ToModule, SetNestedIndex, SetNestedCached, SetNestedFound, Remember

LEMMA IInvSetNested ==
  ASSUME IInv, NEW x \in Names, SetNested(x), CanDeclare, imported' = imported,
         bypassed' = IF IntoImporter THEN bypassed \cup {x} ELSE bypassed
  PROVE  IInv'
<1> DEFINE found == SetNestedFound(x)
           index == SetNestedIndex(x)
           c == SetNestedCached(x)
           e == Remember(Env, x, index, c)
           L == Loose(imported)
           h == [heap EXCEPT ![Env.scopes[index]].vars = @ \cup {x}]
<1>1. /\ Env \in Envs /\ Env \in EnvRecords /\ Env.scopes \in Chains /\ Env.idx \in [Names -> Nat]
      /\ Len(Env.scopes) \in Nat \ {0} /\ Env.scopes[1] = 1
      /\ \A p \in 1 .. Len(Env.scopes) : Env.scopes[p] \in ScopeIds
  <2>1. Env \in Envs /\ Env \in EnvRecords /\ Env.scopes \in Chains /\ Env.idx \in [Names -> Nat]
        /\ Len(Env.scopes) \in Nat \ {0}
    BY CurrentIs, EnvType
  <2> QED BY <2>1, ChainType
<1>2. bypassed \subseteq bypassed' /\ bypassed' \subseteq Names /\ heap \in Heaps
      /\ "vars" \in Tables /\ "callables" \in Tables
  BY DEF IInv, Tables
<1>3. CASE ToModule(x)
  <2>1. Become(running, template, heap, arrays)
    BY <1>3 DEF SetNested, ToModule
  <2>2. Stacked(running) /\ (template # NoEnv => template \in EnvRecords /\ Forgetful(template))
        /\ imported' \in BOOLEAN
    BY DEF IInv
  <2>3. \A a \in Live(running, template) : \A n \in Names \ bypassed' : CachesOf(heap, a, n, Loose(imported'))
    BY <1>2 DEF IInv, Envs
  <2>4. ArraysOf(Live(running, template), arrays, bypassed')
    BY <1>2 DEF IInv, Envs, ArraysOf
  <2> QED BY <1>2, <2>1, <2>2, <2>3, <2>4, Becomes
<1>4. CASE ~ToModule(x)
  <2>1. index \in 1 .. Len(Env.scopes) /\ Declare(e, x, index)
    BY <1>4, SetNestedIs
  <2>2. index \in Nat /\ index # 0 /\ c \in Nat
    BY <1>1, <2>1 DEF SetNestedCached
  <2> HIDE DEF index, c
  <2>3. e \in EnvRecords /\ e.scopes = Env.scopes /\ e.nested = Env.nested
    <3>1. e = Remember(Env, x, index, c) /\ Env \in EnvRecords
      BY <1>1
    <3> HIDE DEF e
    <3> QED BY <2>2, <3>1, Remembers
  <2>4. Become(WithEnv(e), template, h, arrays)
    BY <2>1, <2>3 DEF Declare
  <2>5. Declares(h, heap, "vars", Env.scopes[index], x)
    BY <1>1, <1>2, <2>1, VarDeclares
  <2> HIDE DEF h
  <2>6. ASSUME x \notin bypassed
        PROVE  /\ Agrees(heap, Env.scopes, "vars", x, found, L)
               /\ found \in 0 .. Len(Env.scopes)
               /\ found = 0 => Env.last.name # x
               /\ CachesOf(heap, Env, x, L)
    BY <1>1, <2>6, FoundAgrees DEF SetNestedFound, IInv
  <2> HIDE DEF found
  <2>7. \/ index = Len(Env.scopes) /\ (Env.last.name = x => c = index \/ found = 0)
        \/ index = found /\ found # 0 /\ (c = index \/ c = Env.idx[x])
    BY DEF index, c, found, SetNestedIndex, SetNestedCached
  <2>8. \/ index = 1 \/ x \in heap[Env.scopes[index]]["vars"] \/ x \in bypassed'
        \/ index = Len(Env.scopes) /\ OwnTop
    <3>1. CASE index = Len(Env.scopes)
      <4>1. CASE IntoImporter
        BY <4>1
      <4>2. CASE ~IntoImporter
        BY <3>1, <4>2, TopOwned
      <4> QED BY <4>1, <4>2
    <3>2. CASE index = found /\ found # 0 /\ x \notin bypassed /\ found # 1
      <4>1. found > 1
        BY <1>1, <2>6, <3>2
      <4> QED BY <2>6, <3>2, <4>1 DEF Agrees
    <3> QED BY <1>2, <2>7, <3>1, <3>2
  <2>9. ASSUME NEW n \in Names \ bypassed' PROVE CachesOf(h, e, n, L)
    <3>1. CachesOf(heap, Env, n, L)
      BY <1>1, <1>2 DEF IInv
    <3>2. CASE n # x
      <4>1. CachesOf(h, Env, n, L)
        BY <1>1, <1>2, <2>5, <3>1, <3>2, CachesDeclared
      <4> QED BY <1>1, <2>2, <3>2, <4>1, CachesRemember
    <3>3. CASE n = x
      <4>0. x \notin bypassed /\ x \notin bypassed'
        BY <1>2, <3>3
      <4>1. Agrees(h, Env.scopes, "callables", x, Env.cidx[x], L)
        <5>1. Agrees(heap, Env.scopes, "callables", x, Env.cidx[x], L) /\ "callables" # "vars"
          BY <3>1, <3>3 DEF CachesOf
        <5> QED BY <1>1, <1>2, <2>5, <5>1, AgreesDeclared
      <4>2. CASE index = found /\ found # 0
        <5>1. Env.scopes[index] = 1 \/ x \in heap[Env.scopes[index]]["vars"]
          <6>1. index = 1 => Env.scopes[index] = 1
            BY <1>1
          <6>2. index > 1 => x \in heap[Env.scopes[index]]["vars"]
            BY <2>6, <4>0, <4>2 DEF Agrees
          <6> QED BY <1>1, <2>1, <6>1, <6>2
        <5>2. Agrees(h, Env.scopes, "vars", x, index, L)
          BY <1>1, <1>2, <2>5, <2>6, <4>0, <4>2, <5>1, AgreesDeclared
        <5>3. Agrees(h, Env.scopes, "vars", x, Env.idx[x], L)
          <6>1. Agrees(heap, Env.scopes, "vars", x, Env.idx[x], L)
            BY <3>1, <3>3 DEF CachesOf
          <6> QED BY <1>1, <1>2, <2>5, <5>1, <6>1, AgreesDeclared
        <5>4. c = index \/ c = Env.idx[x]
          BY DEF c, SetNestedCached, index
        <5> QED BY <1>1, <2>2, <3>3, <4>1, <5>2, <5>3, <5>4, CachesRemember
      <4>3. CASE ~(index = found /\ found # 0)
        <5>1. index = Len(Env.scopes) /\ c = index
          BY <2>6, <4>0, <4>3 DEF index, c, found, SetNestedIndex, SetNestedCached
        <5>2. \A p \in 1 .. Len(Env.scopes) : p <= index
          BY <1>1, <5>1
        <5>3. Agrees(h, Env.scopes, "vars", x, index, L)
          BY <1>1, <1>2, <2>1, <2>5, <5>2, AgreesAtDeclared
        <5> QED BY <1>1, <2>2, <3>3, <4>1, <5>1, <5>3, CachesRemember
      <4> QED BY <4>2, <4>3
    <3> QED BY <3>2, <3>3
  <2> HIDE DEF e
  <2> QED BY <1>2, <2>1, <2>3, <2>4, <2>5, <2>8, <2>9, DeclareStep
<1> QED BY <1>3, <1>4

LEMMA IInvSetVariable ==
  ASSUME IInv, NEW x \in Names, NEW write, SetVariable(x, write)
  PROVE  IInv'
<1>1. CASE write = "global" \/ AtRoot(Env)
  BY <1>1, IInvSetGlobal DEF SetVariable
<1>2. CASE ~(write = "global" \/ AtRoot(Env))
  BY <1>2, IInvSetNested DEF SetVariable
<1> QED BY <1>1, <1>2

LEMMA IInvSetLocalVariable == ASSUME IInv, NEW x \in Names, SetLocalVariable(x) PROVE IInv'
<1> DEFINE depth == Len(Env.scopes)
           e == Remember(Env, x, depth, depth)
           L == Loose(imported)
           h == [heap EXCEPT ![Env.scopes[depth]].vars = @ \cup {x}]
<1>1. /\ Env \in Envs /\ Env \in EnvRecords /\ Env.scopes \in Chains
      /\ depth \in Nat \ {0} /\ depth \in 1 .. depth
      /\ \A p \in 1 .. Len(Env.scopes) : Env.scopes[p] \in ScopeIds
      /\ heap \in Heaps /\ "vars" \in Tables /\ "callables" \in Tables
  <2>1. Env \in Envs /\ Env \in EnvRecords /\ Env.scopes \in Chains /\ depth \in Nat \ {0}
    BY CurrentIs
  <2>2. depth \in 1 .. depth
    BY <2>1
  <2> QED BY <2>1, <2>2, ChainType DEF IInv, Tables
<1>2. imported' = imported /\ bypassed' = bypassed /\ bypassed \subseteq Names
  BY DEF SetLocalVariable, IInv
<1>3. OwnTop
  <2>1. CanDeclare /\ ~IntoImporter
    BY DEF SetLocalVariable, CanDeclare, IntoImporter
  <2> QED BY <2>1, TopOwned
<1> HIDE DEF depth
<1>4. e \in EnvRecords /\ e.scopes = Env.scopes /\ e.nested = Env.nested
  <2>1. e = Remember(Env, x, depth, depth) /\ depth \in Nat /\ Env \in EnvRecords
    BY <1>1
  <2> HIDE DEF e
  <2> QED BY <2>1, Remembers
<1>5. Become(WithEnv(e), template, h, arrays)
  <2>1. Declare(e, x, depth)
    BY DEF SetLocalVariable, Local, Remember, depth
  <2> QED BY <1>4, <2>1 DEF Declare
<1>6. Declares(h, heap, "vars", Env.scopes[depth], x)
  BY <1>1, VarDeclares DEF depth
<1> HIDE DEF h
<1>7. ASSUME NEW n \in Names \ bypassed' PROVE CachesOf(h, e, n, L)
  <2>1. CachesOf(heap, Env, n, L)
    BY <1>1, <1>2 DEF IInv
  <2>2. CASE n # x
    <3>1. CachesOf(h, Env, n, L)
      BY <1>1, <1>6, <2>1, <2>2, CachesDeclared
    <3> QED BY <1>1, <2>2, <3>1, CachesRemember
  <2>3. CASE n = x
    <3>1. Agrees(h, Env.scopes, "callables", x, Env.cidx[x], L)
      <4>1. Agrees(heap, Env.scopes, "callables", x, Env.cidx[x], L) /\ "callables" # "vars"
        BY <2>1, <2>3 DEF CachesOf
      <4> QED BY <1>1, <1>6, <4>1, AgreesDeclared
    <3>2. depth \in 1 .. Len(Env.scopes) /\ \A p \in 1 .. Len(Env.scopes) : p <= depth
      BY <1>1 DEF depth
    <3>3. Agrees(h, Env.scopes, "vars", x, depth, L)
      BY <1>1, <1>6, <3>2, AgreesAtDeclared
    <3> QED BY <1>1, <2>3, <3>1, <3>3, CachesRemember
  <2> QED BY <2>2, <2>3
<1> HIDE DEF e
<1> QED BY <1>1, <1>2, <1>3, <1>4, <1>5, <1>6, <1>7, DeclareStep DEF depth

LEMMA ClosureIs ==
  ASSUME NEW e \in EnvRecords
  PROVE  /\ Closure(e) \in EnvRecords /\ Closure(e).scopes = e.scopes /\ Closure(e).nested = e.nested
         /\ Closure(e).forwards = "nil" /\ Forgetful(Closure(e))
<1>1. e.scopes \in Chains /\ e.nested \in [arr : Nat, len : Nat] /\ "nil" \in {"nil", "none", "some"}
  BY EnvType
<1> QED BY <1>1, NewEnvType DEF Closure

LEMMA IInvSetCallable == ASSUME IInv, NEW x \in Names, SetCallable(x) PROVE IInv'
<1> DEFINE depth == Len(Env.scopes)
           e == RememberCallable(Env, x, depth)
           L == Loose(imported)
           h == [heap EXCEPT ![Env.scopes[depth]].callables = @ \cup {x}]
<1>1. /\ Env \in Envs /\ Env \in EnvRecords /\ Env.scopes \in Chains
      /\ depth \in Nat \ {0} /\ depth \in 1 .. depth
      /\ \A p \in 1 .. Len(Env.scopes) : Env.scopes[p] \in ScopeIds
      /\ heap \in Heaps /\ "vars" \in Tables /\ "callables" \in Tables
  <2>1. Env \in Envs /\ Env \in EnvRecords /\ Env.scopes \in Chains /\ depth \in Nat \ {0}
    BY CurrentIs
  <2>2. depth \in 1 .. depth
    BY <2>1
  <2> QED BY <2>1, <2>2, ChainType DEF IInv, Tables
<1>2. /\ imported' = imported /\ bypassed \subseteq bypassed' /\ bypassed' \subseteq Names
      /\ IntoImporter => x \in bypassed'
  BY DEF SetCallable, IInv
<1>3. x \in bypassed' \/ OwnTop
  <2>1. CanDeclare
    BY DEF SetCallable, MayDeclareCallable
  <2> QED BY <1>2, <2>1, TopOwned
<1> HIDE DEF depth
<1>4. e \in EnvRecords /\ e.scopes = Env.scopes /\ e.nested = Env.nested
  <2>1. e = RememberCallable(Env, x, depth) /\ depth \in Nat /\ Env \in EnvRecords
    BY <1>1
  <2> HIDE DEF e
  <2> QED BY <2>1, RemembersCallable
<1>5. Become(WithEnv(e), Closure(e), h, arrays)
  <2>1. Become(WithEnv(e), Closure(e), [heap EXCEPT ![e.scopes[depth]].callables = @ \cup {x}], arrays)
    BY DEF SetCallable, RememberCallable, depth
  <2> QED BY <1>4, <2>1
<1>6. Declares(h, heap, "callables", Env.scopes[depth], x)
  BY <1>1, CallableDeclares DEF depth
<1> HIDE DEF h
<1>7. ASSUME NEW n \in Names \ bypassed' PROVE CachesOf(h, e, n, L)
  <2>1. CachesOf(heap, Env, n, L)
    BY <1>1, <1>2 DEF IInv
  <2>2. CASE n # x
    <3>1. CachesOf(h, Env, n, L)
      BY <1>1, <1>6, <2>1, <2>2, CachesDeclared
    <3> QED BY <1>1, <2>2, <3>1, CachesRememberCallable
  <2>3. CASE n = x
    <3>1. /\ Agrees(h, Env.scopes, "vars", x, Env.idx[x], L)
          /\ Env.last.name = x => /\ Env.last.index # 0
                                  /\ Agrees(h, Env.scopes, "vars", x, Env.last.index, L)
      <4>1. /\ Agrees(heap, Env.scopes, "vars", x, Env.idx[x], L) /\ "callables" # "vars"
            /\ Env.last.name = x => /\ Env.last.index # 0
                                    /\ Agrees(heap, Env.scopes, "vars", x, Env.last.index, L)
        BY <2>1, <2>3 DEF CachesOf
      <4>2. \A i : Agrees(heap, Env.scopes, "vars", x, i, L) => Agrees(h, Env.scopes, "vars", x, i, L)
        BY <1>1, <1>6, <4>1, AgreesDeclared
      <4> QED BY <4>1, <4>2
    <3>2. depth \in 1 .. Len(Env.scopes) /\ \A p \in 1 .. Len(Env.scopes) : p <= depth
      BY <1>1 DEF depth
    <3>3. Agrees(h, Env.scopes, "callables", x, depth, L)
      BY <1>1, <1>6, <3>2, AgreesAtDeclared
    <3> QED BY <1>1, <2>3, <3>1, <3>3, CachesRememberCallable
  <2> QED BY <2>2, <2>3
<1>8. Closure(e) \in EnvRecords /\ Forgetful(Closure(e))
      /\ Closure(e).scopes = Env.scopes /\ Closure(e).nested = Env.nested
  BY <1>4, ClosureIs
<1> HIDE DEF e
<1>9. depth \in 1 .. Len(Env.scopes) /\ depth = Len(Env.scopes)
  BY <1>1 DEF depth
<1> QED BY <1>1, <1>2, <1>3, <1>4, <1>5, <1>6, <1>7, <1>8, <1>9, DeclareStep

-----------------------------------------------------------------------------
(* Steps that replace the top frame *)

LEMMA FrameStep ==
  ASSUME IInv,
         NEW e \in EnvRecords, NEW blocks \in Seq(BlockRecords), NEW arr,
         Become(WithTop(e, blocks), template, heap, arr), Stacked(WithTop(e, blocks)),
         bypassed' = bypassed, imported' = imported,
         \A n \in Names \ bypassed : CachesOf(heap, e, n, Loose(imported)),
         arr \in [ArrayIds -> Seq(BOOLEAN)], Backed(e, arr), \A x \in Envs : Backed(x, arr),
         Empty(arrays) => Empty(arr)
  PROVE  IInv'
<1> DEFINE run == WithTop(e, blocks)
<1>1. Replaces(run, running, e, blocks)
  BY CurrentIs, WithTopReplaces
<1> HIDE DEF run
<1>2. /\ template # NoEnv => template \in EnvRecords /\ Forgetful(template)
      /\ heap \in Heaps /\ imported' \in BOOLEAN /\ bypassed' \subseteq Names
  BY DEF IInv
<1>3. ASSUME NEW x \in Live(run, template) PROVE x = e \/ x \in Envs
  <2>1. template # NoEnv => template \in Envs
    BY CurrentIs, LiveIs DEF Envs
  <2> QED BY <1>1, <2>1, CurrentIs, LiveReplaced, LowerIs
<1>4. \A x \in Live(run, template) : \A n \in Names \ bypassed' : CachesOf(heap, x, n, Loose(imported'))
  BY <1>3 DEF IInv
<1>5. ArraysOf(Live(run, template), arr, bypassed')
  BY <1>3 DEF IInv, ArraysOf
<1> QED BY <1>2, <1>4, <1>5, Becomes DEF run

LEMMA SemiIs ==
  ASSUME NEW e \in EnvRecords, NEW semi \in BOOLEAN, NEW new, new = [e EXCEPT !.semi = semi]
  PROVE  /\ new \in EnvRecords /\ new.scopes = e.scopes /\ new.nested = e.nested
         /\ new.idx = e.idx /\ new.cidx = e.cidx /\ new.last = e.last
BY DEF EnvRecords

(* A block that opens no scope, entered or left. *)
LEMMA NoScopeStep ==
  ASSUME IInv, NEW semi \in BOOLEAN, NEW blocks \in Seq(BlockRecords),
         Become(WithTop([Env EXCEPT !.semi = semi], blocks), template, heap, arrays),
         bypassed' = bypassed, imported' = imported,
         \A base \in Nat, depth \in Nat : Levels(Blocks, base, depth) => Levels(blocks, base, depth)
  PROVE  IInv'
<1> DEFINE e == [Env EXCEPT !.semi = semi]
           m == Len(running)
<1>1. /\ e \in EnvRecords /\ e.scopes = Env.scopes /\ e.nested = Env.nested
      /\ e.idx = Env.idx /\ e.cidx = Env.cidx /\ e.last = Env.last
  <2>1. Env \in EnvRecords
    BY CurrentIs
  <2> QED BY <2>1, SemiIs
<1> HIDE DEF e
<1>2. Stacked(running) /\ m \in 1 .. m /\ Env = running[m].env /\ Blocks = running[m].blocks
      /\ Len(Env.scopes) \in Nat
  <2>1. m \in Nat \ {0}
    BY CurrentIs
  <2>2. m \in 1 .. m
    BY <2>1
  <2> QED BY <2>2, CurrentIs
<1>3. PICK shared \in Nat \ {0} : Opened(running, m, shared)
  BY <1>2 DEF Stacked
<1>4. Replaces(WithTop(e, blocks), running, e, blocks)
  BY <1>1, <1>2, WithTopReplaces
<1>5. Levels(blocks, shared + (IF running[m].kind = "callable" THEN 1 ELSE 0), Len(e.scopes))
  <2>1. shared + (IF running[m].kind = "callable" THEN 1 ELSE 0) \in Nat
    OBVIOUS
  <2>2. Levels(Blocks, shared + (IF running[m].kind = "callable" THEN 1 ELSE 0), Len(Env.scopes))
    BY <1>2, <1>3 DEF Opened
  <2> QED BY <1>1, <1>2, <2>1, <2>2
<1>6. \A p \in 1 .. Len(e.scopes) : p <= Len(running[m].env.scopes) /\ e.scopes[p] = running[m].env.scopes[p]
  BY <1>1, <1>2
<1>7. Stacked(WithTop(e, blocks))
  BY <1>1, <1>2, <1>3, <1>4, <1>5, <1>6, StackedReplaced
<1>8. \A n \in Names \ bypassed : CachesOf(heap, e, n, Loose(imported))
  BY <1>1, CurrentIs DEF IInv, CachesOf
<1>9. arrays \in [ArrayIds -> Seq(BOOLEAN)] /\ Backed(e, arrays) /\ \A x \in Envs : Backed(x, arrays)
  <2>1. arrays \in [ArrayIds -> Seq(BOOLEAN)] /\ \A x \in Envs : Backed(x, arrays)
    BY DEF IInv, ArraysOf
  <2>2. Backed(Env, arrays)
    BY <2>1, CurrentIs
  <2> QED BY <1>1, <2>1, <2>2 DEF Backed
<1> QED BY <1>1, <1>7, <1>8, <1>9, FrameStep DEF e

-----------------------------------------------------------------------------
(* Opening and closing a scope *)

(* What append leaves: the arrays every environment needs, one slot more for the
   one that appends. *)
Appended(slice, s) ==
    /\ s.arrays \in [ArrayIds -> Seq(BOOLEAN)]
    /\ \A x \in Envs : Backed(x, s.arrays)
    /\ Empty(arrays) => Empty(s.arrays)
    /\ s.nested \in [arr : Nat, len : Nat]
    /\ \/ s.nested = Nil
       \/ /\ slice # Nil
          /\ s.nested.arr \in ArrayIds
          /\ s.nested.len = slice.len + 1
          /\ s.nested.len <= Len(s.arrays[s.nested.arr])
          /\ Len(s.arrays[s.nested.arr]) >= 1

LEMMA ArrayIdsNat == \A a \in ArrayIds : a \in Nat
BY DEF ArrayIds

LEMMA AppendedIs ==
  ASSUME IInv, FreeArray # {}, NEW e \in Envs
  PROVE  Appended(e.nested, Append1(e.nested, FALSE))
<1> DEFINE slice == e.nested
           old == arrays[slice.arr]
           n == slice.len + 1
           a == Min(FreeArray)
           twice == [i \in 1 .. (2 * slice.len) |-> IF i < n THEN old[i] ELSE i = n /\ FALSE]
           s == Append1(slice, FALSE)
<1>1. arrays \in [ArrayIds -> Seq(BOOLEAN)] /\ (\A x \in Envs : Backed(x, arrays)) /\ e \in EnvRecords
  BY CurrentIs DEF IInv, ArraysOf
<1>2. slice \in [arr : Nat, len : Nat]
  BY <1>1, EnvType
<1>3. CASE slice = Nil
  <2>1. s = [nested |-> Nil, arrays |-> arrays]
    BY <1>3 DEF Append1
  <2> HIDE DEF s
  <2>2. s.nested = Nil /\ s.arrays = arrays
    BY <2>1
  <2> QED BY <1>1, <2>2, NilType DEF Appended, s
<1>4. CASE slice # Nil
  <2>1. /\ slice.arr \in ArrayIds /\ slice.len \in Nat /\ slice.len = Len(e.scopes) - 1
        /\ old \in Seq(BOOLEAN) /\ Len(old) \in Nat /\ Len(old) >= 1 /\ slice.len <= Len(old)
        /\ n \in Nat /\ n >= 1
    BY <1>1, <1>2, <1>4 DEF Backed
  <2>2. CASE slice.len < Len(old)
    <3> DEFINE nested == [slice EXCEPT !.len = n]
               arr == [arrays EXCEPT ![slice.arr][n] = FALSE]
               new == [old EXCEPT ![n] = FALSE]
    <3>1. s = [nested |-> nested, arrays |-> arr]
      BY <1>4, <2>2 DEF Append1
    <3>2. nested \in [arr : Nat, len : Nat] /\ nested.arr = slice.arr /\ nested.len = n
      BY <1>2, <2>1
    <3>3. n \in 1 .. Len(old)
      BY <2>1, <2>2
    <3>4. new \in Seq(BOOLEAN) /\ Len(new) = Len(old)
          /\ \A i \in 1 .. Len(new) : new[i] => old[i]
      <4>1. old \in Seq(BOOLEAN) /\ FALSE \in BOOLEAN /\ n \in 1 .. Len(old)
        BY <2>1, <3>3
      <4> HIDE DEF old, n
      <4>2. new \in Seq(BOOLEAN) /\ Len(new) = Len(old)
        BY <4>1, ExceptSeq
      <4>3. \A i \in 1 .. Len(old) : new[i] => old[i]
        <5>1. DOMAIN old = 1 .. Len(old)
          BY <4>1
        <5> QED BY <5>1, Zenon
      <4> QED BY <4>2, <4>3
    <3>5. arr = [arrays EXCEPT ![slice.arr] = new]
      OBVIOUS
    <3> HIDE DEF new
    <3>6. /\ arr \in [ArrayIds -> Seq(BOOLEAN)] /\ arr[slice.arr] = new
          /\ \A b \in ArrayIds : b # slice.arr => arr[b] = arrays[b]
      BY <1>1, <2>1, <3>4, <3>5
    <3> HIDE DEF nested, arr, s
    <3>7. s.nested = nested /\ s.arrays = arr
      BY <3>1
    <3>8. \A b \in ArrayIds : Len(arr[b]) = Len(arrays[b])
      BY <3>4, <3>6
    <3>9. \A x \in Envs : Backed(x, arr)
      BY <1>1, <3>8 DEF Backed
    <3>10. Empty(arrays) => Empty(arr)
      BY <2>1, <3>4, <3>6 DEF Empty
    <3>11. n <= Len(arr[slice.arr]) /\ Len(arr[slice.arr]) >= 1
      BY <2>1, <3>3, <3>4, <3>6
    <3>12. Appended(slice, s)
      <4> HIDE DEF slice
      <4> QED BY <1>4, <2>1, <3>2, <3>6, <3>7, <3>9, <3>10, <3>11 DEF Appended
    <3> QED BY <3>12 DEF s
  <2>3. CASE ~(slice.len < Len(old))
    <3> DEFINE nested == [arr |-> a, len |-> n]
               arr == [arrays EXCEPT ![a] = twice]
    <3>1. s = [nested |-> nested, arrays |-> arr]
      BY <1>4, <2>3 DEF Append1
    <3>2. a \in FreeArray
      <4>1. FreeArray \in SUBSET (1 .. MaxArrays) /\ MaxArrays \in Nat
        BY BoundsType DEF FreeArray, ArrayIds
      <4> QED BY <4>1, HasExtremes
    <3>3. a \in ArrayIds /\ \A x \in Envs : x.nested.arr # a
      BY <3>2 DEF FreeArray, Envs
    <3>4. slice.len = Len(old) /\ 2 * slice.len \in Nat /\ n <= 2 * slice.len
      BY <2>1, <2>3
    <3>5. twice \in Seq(BOOLEAN) /\ Len(twice) = 2 * slice.len
          /\ \A i \in 1 .. Len(twice) : twice[i] = IF i < n THEN old[i] ELSE FALSE
      <4>1. \A i \in 1 .. (2 * slice.len) : i < n => old[i] \in BOOLEAN
        BY <2>1, <3>4
      <4>2. twice \in [1 .. (2 * slice.len) -> BOOLEAN]
        BY <4>1
      <4>3. twice \in Seq(BOOLEAN) /\ Len(twice) = 2 * slice.len
        BY <3>4, <4>2
      <4> QED BY <4>3
    <3> HIDE DEF twice
    <3>6. /\ arr \in [ArrayIds -> Seq(BOOLEAN)] /\ arr[a] = twice
          /\ \A b \in ArrayIds : b # a => arr[b] = arrays[b]
      BY <1>1, <3>3, <3>5
    <3>8. nested \in [arr : Nat, len : Nat] /\ nested.arr = a /\ nested.len = n
      <4> HIDE DEF a, n
      <4>2. a \in Nat
        BY <3>3, ArrayIdsNat
      <4> QED BY <2>1, <4>2
    <3> HIDE DEF nested, arr, s
    <3>7. s.nested = nested /\ s.arrays = arr
      BY <3>1
    <3>9. \A x \in Envs : Backed(x, arr)
      BY <1>1, <3>3, <3>6 DEF Backed
    <3>10. ASSUME Empty(arrays) PROVE Empty(arr)
      <4>1. \A i \in 1 .. Len(old) : ~old[i]
        BY <2>1, <3>10 DEF Empty
      <4>2. ASSUME NEW i \in 1 .. Len(twice) PROVE ~twice[i]
        <5>1. i < n => i \in 1 .. Len(old)
          BY <2>1, <3>4, <3>5
        <5> QED BY <3>5, <4>1, <5>1
      <4> QED BY <3>6, <3>10, <4>2 DEF Empty
    <3>11. n <= Len(arr[a]) /\ Len(arr[a]) >= 1
      BY <2>1, <3>4, <3>5, <3>6
    <3>12. Appended(slice, s)
      <4> HIDE DEF slice, a, n
      <4> QED BY <1>4, <3>3, <3>6, <3>7, <3>8, <3>9, <3>10, <3>11 DEF Appended, n
    <3> QED BY <3>12 DEF s
  <2> QED BY <2>2, <2>3
<1> QED BY <1>3, <1>4

(* An environment with one scope more, which nothing refers to yet. *)
Pushed(p, e) ==
    \E t \in ScopeIds :
        /\ \A x \in Envs : ~In(t, x)
        /\ heap[t] = Blank
        /\ p.env.scopes = Append(e.scopes, t)
        /\ p.env \in EnvRecords
        /\ p.env.idx = e.idx /\ p.env.cidx = e.cidx /\ p.env.last = e.last
        /\ p.env.forwards = e.forwards
        /\ p.arrays \in [ArrayIds -> Seq(BOOLEAN)]
        /\ Backed(p.env, p.arrays)
        /\ \A x \in Envs : Backed(x, p.arrays)
        /\ Empty(arrays) => Empty(p.arrays)

LEMMA PushIs ==
  ASSUME IInv, FreeScope # {}, FreeArray # {}, NEW e0 \in Envs,
         NEW e \in EnvRecords, e.scopes = e0.scopes, e.nested = e0.nested, NEW semi \in BOOLEAN
  PROVE  Pushed(Push(e, semi), e)
<1> DEFINE t == Min(FreeScope)
           s == Append1(e.nested, FALSE)
           new == [e EXCEPT !.scopes = Append(@, t), !.nested = s.nested, !.semi = semi]
           p == Push(e, semi)
<1>1. p = [env |-> new, arrays |-> s.arrays]
  BY DEF Push
<1>2. p.env = new /\ p.arrays = s.arrays
  BY <1>1
<1>3. t \in FreeScope
  <2>1. FreeScope \in SUBSET (1 .. MaxScopes) /\ MaxScopes \in Nat
    BY BoundsType DEF FreeScope, ScopeIds
  <2> QED BY <2>1, HasExtremes
<1>4. t \in ScopeIds /\ \A x \in Envs : ~In(t, x)
  <2>1. t \in ScopeIds /\ \A x \in Envs : t \notin Range(x.scopes)
    BY <1>3 DEF FreeScope, Envs
  <2> QED BY <2>1, CurrentIs, RangeIs
<1>5. heap[t] = Blank
  BY <1>4 DEF IInv
<1>6. Appended(e.nested, s)
  BY AppendedIs
<1> HIDE DEF t, s, p
<1>7. e.scopes \in Chains /\ e.scopes \in Seq(ScopeIds) /\ Len(e.scopes) \in Nat /\ Len(e.scopes) >= 1
      /\ e.scopes[1] = 1 /\ \A i, j \in 1 .. Len(e.scopes) : e.scopes[i] = e.scopes[j] => i = j
  BY EnvType, ChainType
<1> DEFINE chain == Append(e.scopes, t)
<1>8. chain \in Seq(ScopeIds) /\ Len(chain) = Len(e.scopes) + 1 /\ chain[Len(e.scopes) + 1] = t
      /\ \A i \in 1 .. Len(e.scopes) : chain[i] = e.scopes[i]
  BY <1>4, <1>7
<1>9. \A i \in 1 .. Len(e.scopes) : e.scopes[i] # t
  BY <1>4 DEF In
<1> HIDE DEF chain
<1>10. chain \in Chains
  <2>1. chain[1] = 1
    BY <1>7, <1>8
  <2>2. ASSUME NEW i \in 1 .. Len(chain), NEW j \in 1 .. Len(chain), chain[i] = chain[j] PROVE i = j
    <3>1. (i = Len(e.scopes) + 1 \/ i \in 1 .. Len(e.scopes))
          /\ (j = Len(e.scopes) + 1 \/ j \in 1 .. Len(e.scopes))
      BY <1>7, <1>8
    <3> QED BY <1>7, <1>8, <1>9, <2>2, <3>1
  <2> QED BY <1>7, <1>8, <2>1, <2>2 DEF Chains
<1>11. /\ new \in EnvRecords /\ new.scopes = chain /\ new.nested = s.nested
       /\ new.idx = e.idx /\ new.cidx = e.cidx /\ new.last = e.last /\ new.forwards = e.forwards
  <2>1. new = [[[e EXCEPT !.scopes = chain] EXCEPT !.nested = s.nested] EXCEPT !.semi = semi]
    BY DEF EnvRecords, chain
  <2>2. s.nested \in [arr : Nat, len : Nat]
    BY <1>6 DEF Appended
  <2> HIDE DEF new
  <2> QED BY <1>10, <2>1, <2>2 DEF EnvRecords
<1> HIDE DEF new
<1>12. Backed(new, s.arrays)
  <2>1. CASE s.nested = Nil
    BY <1>11, <2>1 DEF Backed
  <2>2. CASE s.nested # Nil
    <3>1. /\ e.nested # Nil /\ s.nested.arr \in ArrayIds /\ s.nested.len = e.nested.len + 1
          /\ s.nested.len <= Len(s.arrays[s.nested.arr]) /\ Len(s.arrays[s.nested.arr]) >= 1
      BY <1>6, <2>2 DEF Appended
    <3>2. e.nested.len = Len(e.scopes) - 1
      <4>1. Backed(e0, arrays)
        BY DEF IInv, ArraysOf
      <4> QED BY <3>1, <4>1 DEF Backed
    <3>3. e.nested.len + 1 = (Len(e.scopes) + 1) - 1
      BY <1>7, <3>2
    <3> QED BY <1>8, <1>11, <3>1, <3>3 DEF Backed
  <2> QED BY <2>1, <2>2
<1>13. Pushed(p, e)
  BY <1>2, <1>4, <1>5, <1>6, <1>11, <1>12 DEF Pushed, Appended, chain
<1> QED BY <1>13 DEF p

LEMMA AgreesPushed ==
  ASSUME NEW s \in Chains, NEW t \in ScopeIds, NEW h, h[t] = Blank, NEW table \in Tables,
         NEW n, NEW i, NEW loose, Agrees(h, s, table, n, i, loose)
  PROVE  Agrees(h, Append(s, t), table, n, i, loose)
<1> DEFINE new == Append(s, t)
<1>1. s \in Seq(ScopeIds) /\ Len(s) \in Nat
  BY ChainType
<1>2. Len(new) = Len(s) + 1 /\ new[Len(s) + 1] = t /\ \A p \in 1 .. Len(s) : new[p] = s[p]
  BY <1>1
<1>3. n \notin h[t][table]
  BY DEF Blank, Tables
<1> HIDE DEF new
<1>4. CASE i = 0
  BY <1>4 DEF Agrees
<1>5. CASE i # 0
  <2>1. /\ i \in 1 .. Len(s) /\ (i > 1 \/ n \notin loose => n \in h[s[i]][table])
        /\ \A p \in 1 .. Len(s) : n \in h[s[p]][table] => p <= i
    BY <1>5 DEF Agrees
  <2>2. i \in 1 .. Len(new) /\ new[i] = s[i]
    BY <1>1, <1>2, <2>1
  <2>3. ASSUME NEW p \in 1 .. Len(new), n \in h[new[p]][table] PROVE p <= i
    <3>1. p = Len(s) + 1 \/ p \in 1 .. Len(s)
      BY <1>1, <1>2
    <3> QED BY <1>2, <1>3, <2>1, <2>3, <3>1
  <2>4. Agrees(h, new, table, n, i, loose)
    BY <2>1, <2>2, <2>3 DEF Agrees
  <2> QED BY <2>4 DEF new
<1> QED BY <1>4, <1>5

LEMMA CachesPushed ==
  ASSUME NEW e \in EnvRecords, NEW new \in EnvRecords, NEW t \in ScopeIds, NEW h, h[t] = Blank,
         new.scopes = Append(e.scopes, t), new.idx = e.idx, new.cidx = e.cidx, new.last = e.last,
         NEW n, NEW loose, CachesOf(h, e, n, loose)
  PROVE  CachesOf(h, new, n, loose)
<1>1. e.scopes \in Chains /\ "vars" \in Tables /\ "callables" \in Tables
  BY EnvType DEF Tables
<1>2. \A table \in Tables : \A i : Agrees(h, e.scopes, table, n, i, loose)
                                     => Agrees(h, new.scopes, table, n, i, loose)
  BY <1>1, AgreesPushed
<1> QED BY <1>1, <1>2 DEF CachesOf

LEMMA IInvEnterScope ==
  ASSUME IInv, NEW semiGlobal \in BOOLEAN, NEW when \in BOOLEAN, EnterScope(semiGlobal, when)
  PROVE  IInv'
<1> DEFINE block == [flow |-> semiGlobal, scope |-> when, semi |-> Env.semi]
           semi == semiGlobal /\ Env.semi
           blocks == Append(Blocks, block)
           p == Push(Env, semi)
           m == Len(running)
<1>1. /\ Stacked(running) /\ m \in 1 .. m /\ Env = running[m].env /\ Blocks = running[m].blocks
      /\ Env \in Envs /\ Env \in EnvRecords /\ Env.semi \in BOOLEAN /\ Blocks \in Seq(BlockRecords)
      /\ Env.scopes \in Chains /\ Len(Env.scopes) \in Nat
  <2>1. m \in Nat \ {0} /\ Env \in EnvRecords
    BY CurrentIs
  <2>2. m \in 1 .. m
    BY <2>1
  <2> QED BY <2>1, <2>2, CurrentIs, EnvType
<1>2. block \in BlockRecords /\ block.scope = when /\ semi \in BOOLEAN
  BY <1>1 DEF BlockRecords
<1>3. imported' = imported /\ bypassed' = bypassed
  BY DEF EnterScope
<1>4. CASE ~when
  <2>1. Become(WithTop([Env EXCEPT !.semi = semi], blocks), template, heap, arrays)
    BY <1>4 DEF EnterScope
  <2> HIDE DEF block, semi
  <2>2. blocks \in Seq(BlockRecords)
    BY <1>1, <1>2
  <2>3. ASSUME NEW base \in Nat, NEW depth \in Nat, Levels(Blocks, base, depth)
        PROVE  Levels(blocks, base, depth)
    <3>1. Levels(blocks, base, depth + (IF block.scope THEN 1 ELSE 0))
      BY <1>1, <1>2, <2>3, LevelsEnter
    <3>2. depth + (IF block.scope THEN 1 ELSE 0) = depth
      BY <1>2, <1>4
    <3> QED BY <3>1, <3>2
  <2> HIDE DEF blocks
  <2> QED BY <1>2, <1>3, <2>1, <2>2, <2>3, NoScopeStep
<1>5. CASE when
  <2>1. Become(WithTop(p.env, blocks), template, heap, p.arrays) /\ FreeScope # {} /\ FreeArray # {}
    BY <1>5 DEF EnterScope, CanPush
  <2> HIDE DEF block, semi
  <2>2. blocks \in Seq(BlockRecords)
    BY <1>1, <1>2
  <2>3. Pushed(p, Env)
    BY <1>1, <1>2, <2>1, PushIs
  <2> HIDE DEF p
  <2>4. PICK t \in ScopeIds :
        /\ \A x \in Envs : ~In(t, x)
        /\ heap[t] = Blank
        /\ p.env.scopes = Append(Env.scopes, t)
        /\ p.env \in EnvRecords
        /\ p.env.idx = Env.idx /\ p.env.cidx = Env.cidx /\ p.env.last = Env.last
        /\ p.arrays \in [ArrayIds -> Seq(BOOLEAN)]
        /\ Backed(p.env, p.arrays)
        /\ \A x \in Envs : Backed(x, p.arrays)
        /\ Empty(arrays) => Empty(p.arrays)
    BY <2>3 DEF Pushed
  <2>5. PICK shared \in Nat \ {0} : Opened(running, m, shared)
    BY <1>1 DEF Stacked
  <2> DEFINE base == shared + (IF running[m].kind = "callable" THEN 1 ELSE 0)
  <2>6. Env.scopes \in Seq(ScopeIds)
    BY <1>1, ChainType
  <2>7. Len(p.env.scopes) = Len(Env.scopes) + 1 /\ p.env.scopes[Len(Env.scopes) + 1] = t
        /\ \A i \in 1 .. Len(Env.scopes) : p.env.scopes[i] = Env.scopes[i]
    BY <1>1, <2>4, <2>6
  <2>8. Levels(blocks, base, Len(p.env.scopes))
    <3>1. base \in Nat /\ Levels(Blocks, base, Len(Env.scopes))
      BY <1>1, <2>5 DEF Opened
    <3> HIDE DEF base
    <3>2. Levels(blocks, base, Len(Env.scopes) + (IF block.scope THEN 1 ELSE 0))
      BY <1>1, <1>2, <3>1, LevelsEnter
    <3>3. Len(Env.scopes) + (IF block.scope THEN 1 ELSE 0) = Len(p.env.scopes)
      BY <1>2, <1>5, <2>7
    <3> QED BY <3>2, <3>3
  <2>9. ASSUME NEW q \in 1 .. Len(p.env.scopes), q > shared
        PROVE  \/ q <= Len(running[m].env.scopes) /\ p.env.scopes[q] = running[m].env.scopes[q]
               \/ \A j \in 1 .. m - 1 : \A r \in 1 .. Len(running[j].env.scopes) :
                     p.env.scopes[q] # running[j].env.scopes[r]
    <3>1. CASE q \in 1 .. Len(Env.scopes)
      BY <1>1, <2>7, <3>1
    <3>2. CASE q = Len(Env.scopes) + 1
      <4>1. \A j \in 1 .. m - 1 : \A r \in 1 .. Len(running[j].env.scopes) : t # running[j].env.scopes[r]
        BY <2>4, LowerIs DEF In
      <4> QED BY <2>7, <3>2, <4>1
    <3> QED BY <1>1, <2>7, <3>1, <3>2
  <2>10. Replaces(WithTop(p.env, blocks), running, p.env, blocks)
    BY <1>1, <2>2, <2>4, WithTopReplaces
  <2>11. Stacked(WithTop(p.env, blocks))
    BY <1>1, <2>2, <2>4, <2>5, <2>8, <2>9, <2>10, StackedReplaced
  <2>12. \A n \in Names \ bypassed : CachesOf(heap, p.env, n, Loose(imported))
    <3>1. \A n \in Names \ bypassed : CachesOf(heap, Env, n, Loose(imported))
      BY <1>1 DEF IInv
    <3> QED BY <1>1, <2>4, <3>1, CachesPushed
  <2> HIDE DEF blocks
  <2> QED BY <1>3, <2>1, <2>2, <2>4, <2>11, <2>12, FrameStep
<1> QED BY <1>4, <1>5

(* What popping a scope leaves of an environment. *)
LEMMA PopIs ==
  ASSUME IInv, Len(Env.scopes) >= 2, NEW semi \in BOOLEAN, NEW e, e = Pop(Env, semi)
  PROVE  /\ e \in EnvRecords /\ e.scopes = Front(Env.scopes)
         /\ e.idx = [n \in Names |-> IF n \in heap[Last(Env.scopes)].vars THEN 0 ELSE Env.idx[n]]
         /\ e.cidx = [n \in Names |-> IF n \in heap[Last(Env.scopes)].callables THEN 0 ELSE Env.cidx[n]]
         /\ e.last = NoLast
         /\ Backed(e, arrays)
<1> DEFINE gone == heap[Last(Env.scopes)]
           idx == [n \in Names |-> IF n \in gone.vars THEN 0 ELSE Env.idx[n]]
           cidx == [n \in Names |-> IF n \in gone.callables THEN 0 ELSE Env.cidx[n]]
           chain == Front(Env.scopes)
           nested == IF Env.nested = Nil THEN Nil ELSE [arr |-> Env.nested.arr, len |-> Env.nested.len - 1]
<1>1. /\ Env \in Envs /\ Env \in EnvRecords /\ Env.scopes \in Chains /\ Env.idx \in [Names -> Nat]
      /\ Env.cidx \in [Names -> Nat] /\ Env.nested \in [arr : Nat, len : Nat]
      /\ Env.scopes \in Seq(ScopeIds) /\ Len(Env.scopes) \in Nat /\ Env.scopes[1] = 1
      /\ \A p, q \in 1 .. Len(Env.scopes) : Env.scopes[p] = Env.scopes[q] => p = q
  BY CurrentIs, EnvType, ChainType
<1>2. /\ chain \in Seq(ScopeIds) /\ Len(chain) = Len(Env.scopes) - 1
      /\ \A i \in 1 .. Len(Env.scopes) - 1 : chain[i] = Env.scopes[i]
  <2>1. Env.scopes # <<>>
    BY <1>1
  <2> QED BY <1>1, <2>1, LastAndFront
<1> HIDE DEF chain
<1>3. chain \in Chains
  <2>1. chain[1] = 1 /\ Len(chain) >= 1
    BY <1>1, <1>2
  <2>2. \A p, q \in 1 .. Len(chain) : chain[p] = chain[q] => p = q
    BY <1>1, <1>2
  <2> QED BY <1>2, <2>1, <2>2 DEF Chains
<1>4. idx \in [Names -> Nat] /\ cidx \in [Names -> Nat]
  BY <1>1
<1>5. /\ nested \in [arr : Nat, len : Nat]
      /\ nested = Nil \/ /\ Env.nested # Nil /\ nested.arr = Env.nested.arr
                         /\ nested.len = Env.nested.len - 1
  <2>1. CASE Env.nested = Nil
    BY <2>1, NilType
  <2>2. CASE Env.nested # Nil
    <3>1. Backed(Env, arrays)
      BY <1>1 DEF IInv, ArraysOf
    <3>2. Env.nested.len - 1 \in Nat
      BY <1>1, <2>2, <3>1 DEF Backed
    <3> QED BY <1>1, <2>2, <3>2
  <2> QED BY <2>1, <2>2
<1>6. NoLast \in [name : Names \cup {""}, index : Nat]
  BY DEF NoLast
<1>7. e = [Env EXCEPT !.scopes = chain, !.idx = idx, !.cidx = cidx, !.last = NoLast,
                      !.semi = semi, !.nested = nested]
  BY DEF Pop, chain
<1> HIDE DEF idx, cidx, nested
<1>8. /\ e \in EnvRecords /\ e.scopes = chain /\ e.idx = idx /\ e.cidx = cidx
      /\ e.last = NoLast /\ e.nested = nested
  BY <1>1, <1>3, <1>4, <1>5, <1>6, <1>7 DEF EnvRecords
<1>9. Backed(e, arrays)
  <2>1. CASE nested = Nil
    BY <1>8, <2>1 DEF Backed
  <2>2. CASE nested # Nil
    <3>1. Env.nested # Nil /\ nested.arr = Env.nested.arr /\ nested.len = Env.nested.len - 1
      BY <1>5, <2>2
    <3>2. Backed(Env, arrays) /\ arrays \in [ArrayIds -> Seq(BOOLEAN)]
      BY <1>1 DEF IInv, ArraysOf
    <3>3. /\ Env.nested.arr \in ArrayIds /\ Env.nested.len = Len(Env.scopes) - 1
          /\ Env.nested.len <= Len(arrays[Env.nested.arr]) /\ Len(arrays[Env.nested.arr]) >= 1
          /\ Env.nested.len \in Nat
      BY <1>1, <3>1, <3>2 DEF Backed
    <3>4. Len(arrays[Env.nested.arr]) \in Nat
      BY <3>2, <3>3
    <3>5. nested.len = Len(chain) - 1 /\ nested.len <= Len(arrays[nested.arr])
      BY <1>1, <1>2, <3>1, <3>3, <3>4
    <3> QED BY <1>8, <3>1, <3>3, <3>5 DEF Backed
  <2> QED BY <2>1, <2>2
<1> QED BY <1>8, <1>9 DEF chain, idx, cidx

LEMMA AgreesPopped ==
  ASSUME NEW s \in Chains, Len(s) >= 2, NEW h, NEW table, NEW n, n \notin h[s[Len(s)]][table],
         NEW i, NEW loose, Agrees(h, s, table, n, i, loose)
  PROVE  Agrees(h, Front(s), table, n, i, loose)
<1> DEFINE new == Front(s)
<1>1. s \in Seq(ScopeIds) /\ Len(s) \in Nat /\ s # <<>>
  BY ChainType
<1>2. Len(new) = Len(s) - 1 /\ \A p \in 1 .. Len(s) - 1 : new[p] = s[p]
  BY <1>1, LastAndFront
<1> HIDE DEF new
<1>3. CASE i = 0
  BY <1>3 DEF Agrees
<1>4. CASE i # 0
  <2>1. /\ i \in 1 .. Len(s) /\ (i > 1 \/ n \notin loose => n \in h[s[i]][table])
        /\ \A p \in 1 .. Len(s) : n \in h[s[p]][table] => p <= i
    BY <1>4 DEF Agrees
  <2>2. i # Len(s)
    BY <1>1, <2>1
  <2>3. i \in 1 .. Len(new) /\ new[i] = s[i]
    BY <1>1, <1>2, <2>1, <2>2
  <2>4. \A p \in 1 .. Len(new) : n \in h[new[p]][table] => p <= i
    BY <1>1, <1>2, <2>1
  <2>5. Agrees(h, new, table, n, i, loose)
    BY <2>1, <2>3, <2>4 DEF Agrees
  <2> QED BY <2>5 DEF new
<1> QED BY <1>3, <1>4

LEMMA IInvLeaveScope == ASSUME IInv, LeaveScope PROVE IInv'
<1> DEFINE b == Last(Blocks)
           blocks == Front(Blocks)
           e == Pop(Env, b.semi)
           m == Len(running)
<1>1. /\ Stacked(running) /\ m \in 1 .. m /\ Env = running[m].env /\ Blocks = running[m].blocks
      /\ Env \in Envs /\ Env \in EnvRecords /\ Blocks \in Seq(BlockRecords) /\ Blocks # <<>>
      /\ Env.scopes \in Chains /\ Len(Env.scopes) \in Nat
      /\ imported' = imported /\ bypassed' = bypassed
  <2>1. m \in Nat \ {0}
    BY CurrentIs
  <2>2. m \in 1 .. m
    BY <2>1
  <2> QED BY <2>1, <2>2, CurrentIs DEF LeaveScope
<1>2. b \in BlockRecords /\ blocks \in Seq(BlockRecords)
  BY <1>1, LastAndFront
<1>3. b.scope \in BOOLEAN /\ b.semi \in BOOLEAN
  BY <1>2 DEF BlockRecords
<1>4. CASE ~b.scope
  <2>1. Become(WithTop([Env EXCEPT !.semi = b.semi], blocks), template, heap, arrays)
    BY <1>4 DEF LeaveScope
  <2>2. ASSUME NEW base \in Nat, NEW depth \in Nat, Levels(Blocks, base, depth)
        PROVE  Levels(blocks, base, depth)
    <3>1. Levels(blocks, base, depth - (IF b.scope THEN 1 ELSE 0))
      BY <1>1, <2>2, LevelsLeave
    <3>2. depth - (IF b.scope THEN 1 ELSE 0) = depth
      BY <1>4
    <3> QED BY <3>1, <3>2
  <2> HIDE DEF b, blocks
  <2> QED BY <1>1, <1>2, <1>3, <2>1, <2>2, NoScopeStep
<1>5. CASE b.scope
  <2>1. Become(WithTop(e, blocks), template, heap, arrays)
    BY <1>5 DEF LeaveScope
  <2>2. PICK shared \in Nat \ {0} : Opened(running, m, shared)
    BY <1>1 DEF Stacked
  <2> DEFINE base == shared + (IF running[m].kind = "callable" THEN 1 ELSE 0)
  <2>3. base \in Nat /\ base >= shared /\ Levels(Blocks, base, Len(Env.scopes))
    BY <1>1, <2>2 DEF Opened
  <2> HIDE DEF base, e
  <2>4. Levels(blocks, base, Len(Env.scopes) - 1) /\ Len(Env.scopes) - 1 >= base
    <3>1. (IF b.scope THEN 1 ELSE 0) = 1
      BY <1>5
    <3> QED BY <1>1, <2>3, <3>1, LevelsLeave
  <2>5. Len(Env.scopes) >= 2
    BY <1>1, <2>3, <2>4
  <2>6. /\ e \in EnvRecords /\ e.scopes = Front(Env.scopes)
        /\ e.idx = [n \in Names |-> IF n \in heap[Last(Env.scopes)].vars THEN 0 ELSE Env.idx[n]]
        /\ e.cidx = [n \in Names |-> IF n \in heap[Last(Env.scopes)].callables THEN 0 ELSE Env.cidx[n]]
        /\ e.last = NoLast
        /\ Backed(e, arrays)
    BY <1>3, <2>5, PopIs DEF e
  <2>7. /\ Len(e.scopes) = Len(Env.scopes) - 1
        /\ \A i \in 1 .. Len(Env.scopes) - 1 : e.scopes[i] = Env.scopes[i]
        /\ Last(Env.scopes) = Env.scopes[Len(Env.scopes)]
    <3>1. Env.scopes \in Seq(ScopeIds) /\ Env.scopes # <<>>
      BY <1>1, <2>5, ChainType
    <3> QED BY <2>6, <3>1, LastAndFront
  <2>8. \A p \in 1 .. Len(e.scopes) : p <= Len(running[m].env.scopes) /\ e.scopes[p] = running[m].env.scopes[p]
    BY <1>1, <2>7
  <2>9. Replaces(WithTop(e, blocks), running, e, blocks)
    BY <1>1, <1>2, <2>6, WithTopReplaces
  <2>10. Stacked(WithTop(e, blocks))
    <3>1. Levels(blocks, base, Len(e.scopes))
      BY <2>4, <2>7
    <3>2. \A p \in 1 .. Len(e.scopes) : p > shared =>
             \/ p <= Len(running[m].env.scopes) /\ e.scopes[p] = running[m].env.scopes[p]
             \/ \A j \in 1 .. m - 1 : \A q \in 1 .. Len(running[j].env.scopes) :
                   e.scopes[p] # running[j].env.scopes[q]
      BY <2>8
    <3> HIDE DEF blocks
    <3>3. Levels(blocks, shared + (IF running[m].kind = "callable" THEN 1 ELSE 0), Len(e.scopes))
      BY <3>1 DEF base
    <3> QED BY <1>1, <1>2, <2>2, <2>6, <2>9, <3>2, <3>3, StackedReplaced
  <2>11. ASSUME NEW n \in Names \ bypassed PROVE CachesOf(heap, e, n, Loose(imported))
    <3>1. CachesOf(heap, Env, n, Loose(imported))
      BY <1>1 DEF IInv
    <3>2. Env.scopes[Len(Env.scopes)] \in ScopeIds /\ heap \in Heaps
      <4>1. Len(Env.scopes) \in 1 .. Len(Env.scopes)
        BY <1>1, <2>5
      <4> QED BY <1>1, <4>1, ChainType DEF IInv
    <3>3. heap[Last(Env.scopes)].vars = heap[Env.scopes[Len(Env.scopes)]]["vars"]
          /\ heap[Last(Env.scopes)].callables = heap[Env.scopes[Len(Env.scopes)]]["callables"]
      BY <2>7, <3>2, HeapsType
    <3>4. Agrees(heap, e.scopes, "vars", n, e.idx[n], Loose(imported))
      <4>1. CASE n \in heap[Last(Env.scopes)].vars
        BY <2>6, <4>1 DEF Agrees
      <4>2. CASE n \notin heap[Last(Env.scopes)].vars
        <5>1. e.idx[n] = Env.idx[n] /\ e.scopes = Front(Env.scopes)
          BY <2>6, <4>2
        <5>2. Agrees(heap, Env.scopes, "vars", n, Env.idx[n], Loose(imported))
          BY <3>1 DEF CachesOf
        <5>3. n \notin heap[Env.scopes[Len(Env.scopes)]]["vars"]
          BY <3>3, <4>2
        <5> QED BY <1>1, <2>5, <5>1, <5>2, <5>3, AgreesPopped
      <4> QED BY <4>1, <4>2
    <3>5. Agrees(heap, e.scopes, "callables", n, e.cidx[n], Loose(imported))
      <4>1. CASE n \in heap[Last(Env.scopes)].callables
        BY <2>6, <4>1 DEF Agrees
      <4>2. CASE n \notin heap[Last(Env.scopes)].callables
        <5>1. e.cidx[n] = Env.cidx[n] /\ e.scopes = Front(Env.scopes)
          BY <2>6, <4>2
        <5>2. Agrees(heap, Env.scopes, "callables", n, Env.cidx[n], Loose(imported))
          BY <3>1 DEF CachesOf
        <5>3. n \notin heap[Env.scopes[Len(Env.scopes)]]["callables"]
          BY <3>3, <4>2
        <5> QED BY <1>1, <2>5, <5>1, <5>2, <5>3, AgreesPopped
      <4> QED BY <4>1, <4>2
    <3>6. e.last.name # n
      <4>1. e.last = NoLast
        BY <2>6
      <4>2. NoLast.name = ""
        BY DEF NoLast
      <4> QED BY <4>1, <4>2, BoundsType
    <3> QED BY <3>4, <3>5, <3>6 DEF CachesOf
  <2>12. arrays \in [ArrayIds -> Seq(BOOLEAN)] /\ \A x \in Envs : Backed(x, arrays)
    BY DEF IInv, ArraysOf
  <2> HIDE DEF blocks
  <2> QED BY <1>1, <1>2, <2>1, <2>6, <2>10, <2>11, <2>12, FrameStep
<1> QED BY <1>3, <1>4, <1>5

-----------------------------------------------------------------------------
(* Frames come and go *)

LEMMA LivePushed ==
  ASSUME NEW run \in Seq(Frames), NEW f \in Frames, NEW tmpl, NEW x \in Live(Append(run, f), tmpl)
  PROVE  x = f.env \/ x \in Live(run, tmpl)
<1> DEFINE new == Append(run, f)
<1>1. new \in Seq(Frames) /\ Len(new) = Len(run) + 1 /\ new[Len(run) + 1] = f /\ Len(run) \in Nat
      /\ \A k \in 1 .. Len(run) : new[k] = run[k]
  OBVIOUS
<1>2. x \in Live(new, tmpl)
  OBVIOUS
<1> HIDE DEF new
<1>3. CASE tmpl # NoEnv /\ x = tmpl
  BY <1>3, LiveIs
<1>4. ASSUME NEW k \in 1 .. Len(new), x = new[k].env PROVE x = f.env \/ x \in Live(run, tmpl)
  <2>1. CASE k = Len(run) + 1
    BY <1>1, <1>4, <2>1
  <2>2. CASE k # Len(run) + 1
    <3>1. k \in 1 .. Len(run)
      BY <1>1, <2>2
    <3> QED BY <1>1, <1>4, <3>1, LiveIs
  <2> QED BY <2>1, <2>2
<1> QED BY <1>1, <1>2, <1>3, <1>4, LiveIs

LEMMA PopStep ==
  ASSUME IInv, Current.kind # "main", Become(Front(running), template, heap, arrays),
         imported' = imported, bypassed' = bypassed
  PROVE  IInv'
<1> DEFINE run == Front(running)
<1>1. /\ Stacked(run) /\ Len(run) = Len(running) - 1
      /\ \A k \in 1 .. Len(running) - 1 : run[k] = running[k]
  BY CurrentIs, StackedPopped DEF Current
<1> HIDE DEF run
<1>2. ASSUME NEW x \in Live(run, template) PROVE x \in Envs
  <2>1. run \in Seq(Frames)
    BY <1>1, StackTypes
  <2>2. CASE template # NoEnv /\ x = template
    BY <2>2, CurrentIs, LiveIs DEF Envs
  <2>3. CASE \E k \in 1 .. Len(run) : x = run[k].env
    BY <1>1, <2>3, LowerIs
  <2> QED BY <2>1, <2>2, <2>3, LiveIs
<1>3. /\ template # NoEnv => template \in EnvRecords /\ Forgetful(template)
      /\ heap \in Heaps /\ imported' \in BOOLEAN /\ bypassed' \subseteq Names
  BY DEF IInv
<1>4. \A x \in Live(run, template) : \A n \in Names \ bypassed' : CachesOf(heap, x, n, Loose(imported'))
  BY <1>2 DEF IInv
<1>5. ArraysOf(Live(run, template), arrays, bypassed')
  BY <1>2 DEF IInv, ArraysOf
<1> QED BY <1>1, <1>3, <1>4, <1>5, Becomes DEF run

LEMMA IInvReturn == ASSUME IInv, Return PROVE IInv'
BY PopStep DEF Return

LEMMA PushStep ==
  ASSUME IInv, NEW f \in Frames, NEW h \in Heaps, NEW arr,
         Become(Append(running, f), template, h, arr), Stacked(Append(running, f)),
         bypassed' = bypassed, imported' = imported,
         \A x \in Envs : \A p \in 1 .. Len(x.scopes) : h[x.scopes[p]] = heap[x.scopes[p]],
         \A n \in Names \ bypassed : CachesOf(h, f.env, n, Loose(imported)),
         arr \in [ArrayIds -> Seq(BOOLEAN)], Backed(f.env, arr), \A x \in Envs : Backed(x, arr),
         Empty(arrays) => Empty(arr)
  PROVE  IInv'
<1>1. /\ template # NoEnv => template \in EnvRecords /\ Forgetful(template)
      /\ imported' \in BOOLEAN /\ bypassed' \subseteq Names
  BY DEF IInv
<1>2. \A x \in Live(Append(running, f), template) : x = f.env \/ x \in Envs
  BY CurrentIs, LivePushed DEF Envs
<1>3. ASSUME NEW x \in Envs, NEW n \in Names \ bypassed PROVE CachesOf(h, x, n, Loose(imported))
  <2>1. CachesOf(heap, x, n, Loose(imported)) /\ x \in EnvRecords
    BY CurrentIs DEF IInv
  <2> QED BY <2>1, CachesOnChain
<1>4. \A x \in Live(Append(running, f), template) : \A n \in Names \ bypassed' :
         CachesOf(h, x, n, Loose(imported'))
  BY <1>2, <1>3
<1>5. ArraysOf(Live(Append(running, f), template), arr, bypassed')
  BY <1>2 DEF IInv, ArraysOf
<1> QED BY <1>1, <1>4, <1>5, Becomes

LEMMA IInvImport == ASSUME IInv, NEW does, Import(does) PROVE IInv'
<1> DEFINE forwards == IF does = "forward" THEN "some" ELSE "nil"
           e == ForImport(Env, forwards)
           f == [kind |-> "import", blocks |-> <<>>, env |-> e]
<1>1. /\ Stacked(running) /\ Env \in Envs /\ Env \in EnvRecords /\ Len(Env.scopes) \in Nat \ {0}
      /\ Env.scopes \in Chains /\ Env.nested \in [arr : Nat, len : Nat]
      /\ forwards \in {"nil", "none", "some"}
  BY CurrentIs, EnvType
<1>2. e \in EnvRecords /\ e.scopes = Env.scopes /\ e.nested = Env.nested /\ Forgetful(e)
  <2> HIDE DEF forwards
  <2> QED BY <1>1, NewEnvType DEF ForImport
<1> HIDE DEF e
<1>3. f \in Frames /\ f.kind = "import" /\ f.blocks = <<>> /\ f.env = e
  BY <1>2 DEF Frames
<1>4. Become(Append(running, f), template, heap, arrays) /\ bypassed' = bypassed /\ imported' = imported
  BY DEF Import, Start, e
<1> HIDE DEF f
<1>5. Stacked(Append(running, f))
  <2>1. Len(f.env.scopes) = Len(Env.scopes) + (IF f.kind = "callable" THEN 1 ELSE 0)
    BY <1>1, <1>2, <1>3
  <2>2. \A p \in 1 .. Len(f.env.scopes) : ~(p > Len(Env.scopes))
    BY <1>1, <1>2, <1>3
  <2> QED BY <1>1, <1>3, <2>1, <2>2, StackedPushed
<1>6. \A n \in Names \ bypassed : CachesOf(heap, f.env, n, Loose(imported))
  BY <1>2, <1>3, ForgetfulAgrees
<1>7. arrays \in [ArrayIds -> Seq(BOOLEAN)] /\ (\A x \in Envs : Backed(x, arrays)) /\ heap \in Heaps
  BY DEF IInv, ArraysOf
<1>8. Backed(f.env, arrays)
  <2>1. Backed(Env, arrays)
    BY <1>1, <1>7
  <2> QED BY <1>2, <1>3, <2>1 DEF Backed
<1> QED BY <1>3, <1>4, <1>5, <1>6, <1>7, <1>8, PushStep

(* A callable's frame, its heap and its arrays: the closure p with the fresh scope t,
   and in it the parameters, the last of them remembered. *)
Runs(closed, params, f, h, arr, t, p) ==
    /\ t \in ScopeIds /\ (\A y \in Envs : ~In(t, y)) /\ heap[t] = Blank
    /\ p \in EnvRecords /\ p.scopes = Append(closed.scopes, t)
    /\ Forgetful(p) /\ p.forwards = "nil"
    /\ f \in Frames /\ f.kind = "callable" /\ f.blocks = <<>>
    /\ \/ params = {} /\ f.env = p
       \/ \E x \in Names : /\ params = {x}
                           /\ f.env = Remember(p, x, Len(p.scopes), Len(p.scopes))
    /\ h \in Heaps /\ h[t]["vars"] = params /\ \A q \in ScopeIds : q # t => h[q] = heap[q]
    /\ arr \in [ArrayIds -> Seq(BOOLEAN)]
    /\ Backed(p, arr) /\ (\A y \in Envs : Backed(y, arr)) /\ (Empty(arrays) => Empty(arr))
    /\ Become(Append(running, f), template, h, arr)

LEMMA CallIs ==
  ASSUME IInv, NEW closed \in Envs, NEW params,
         params = {} \/ \E n \in Names : params = {n}, Call(closed, params)
  PROVE  \E f, h, arr, t, p : Runs(closed, params, f, h, arr, t, p)
<1> DEFINE c == Closure(closed)
           p == Push(c, FALSE)
           x == CHOOSE n \in params : TRUE
           e == IF params = {} THEN p.env ELSE Local(p.env, x)
           f == [kind |-> "callable", blocks |-> <<>>, env |-> e]
           h == [heap EXCEPT ![Last(e.scopes)].vars = params]
<1>1. /\ closed \in EnvRecords /\ c \in EnvRecords /\ c.scopes = closed.scopes /\ c.nested = closed.nested
      /\ Forgetful(c) /\ c.forwards = "nil" /\ heap \in Heaps /\ params \subseteq Names
  BY CurrentIs, ClosureIs DEF IInv
<1>2. FreeScope # {} /\ FreeArray # {} /\ Become(Append(running, f), template, h, p.arrays)
  BY DEF Call, Start
<1>3. Pushed(p, c)
  <2> HIDE DEF c
  <2> QED BY <1>1, <1>2, PushIs
<1> HIDE DEF p, c
<1>4. PICK t \in ScopeIds :
        /\ \A y \in Envs : ~In(t, y)
        /\ heap[t] = Blank
        /\ p.env.scopes = Append(c.scopes, t)
        /\ p.env \in EnvRecords
        /\ p.env.idx = c.idx /\ p.env.cidx = c.cidx /\ p.env.last = c.last
        /\ p.env.forwards = c.forwards
        /\ p.arrays \in [ArrayIds -> Seq(BOOLEAN)]
        /\ Backed(p.env, p.arrays)
        /\ \A y \in Envs : Backed(y, p.arrays)
        /\ Empty(arrays) => Empty(p.arrays)
  BY <1>3 DEF Pushed
<1> DEFINE s == p.env.scopes
           d == Len(s)
<1>5. /\ s \in Chains /\ s \in Seq(ScopeIds) /\ s # <<>> /\ d \in Nat \ {0} /\ s[d] = t
  <2>1. closed.scopes \in Seq(ScopeIds)
    BY <1>1, EnvType, ChainType
  <2>2. s \in Chains
    BY <1>4, EnvType
  <2>3. s \in Seq(ScopeIds) /\ d \in Nat /\ d >= 1
    BY <2>2, ChainType
  <2> QED BY <1>1, <1>4, <2>1, <2>2, <2>3
<1>6. Forgetful(p.env) /\ p.env.forwards = "nil"
  BY <1>1, <1>4 DEF Forgetful
<1>7. /\ e \in EnvRecords /\ e.scopes = s
      /\ params = {} => e = p.env
      /\ params # {} => x \in Names /\ params = {x} /\ e = Remember(p.env, x, d, d)
  <2>1. CASE params = {}
    BY <1>4, <2>1
  <2>2. CASE params # {}
    <3>1. x \in params /\ x \in Names /\ params = {x}
      BY <1>1, <2>2
    <3> HIDE DEF x
    <3>2. e = Remember(p.env, x, d, d)
      BY <2>2 DEF Local, Remember
    <3>3. d \in Nat
      BY <1>5
    <3> HIDE DEF e, d
    <3>4. p.env \in EnvRecords
      BY <1>4
    <3> HIDE DEF s
    <3>5. e \in EnvRecords /\ e.scopes = p.env.scopes
      BY <3>1, <3>2, <3>3, <3>4, Remembers
    <3>6. e.scopes = s
      BY <3>5 DEF s
    <3> QED BY <2>2, <3>1, <3>2, <3>5, <3>6
  <2> QED BY <2>1, <2>2
<1> HIDE DEF e, x
<1>8. Last(e.scopes) = t
  BY <1>5, <1>7 DEF Last
<1>9. /\ h \in Heaps /\ h[t]["vars"] = params
      /\ \A q \in ScopeIds : q # t => h[q] = heap[q]
  <2> DEFINE new == [heap[t] EXCEPT !.vars = params]
  <2>1. h = [heap EXCEPT ![t] = new]
    BY <1>8
  <2>2. new \in [vars : SUBSET Names, callables : SUBSET Names] /\ new.vars = params
    BY <1>1, HeapsType
  <2> HIDE DEF new, h
  <2>3. h \in Heaps /\ h[t] = new /\ \A q \in ScopeIds : q # t => h[q] = heap[q]
    BY <1>1, <2>1, <2>2 DEF Heaps
  <2>4. h[t]["vars"] = h[t].vars
    BY <2>3, HeapsType
  <2> QED BY <2>2, <2>3, <2>4
<1>10. f \in Frames /\ f.kind = "callable" /\ f.blocks = <<>> /\ f.env = e
  BY <1>7 DEF Frames
<1> HIDE DEF f, h
<1>11. \/ params = {} /\ f.env = p.env
       \/ \E n \in Names : params = {n} /\ f.env = Remember(p.env, n, Len(p.env.scopes), Len(p.env.scopes))
  BY <1>7, <1>10
<1>12. p.env.scopes = Append(closed.scopes, t)
  BY <1>1, <1>4
<1>13. Become(Append(running, f), template, h, p.arrays)
  BY <1>2 DEF f, h, e, x
<1>14. Runs(closed, params, f, h, p.arrays, t, p.env)
  BY <1>4, <1>6, <1>9, <1>10, <1>11, <1>12, <1>13 DEF Runs
<1> QED BY <1>14

LEMMA CallStep ==
  ASSUME IInv, NEW closed \in Envs, NEW params,
         params = {} \/ \E n \in Names : params = {n}, Call(closed, params)
  PROVE  IInv'
<1>1. PICK f, h, arr, t, p : Runs(closed, params, f, h, arr, t, p)
  BY CallIs
<1>2. /\ t \in ScopeIds /\ (\A y \in Envs : ~In(t, y)) /\ heap[t] = Blank
      /\ p \in EnvRecords /\ p.scopes = Append(closed.scopes, t) /\ Forgetful(p)
      /\ f \in Frames /\ f.kind = "callable" /\ f.blocks = <<>>
      /\ h \in Heaps /\ h[t]["vars"] = params /\ \A q \in ScopeIds : q # t => h[q] = heap[q]
      /\ arr \in [ArrayIds -> Seq(BOOLEAN)]
      /\ Backed(p, arr) /\ (\A y \in Envs : Backed(y, arr)) /\ (Empty(arrays) => Empty(arr))
      /\ Become(Append(running, f), template, h, arr)
  BY <1>1 DEF Runs
<1>3. bypassed' = bypassed /\ imported' = imported
  BY DEF Call
<1> DEFINE d == Len(p.scopes)
<1>4. /\ Len(closed.scopes) \in Nat \ {0} /\ d = Len(closed.scopes) + 1 /\ d \in Nat \ {0}
      /\ p.scopes \in Chains /\ p.scopes[d] = t
  <2>1. closed.scopes \in Seq(ScopeIds) /\ Len(closed.scopes) \in Nat /\ Len(closed.scopes) >= 1
    BY CurrentIs, EnvType, ChainType
  <2>2. p.scopes \in Chains
    BY <1>2, EnvType
  <2> QED BY <1>2, <2>1, <2>2
<1> HIDE DEF d
<1>5. f.env.scopes = p.scopes /\ f.env.nested = p.nested
  <2>1. CASE f.env = p
    BY <2>1
  <2>2. ASSUME NEW x \in Names, f.env = Remember(p, x, d, d)
        PROVE  f.env.scopes = p.scopes /\ f.env.nested = p.nested
    <3>1. p \in EnvRecords /\ d \in Nat
      BY <1>2, <1>4
    <3> DEFINE new == Remember(p, x, d, d)
    <3>2. new = Remember(p, x, d, d)
      OBVIOUS
    <3>3. f.env = new
      BY <2>2
    <3> HIDE DEF new
    <3>4. new.scopes = p.scopes /\ new.nested = p.nested
      BY <3>1, <3>2, Remembers
    <3> QED BY <3>3, <3>4
  <2> QED BY <1>1, <2>1, <2>2 DEF Runs, d
<1>6. \A y \in Envs : \A q \in 1 .. Len(y.scopes) : h[y.scopes[q]] = heap[y.scopes[q]]
  <2>1. ASSUME NEW y \in Envs, NEW q \in 1 .. Len(y.scopes) PROVE y.scopes[q] \in ScopeIds /\ y.scopes[q] # t
    BY <1>2, CurrentIs, EnvType, ChainType DEF In
  <2> QED BY <1>2, <2>1
<1>7. Stacked(Append(running, f))
  <2>1. Len(f.env.scopes) = Len(closed.scopes) + (IF f.kind = "callable" THEN 1 ELSE 0)
    BY <1>2, <1>4, <1>5 DEF d
  <2>2. ASSUME NEW j \in 1 .. Len(running), NEW q \in 1 .. Len(f.env.scopes), q > Len(closed.scopes),
               NEW r \in 1 .. Len(running[j].env.scopes)
        PROVE  f.env.scopes[q] # running[j].env.scopes[r]
    <3>1. q = d
      BY <1>4, <1>5, <2>2 DEF d
    <3>2. running[j].env \in Envs
      BY CurrentIs, LiveIs DEF Envs
    <3> QED BY <1>2, <1>4, <1>5, <3>1, <3>2 DEF In
  <2>3. Stacked(running)
    BY CurrentIs
  <2> QED BY <1>2, <1>4, <2>1, <2>2, <2>3, StackedPushed
<1>8. ASSUME NEW n \in Names \ bypassed PROVE CachesOf(h, f.env, n, Loose(imported))
  <2>1. \A m \in Names : CachesOf(h, p, m, Loose(imported))
    BY <1>2, ForgetfulAgrees
  <2>2. CASE f.env = p
    BY <2>1, <2>2
  <2>3. ASSUME NEW x \in Names, params = {x}, f.env = Remember(p, x, d, d)
        PROVE  CachesOf(h, f.env, n, Loose(imported))
    <3>1. Agrees(h, p.scopes, "vars", x, d, Loose(imported))
      <4>1. d \in 1 .. Len(p.scopes) /\ \A q \in 1 .. Len(p.scopes) : q <= d
        BY <1>4 DEF d
      <4>2. x \in h[p.scopes[d]]["vars"]
        BY <1>2, <1>4, <2>3
      <4> QED BY <4>1, <4>2 DEF Agrees
    <3>2. Agrees(h, p.scopes, "callables", x, p.cidx[x], Loose(imported))
      BY <2>1 DEF CachesOf
    <3>3. d \in Nat /\ d # 0
      BY <1>4
    <3>4. CachesOf(h, Remember(p, x, d, d), n, Loose(imported))
      <4>1. p \in EnvRecords /\ n \in Names
        BY <1>2
      <4>2. /\ n # x => CachesOf(h, p, n, Loose(imported))
            /\ d # 0 /\ Agrees(h, p.scopes, "vars", x, d, Loose(imported))
            /\ Agrees(h, p.scopes, "callables", x, p.cidx[x], Loose(imported))
        BY <2>1, <3>1, <3>2, <3>3
      <4> QED BY <3>3, <4>1, <4>2, CachesRemember
    <3> QED BY <2>3, <3>4
  <2> QED BY <1>1, <2>2, <2>3 DEF Runs, d
<1>9. Backed(f.env, arr)
  BY <1>2, <1>5 DEF Backed
<1> QED BY <1>2, <1>3, <1>6, <1>7, <1>8, <1>9, PushStep

LEMMA IInvCalls ==
  ASSUME IInv, (\E params \in {{}} \cup {{n} : n \in Names} : RunCallable(params)) \/ RunContent
  PROVE  IInv'
<1>1. ASSUME NEW params \in {{}} \cup {{n} : n \in Names}, RunCallable(params) PROVE IInv'
  <2>1. template # NoEnv
    BY <1>1 DEF RunCallable, Call
  <2>2. template \in Envs
    BY <2>1, CurrentIs, LiveIs DEF Envs
  <2> QED BY <1>1, <2>2, CallStep DEF RunCallable
<1>2. ASSUME RunContent PROVE IInv'
  BY <1>2, CurrentIs, CallStep DEF RunContent
<1> QED BY <1>1, <1>2

(* An imported file's forwarded names are taken out of the importer's innermost scope. *)
Removes(h2, h, t, names) ==
    /\ h2 \in Heaps
    /\ \A q \in ScopeIds, tb \in Tables :
          h2[q][tb] = IF q = t THEN h[q][tb] \ names ELSE h[q][tb]

LEMMA RemovesIs ==
  ASSUME NEW h \in Heaps, NEW t \in ScopeIds, NEW names
  PROVE  Removes([h EXCEPT ![t].vars = @ \ names, ![t].callables = @ \ names], h, t, names)
<1> DEFINE h2 == [h EXCEPT ![t].vars = @ \ names, ![t].callables = @ \ names]
           new == [vars |-> h[t].vars \ names, callables |-> h[t].callables \ names]
<1>1. h[t] \in [vars : SUBSET Names, callables : SUBSET Names]
  BY HeapsType
<1>2. new \in [vars : SUBSET Names, callables : SUBSET Names]
  BY <1>1
<1>3. h2 \in Heaps /\ h2[t] = new /\ \A q \in ScopeIds : q # t => h2[q] = h[q]
  BY <1>1, <1>2 DEF Heaps
<1>4. new["vars"] = h[t]["vars"] \ names /\ new["callables"] = h[t]["callables"] \ names
  BY <1>1
<1> HIDE DEF h2, new
<1>5. \A q \in ScopeIds, tb \in Tables :
         h2[q][tb] = IF q = t THEN h[q][tb] \ names ELSE h[q][tb]
  BY <1>3, <1>4 DEF Tables
<1>6. Removes(h2, h, t, names)
  BY <1>3, <1>5 DEF Removes
<1> QED BY <1>6 DEF h2

LEMMA AgreesRemoved ==
  ASSUME NEW s \in Chains, NEW h, NEW h2, NEW t, NEW names, Removes(h2, h, t, names),
         NEW table \in Tables, NEW n, NEW i, NEW loose, NEW loose2, loose \subseteq loose2,
         n \in names => t = 1 /\ n \in loose2,
         Agrees(h, s, table, n, i, loose)
  PROVE  Agrees(h2, s, table, n, i, loose2)
<1>1. /\ Len(s) \in Nat /\ Len(s) >= 1 /\ s[1] = 1 /\ \A p \in 1 .. Len(s) : s[p] \in ScopeIds
      /\ \A p, q \in 1 .. Len(s) : s[p] = s[q] => p = q
  BY ChainType
<1>2. \A p \in 1 .. Len(s) : h2[s[p]][table] = IF s[p] = t THEN h[s[p]][table] \ names ELSE h[s[p]][table]
  BY <1>1 DEF Removes
<1>3. CASE i = 0
  BY <1>3 DEF Agrees
<1>4. CASE i # 0
  <2>1. /\ i \in 1 .. Len(s) /\ (i > 1 \/ n \notin loose => n \in h[s[i]][table])
        /\ \A p \in 1 .. Len(s) : n \in h[s[p]][table] => p <= i
    BY <1>4 DEF Agrees
  <2>2. ASSUME i > 1 \/ n \notin loose2 PROVE n \in h2[s[i]][table]
    <3>1. n \in h[s[i]][table]
      BY <2>1, <2>2
    <3>2. CASE n \notin names
      BY <1>2, <2>1, <3>1, <3>2
    <3>3. CASE n \in names
      <4>1. t = 1 /\ i > 1 /\ 1 \in 1 .. Len(s)
        BY <1>1, <2>2, <3>3
      <4>2. s[i] # t
        BY <1>1, <2>1, <4>1
      <4> QED BY <1>2, <2>1, <3>1, <4>2
    <3> QED BY <3>2, <3>3
  <2>3. \A p \in 1 .. Len(s) : n \in h2[s[p]][table] => p <= i
    BY <1>2, <2>1
  <2> QED BY <2>1, <2>2, <2>3 DEF Agrees
<1> QED BY <1>3, <1>4

LEMMA CachesRemoved ==
  ASSUME NEW e \in EnvRecords, NEW h, NEW h2, NEW t, NEW names, Removes(h2, h, t, names),
         NEW n, NEW loose, NEW loose2, loose \subseteq loose2,
         n \in names => t = 1 /\ n \in loose2, CachesOf(h, e, n, loose)
  PROVE  CachesOf(h2, e, n, loose2)
<1>1. e.scopes \in Chains /\ "vars" \in Tables /\ "callables" \in Tables
  BY EnvType DEF Tables
<1>2. \A tb \in Tables : \A i : Agrees(h, e.scopes, tb, n, i, loose) => Agrees(h2, e.scopes, tb, n, i, loose2)
  BY <1>1, AgreesRemoved
<1> QED BY <1>1, <1>2 DEF CachesOf

(* The importer's slices after it took over what a file below its root forwarded. *)
Taken(s, e) ==
    /\ s.nested \in [arr : Nat, len : Nat]
    /\ s.arrays \in [ArrayIds -> Seq(BOOLEAN)]
    /\ \A x \in Envs : Backed(x, s.arrays)
    /\ s.nested = Nil \/ /\ s.nested.arr \in ArrayIds
                         /\ s.nested.len = Len(e.scopes) - 1
                         /\ s.nested.len <= Len(s.arrays[s.nested.arr])
                         /\ Len(s.arrays[s.nested.arr]) >= 1

LEMMA TakenIs ==
  ASSUME IInv, FreeArray # {}, NEW e \in Envs, ~AtRoot(e), NEW module \in BOOLEAN
  PROVE  /\ Taken(TakeNested(e, module), e)
         /\ ~module /\ Empty(arrays) => Empty(TakeNested(e, module).arrays)
<1> DEFINE fresh == IF e.nested # Nil THEN e.nested
                    ELSE [arr |-> Min(FreeArray), len |-> Len(e.scopes) - 1]
           held == IF e.nested # Nil THEN arrays[fresh.arr]
                   ELSE [i \in 1 .. fresh.len |-> FALSE]
           new == [held EXCEPT ![fresh.len] = @ \/ module]
           arr == [arrays EXCEPT ![fresh.arr] = new]
           s == TakeNested(e, module)
<1>1. /\ arrays \in [ArrayIds -> Seq(BOOLEAN)] /\ (\A x \in Envs : Backed(x, arrays))
      /\ e \in EnvRecords /\ e.scopes \in Chains /\ e.nested \in [arr : Nat, len : Nat]
  BY CurrentIs, EnvType DEF IInv, ArraysOf
<1>2. Len(e.scopes) \in Nat /\ Len(e.scopes) - 1 \in Nat /\ Len(e.scopes) - 1 >= 1
  <2>1. Len(e.scopes) \in Nat /\ Len(e.scopes) >= 1
    BY <1>1, ChainType
  <2>2. Len(e.scopes) # 1
    BY DEF AtRoot
  <2>3. \A l \in Nat : l >= 1 /\ l # 1 => l - 1 \in Nat /\ l - 1 >= 1
    OBVIOUS
  <2> QED BY <2>1, <2>2, <2>3
<1>3. s = [nested |-> fresh, arrays |-> arr]
  BY DEF TakeNested
<1>4. /\ fresh \in [arr : Nat, len : Nat] /\ fresh.arr \in ArrayIds /\ fresh.len = Len(e.scopes) - 1
      /\ held \in Seq(BOOLEAN) /\ fresh.len \in 1 .. Len(held) /\ Len(held) >= 1
      /\ \A x \in Envs : x.nested.arr = fresh.arr => x.nested = Nil \/ Len(held) = Len(arrays[fresh.arr])
      /\ Empty(arrays) => \A i \in 1 .. Len(held) : ~held[i]
  <2>1. CASE e.nested # Nil
    <3>1. fresh = e.nested /\ held = arrays[fresh.arr]
      BY <2>1
    <3>2. /\ e.nested.arr \in ArrayIds /\ e.nested.len = Len(e.scopes) - 1
          /\ e.nested.len <= Len(arrays[e.nested.arr]) /\ Len(arrays[e.nested.arr]) >= 1
      BY <1>1, <2>1 DEF Backed
    <3> HIDE DEF fresh, held
    <3>3. held \in Seq(BOOLEAN) /\ Len(held) \in Nat
      BY <1>1, <3>1, <3>2
    <3>4. fresh.len \in 1 .. Len(held)
      BY <1>2, <3>1, <3>2, <3>3
    <3>5. Empty(arrays) => \A i \in 1 .. Len(held) : ~held[i]
      BY <3>1, <3>2 DEF Empty
    <3> QED BY <1>1, <3>1, <3>2, <3>3, <3>4, <3>5
  <2>2. CASE e.nested = Nil
    <3> DEFINE a == Min(FreeArray)
               l == Len(e.scopes) - 1
    <3>1. fresh = [arr |-> a, len |-> l] /\ held = [i \in 1 .. fresh.len |-> FALSE]
      BY <2>2
    <3>2. a \in FreeArray
      <4>1. FreeArray \in SUBSET (1 .. MaxArrays) /\ MaxArrays \in Nat
        BY BoundsType DEF FreeArray, ArrayIds
      <4> QED BY <4>1, HasExtremes
    <3>3. a \in ArrayIds /\ a \in Nat /\ \A x \in Envs : x.nested.arr # a
      BY <3>2, ArrayIdsNat DEF FreeArray, Envs
    <3> HIDE DEF fresh, held, a, l
    <3>4. l \in Nat /\ l >= 1 /\ l = Len(e.scopes) - 1
      BY <1>2 DEF l
    <3>5. fresh.arr = a /\ fresh.len = l /\ fresh \in [arr : Nat, len : Nat]
      BY <3>1, <3>3, <3>4
    <3>6. held \in [1 .. l -> BOOLEAN] /\ \A i \in 1 .. l : ~held[i]
      BY <3>1, <3>5
    <3>7. held \in Seq(BOOLEAN) /\ Len(held) = l
      <4>1. l \in Nat
        BY <3>4
      <4>2. held \in Seq(BOOLEAN)
        BY <4>1, <3>6
      <4>3. DOMAIN held = 1 .. l
        BY <3>6
      <4>4. DOMAIN held = 1 .. Len(held) /\ Len(held) \in Nat
        BY <4>2
      <4> QED BY <4>1, <4>2, <4>3, <4>4
    <3>8. fresh.len \in 1 .. Len(held) /\ Len(held) >= 1
      BY <3>4, <3>5, <3>7
    <3> QED BY <3>3, <3>4, <3>5, <3>6, <3>7, <3>8
  <2> QED BY <2>1, <2>2
<1> HIDE DEF fresh, held
<1>5. new \in Seq(BOOLEAN) /\ Len(new) = Len(held) /\ \A i \in 1 .. Len(held) : new[i] => held[i] \/ module
  <2>1. held \in Seq(BOOLEAN) /\ fresh.len \in 1 .. Len(held) /\ DOMAIN held = 1 .. Len(held)
    BY <1>4
  <2>2. (held[fresh.len] \/ module) \in BOOLEAN
    BY Zenon
  <2>3. new = [held EXCEPT ![fresh.len] = held[fresh.len] \/ module]
    OBVIOUS
  <2>4. new \in Seq(BOOLEAN) /\ Len(new) = Len(held)
    <3> DEFINE v == held[fresh.len] \/ module
    <3>1. v \in BOOLEAN
      BY <2>2
    <3> HIDE DEF v
    <3>2. [held EXCEPT ![fresh.len] = v] \in Seq(BOOLEAN) /\ Len([held EXCEPT ![fresh.len] = v]) = Len(held)
      BY <2>1, <3>1, ExceptSeq
    <3> QED BY <2>3, <3>2 DEF v
  <2>5. \A i \in 1 .. Len(held) : new[i] => held[i] \/ module
    BY <2>1, Zenon
  <2> QED BY <2>4, <2>5
<1> HIDE DEF new
<1>6. /\ arr \in [ArrayIds -> Seq(BOOLEAN)] /\ arr[fresh.arr] = new
      /\ \A b \in ArrayIds : b # fresh.arr => arr[b] = arrays[b]
  BY <1>1, <1>4, <1>5
<1> HIDE DEF arr, s
<1>7. s.nested = fresh /\ s.arrays = arr
  BY <1>3
<1>8. ASSUME NEW x \in Envs PROVE Backed(x, arr)
  <2>1. Backed(x, arrays)
    BY <1>1
  <2>2. CASE x.nested = Nil
    BY <2>2 DEF Backed
  <2>3. CASE x.nested # Nil /\ x.nested.arr = fresh.arr
    <3>1. Len(arr[x.nested.arr]) = Len(arrays[x.nested.arr])
      BY <1>4, <1>5, <1>6, <2>3
    <3> QED BY <2>1, <2>3, <3>1 DEF Backed
  <2>4. CASE x.nested # Nil /\ x.nested.arr # fresh.arr
    BY <1>6, <2>1, <2>4 DEF Backed
  <2> QED BY <2>2, <2>3, <2>4
<1>9. Taken(s, e)
  <2>1. fresh.len <= Len(arr[fresh.arr]) /\ Len(arr[fresh.arr]) >= 1
    BY <1>4, <1>5, <1>6
  <2> QED BY <1>4, <1>6, <1>7, <1>8, <2>1 DEF Taken
<1>10. ASSUME ~module, Empty(arrays) PROVE Empty(arr)
  <2>1. \A i \in 1 .. Len(new) : ~new[i]
    BY <1>4, <1>5, <1>10, Zenon
  <2> QED BY <1>6, <1>10, <2>1 DEF Empty
<1>11. Taken(s, e) /\ (~module /\ Empty(arrays) => Empty(s.arrays))
  BY <1>7, <1>9, <1>10
<1> QED BY <1>11 DEF s

(* What the importer's environment keeps when it takes over what a file forwarded. *)
Took(e, taken, names) ==
    /\ taken \in EnvRecords /\ taken.scopes = e.scopes /\ taken.last = e.last
    /\ \A n \in Names : /\ taken.idx[n] = IF n \in names THEN 0 ELSE e.idx[n]
                        /\ taken.cidx[n] = IF n \in names THEN 0 ELSE e.cidx[n]

(* One outcome of ImportForwards: the stack, the importer's environment in it, the
   backing arrays and the heap. *)
Forwards(e, names, run, taken, arr, h) ==
    /\ h \in Heaps /\ Become(run, template, h, arr) /\ Stacked(run)
    /\ Took(e, taken, names)
    /\ taken.forwards = "some" => e.forwards = "some" \/ Env.forwards = "some"
    /\ Removes(h, heap, Last(e.scopes), names)
    /\ arr \in [ArrayIds -> Seq(BOOLEAN)]
    /\ Backed(taken, arr) /\ \A x \in Envs : Backed(x, arr)
    /\ Forwarded \subseteq bypassed' \/ Empty(arr)
    /\ \A x \in Live(run, template) :
          x = taken \/ (x \in Envs /\ (Len(running) = 2 => Forgetful(x)))

LEMMA ForwardsIs ==
  ASSUME IInv, Current.kind = "import", FreeArray # {},
         NEW e, e = running[Len(running) - 1].env, ImportForwards(e, Env),
         NEW names, names = IF Env.forwards = "some" THEN Forwarded ELSE {}
  PROVE  /\ e \in Envs /\ Last(e.scopes) \in ScopeIds /\ (AtRoot(e) => Last(e.scopes) = 1)
         /\ imported' = (imported \/ (AtRoot(e) /\ Env.forwards = "some"))
         /\ bypassed' = IF AtRoot(e) THEN bypassed ELSE bypassed \cup names
         /\ bypassed \subseteq bypassed' /\ bypassed' \subseteq Names /\ imported' \in BOOLEAN
         /\ \E run, taken, arr, h : Forwards(e, names, run, taken, arr, h)
<1> DEFINE below == Front(running)
           m == Len(running) - 1
           module == Env.forwards = "some"
           t == Last(e.scopes)
           s == IF AtRoot(e) THEN [nested |-> e.nested, arrays |-> arrays]
                ELSE TakeNested(e, module)
           forwards == IF (AtRoot(e) /\ module) \/ e.forwards = "some" THEN "some" ELSE "none"
           idx == [n \in Names |-> IF n \in names THEN 0 ELSE e.idx[n]]
           cidx == [n \in Names |-> IF n \in names THEN 0 ELSE e.cidx[n]]
           taken == [e EXCEPT !.forwards = forwards, !.nested = s.nested, !.idx = idx, !.cidx = cidx]
           run == [below EXCEPT ![m].env = taken]
           h == [heap EXCEPT ![t].vars = @ \ names, ![t].callables = @ \ names]
<1>1. /\ Stacked(below) /\ Len(below) = m /\ \A k \in 1 .. m : below[k] = running[k]
      /\ m \in 1 .. m /\ m \in Nat \ {0}
  <2>1. /\ Stacked(below) /\ Len(running) >= 2 /\ Len(below) = Len(running) - 1
        /\ \A k \in 1 .. Len(running) - 1 : below[k] = running[k]
    BY CurrentIs, StackedPopped DEF Current
  <2>2. m \in Nat \ {0}
    BY <2>1, CurrentIs
  <2>3. m \in 1 .. m
    <3> HIDE DEF m
    <3> QED BY <2>2
  <2> HIDE DEF below
  <2> QED BY <2>1, <2>2, <2>3
<1>2. /\ e \in EnvRecords /\ e \in Envs /\ e.scopes \in Chains /\ e.idx \in [Names -> Nat]
      /\ e.cidx \in [Names -> Nat] /\ e.nested \in [arr : Nat, len : Nat]
      /\ e.scopes \in Seq(ScopeIds) /\ Len(e.scopes) \in Nat \ {0} /\ e.scopes[1] = 1
  <2>1. e \in EnvRecords /\ e \in Envs
    BY <1>1, LowerIs
  <2>2. e.scopes \in Chains
    BY <2>1, EnvType
  <2>3. e.scopes \in Seq(ScopeIds) /\ Len(e.scopes) \in Nat \ {0} /\ e.scopes[1] = 1
    BY <2>2, ChainType
  <2> QED BY <2>1, <2>2, <2>3, EnvType
<1>3. t = e.scopes[Len(e.scopes)] /\ t \in ScopeIds /\ (AtRoot(e) => t = 1)
  <2>1. e.scopes \in Seq(ScopeIds) /\ e.scopes # <<>>
    BY <1>2
  <2>2. t = e.scopes[Len(e.scopes)] /\ t \in ScopeIds
    BY <2>1, LastAndFront
  <2> QED BY <1>2, <2>2 DEF AtRoot
<1>4. /\ imported' = (imported \/ (AtRoot(e) /\ module))
      /\ bypassed' = IF AtRoot(e) THEN bypassed ELSE bypassed \cup names
      /\ Become(run, template, h, s.arrays)
  BY DEF ImportForwards
<1>5. names \subseteq Names /\ imported \in BOOLEAN /\ bypassed \subseteq Names /\ heap \in Heaps
  BY BoundsType DEF IInv
<1>6. imported' \in BOOLEAN /\ bypassed' \subseteq Names /\ bypassed \subseteq bypassed'
  <2>1. imported' \in BOOLEAN
    BY <1>4, <1>5
  <2> HIDE DEF module, run, h, s
  <2>2. bypassed' \subseteq Names /\ bypassed \subseteq bypassed'
    BY <1>4, <1>5
  <2> QED BY <2>1, <2>2
<1>7. Taken(s, e) /\ (Forwarded \subseteq bypassed' \/ Empty(s.arrays))
  <2>1. /\ arrays \in [ArrayIds -> Seq(BOOLEAN)] /\ (\A x \in Envs : Backed(x, arrays))
        /\ Forwarded \subseteq bypassed \/ Empty(arrays)
    BY DEF IInv, ArraysOf
  <2>2. CASE AtRoot(e)
    <3>1. s.nested = e.nested /\ s.arrays = arrays
      BY <2>2
    <3> HIDE DEF s
    <3>2. Taken(s, e)
      <4>1. Backed(e, arrays)
        BY <1>2, <2>1
      <4> QED BY <1>2, <2>1, <3>1, <4>1 DEF Taken, Backed
    <3> QED BY <1>6, <2>1, <3>1, <3>2
  <2>3. CASE ~AtRoot(e)
    <3>1. s = TakeNested(e, module) /\ module \in BOOLEAN
      BY <2>3
    <3> HIDE DEF s
    <3>2. module => Forwarded \subseteq bypassed'
      BY <1>4, <2>3
    <3> HIDE DEF module
    <3>3. Taken(s, e) /\ (~module /\ Empty(arrays) => Empty(s.arrays))
      BY <1>2, <2>3, <3>1, TakenIs
    <3> QED BY <1>6, <2>1, <3>2, <3>3
  <2> QED BY <2>2, <2>3
<1>8. /\ forwards \in {"nil", "none", "some"} /\ idx \in [Names -> Nat] /\ cidx \in [Names -> Nat]
      /\ s.nested \in [arr : Nat, len : Nat]
      /\ forwards = "some" => e.forwards = "some" \/ module
  BY <1>2, <1>7 DEF Taken
<1> HIDE DEF s, forwards
<1>9. /\ taken \in EnvRecords /\ taken.scopes = e.scopes /\ taken.last = e.last
      /\ taken.idx = idx /\ taken.cidx = cidx /\ taken.nested = s.nested /\ taken.forwards = forwards
  <2> HIDE DEF idx, cidx
  <2> QED BY <1>2, <1>8 DEF EnvRecords
<1>10. Removes(h, heap, t, names)
  BY <1>3, <1>5, RemovesIs
<1>11. h \in Heaps
  BY <1>10 DEF Removes
<1> HIDE DEF h, taken
<1>12. Took(e, taken, names)
  BY <1>9 DEF Took
<1>13. below[m] = running[m] /\ below[Len(below)] = running[m] /\ running[m].env = e
  BY <1>1
<1>14. Replaces(run, below, taken, running[m].blocks)
  <2>1. run = [below EXCEPT ![Len(below)].env = taken]
    BY <1>1
  <2> HIDE DEF run, below, m
  <2> QED BY <1>1, <1>9, <1>13, <2>1, WithEnvReplaces
<1>15. Stacked(run)
  <2>1. taken.scopes = below[Len(below)].env.scopes
        /\ Replaces(run, below, taken, below[Len(below)].blocks)
    BY <1>9, <1>13, <1>14
  <2> HIDE DEF run, below
  <2> QED BY <1>1, <1>9, <2>1, StackedSame
<1> HIDE DEF run
<1>16. ASSUME NEW x \in Live(run, template)
       PROVE x = taken \/ (x \in Envs /\ (Len(running) = 2 => Forgetful(x)))
  <2>1. \/ x = taken
        \/ \E k \in 1 .. Len(below) - 1 : x = below[k].env
        \/ template # NoEnv /\ x = template
    <3> HIDE DEF below
    <3> QED BY <1>1, <1>14, LiveReplaced
  <2>2. ASSUME NEW k \in 1 .. Len(below) - 1 PROVE below[k].env \in Envs /\ Len(running) # 2
    <3>1. k \in 1 .. Len(running) - 1 /\ below[k] = running[k] /\ Len(running) # 2
      BY <1>1
    <3> QED BY <3>1, LowerIs
  <2>3. template # NoEnv => template \in Envs /\ Forgetful(template)
    BY CurrentIs, LiveIs DEF Envs, IInv
  <2> HIDE DEF below, m
  <2>4. CASE \E k \in 1 .. Len(below) - 1 : x = below[k].env
    BY <2>2, <2>4
  <2>5. CASE template # NoEnv /\ x = template
    BY <2>3, <2>5
  <2> QED BY <2>1, <2>4, <2>5
<1>17. Backed(taken, s.arrays) /\ s.arrays \in [ArrayIds -> Seq(BOOLEAN)] /\ \A x \in Envs : Backed(x, s.arrays)
  BY <1>7, <1>9 DEF Taken, Backed
<1>18. taken.forwards = "some" => e.forwards = "some" \/ Env.forwards = "some"
  BY <1>8, <1>9
<1>19. Become(run, template, h, s.arrays)
  BY <1>4 DEF run, taken, s, forwards, h
<1> HIDE DEF below, m, idx, cidx, t
<1>20. Forwards(e, names, run, taken, s.arrays, h)
  <2>1. Removes(h, heap, Last(e.scopes), names)
    BY <1>10 DEF t
  <2>2. Forwarded \subseteq bypassed' \/ Empty(s.arrays)
    BY <1>7
  <2>3. \A x \in Live(run, template) : x = taken \/ (x \in Envs /\ (Len(running) = 2 => Forgetful(x)))
    BY <1>16
  <2> QED BY <1>11, <1>12, <1>15, <1>17, <1>18, <1>19, <2>1, <2>2, <2>3 DEF Forwards
<1> QED BY <1>2, <1>3, <1>4, <1>6, <1>20 DEF t

LEMMA IInvForwards ==
  ASSUME IInv, Current.kind = "import", FreeArray # {},
         ImportForwards(running[Len(running) - 1].env, Env)
  PROVE  IInv'
<1> DEFINE e == running[Len(running) - 1].env
           names == IF Env.forwards = "some" THEN Forwarded ELSE {}
           t == Last(e.scopes)
<1>0. /\ e = running[Len(running) - 1].env /\ ImportForwards(e, Env)
      /\ names = IF Env.forwards = "some" THEN Forwarded ELSE {}
  OBVIOUS
<1> HIDE DEF e, names
<1>1. /\ e \in Envs /\ t \in ScopeIds /\ (AtRoot(e) => t = 1)
      /\ imported' = (imported \/ (AtRoot(e) /\ Env.forwards = "some"))
      /\ bypassed' = IF AtRoot(e) THEN bypassed ELSE bypassed \cup names
      /\ bypassed \subseteq bypassed' /\ bypassed' \subseteq Names /\ imported' \in BOOLEAN
  BY <1>0, ForwardsIs
<1>2. PICK run, taken, arr, h : Forwards(e, names, run, taken, arr, h)
  BY <1>0, ForwardsIs
<1>3. /\ h \in Heaps /\ Become(run, template, h, arr) /\ Stacked(run)
      /\ Took(e, taken, names)
      /\ Removes(h, heap, t, names)
      /\ arr \in [ArrayIds -> Seq(BOOLEAN)]
      /\ Backed(taken, arr) /\ \A x \in Envs : Backed(x, arr)
      /\ Forwarded \subseteq bypassed' \/ Empty(arr)
      /\ \A x \in Live(run, template) : x = taken \/ x \in Envs
  BY <1>2 DEF Forwards
<1>4. Loose(imported) \subseteq Loose(imported')
  BY <1>1 DEF Loose
<1>5. ASSUME NEW n \in Names \ bypassed', n \in names PROVE t = 1 /\ n \in Loose(imported')
  <2>1. AtRoot(e)
    BY <1>1, <1>5
  <2>2. Env.forwards = "some" /\ n \in Forwarded
    BY <1>0, <1>5
  <2>3. imported'
    BY <1>1, <2>1, <2>2
  <2> QED BY <1>1, <2>1, <2>2, <2>3 DEF Loose
<1> HIDE DEF t
<1>6. ASSUME NEW x \in Envs, NEW n \in Names \ bypassed' PROVE CachesOf(h, x, n, Loose(imported'))
  <2>1. CachesOf(heap, x, n, Loose(imported)) /\ x \in EnvRecords
    BY <1>1, CurrentIs DEF IInv
  <2> QED BY <1>3, <1>4, <1>5, <2>1, CachesRemoved
<1>7. ASSUME NEW n \in Names \ bypassed' PROVE CachesOf(h, taken, n, Loose(imported'))
  <2>1. CachesOf(h, e, n, Loose(imported'))
    BY <1>1, <1>6
  <2>2. taken.idx[n] \in {0, e.idx[n]} /\ taken.cidx[n] \in {0, e.cidx[n]}
        /\ taken.scopes = e.scopes /\ taken.last = e.last
    BY <1>3 DEF Took
  <2>3. /\ Agrees(h, e.scopes, "vars", n, taken.idx[n], Loose(imported'))
        /\ Agrees(h, e.scopes, "callables", n, taken.cidx[n], Loose(imported'))
    BY <2>1, <2>2 DEF CachesOf, Agrees
  <2> QED BY <2>1, <2>2, <2>3 DEF CachesOf
<1>8. ArraysOf(Live(run, template), arr, bypassed')
  BY <1>3 DEF ArraysOf
<1>9. template # NoEnv => template \in EnvRecords /\ Forgetful(template)
  BY DEF IInv
<1>10. \A x \in Live(run, template) : \A n \in Names \ bypassed' : CachesOf(h, x, n, Loose(imported'))
  BY <1>3, <1>6, <1>7
<1> QED BY <1>1, <1>3, <1>8, <1>9, <1>10, Becomes

LEMMA IInvEndImport == ASSUME IInv, EndImport PROVE IInv'
<1>1. CASE Env.forwards = "nil"
  <2>1. Current.kind # "main"
    BY DEF EndImport
  <2> QED BY <1>1, <2>1, PopStep DEF EndImport
<1>2. CASE Env.forwards # "nil"
  BY <1>2, IInvForwards DEF EndImport
<1> QED BY <1>1, <1>2

LEMMA IInvNext == IInv /\ [Next]_vars => IInv'
<1> SUFFICES ASSUME IInv, [Next]_vars PROVE IInv'
  OBVIOUS
<1>1. CASE UNCHANGED vars
  BY <1>1 DEF vars, IInv, Envs, Live
<1>2. ASSUME NEW x \in Names,
             \/ GetVariable(x) \/ (\E w \in Writes : SetVariable(x, w)) \/ SetLocalVariable(x)
             \/ GetCallable(x) \/ SetCallable(x)
      PROVE  IInv'
  BY <1>2, IInvGetVariable, IInvSetVariable, IInvSetLocalVariable, IInvGetCallable, IInvSetCallable
<1>3. CASE Next
  BY <1>2, <1>3, IInvEnterScope, IInvLeaveScope, IInvCalls, IInvReturn, IInvImport, IInvEndImport DEF Next
<1> QED BY <1>1, <1>3

-----------------------------------------------------------------------------
(* What the invariant says of lookups *)

LEMMA ResolvesAlike ==
  ASSUME NEW e \in EnvRecords, NEW table \in Tables, NEW n, NEW i \in 0 .. Len(e.scopes),
         NEW loose, Agrees(heap, e.scopes, table, n, i, loose), i = 0 => Walk(e, table, n) = 0
  PROVE  Resolve(e, table, n, i) = Resolve(e, table, n, Walk(e, table, n))
<1>1. DOMAIN e.scopes = 1 .. Len(e.scopes) /\ Len(e.scopes) \in Nat
  BY EnvType, ChainType
<1>2. CASE i = 0 \/ Walk(e, table, n) = i
  BY <1>2
<1>3. CASE i # 0 /\ Walk(e, table, n) # i
  <2>1. Walk(e, table, n) = 0 /\ n \notin heap[e.scopes[i]][table]
    <3>1. i # 0 /\ Agrees(heap, e.scopes, table, n, i, loose)
      BY <1>3
    <3>2. /\ Walk(e, table, n) \in {0, i}
          /\ Walk(e, table, n) = 0 => n \notin heap[e.scopes[i]][table]
      BY <3>1, AgreesWalk, Zenon
    <3> QED BY <1>3, <3>2
  <2>2. Walk(e, table, n) \notin DOMAIN e.scopes
    BY <1>1, <2>1
  <2> QED BY <2>1, <2>2 DEF Resolve
<1> QED BY <1>2, <1>3

LEMMA IInvAgrees == IInv => CachesAgree
<1> SUFFICES ASSUME IInv, NEW e \in Envs, NEW n \in Names \ bypassed
             PROVE  /\ Resolve(e, "vars", n, VariableIndex(e, n))
                         = Resolve(e, "vars", n, Walk(e, "vars", n))
                    /\ Resolve(e, "callables", n, CallableIndex(e, n))
                         = Resolve(e, "callables", n, Walk(e, "callables", n))
  BY DEF CachesAgree
<1>1. e \in EnvRecords /\ "vars" \in Tables /\ "callables" \in Tables
  BY CurrentIs DEF Tables
<1>2. Resolve(e, "vars", n, VariableIndex(e, n)) = Resolve(e, "vars", n, Walk(e, "vars", n))
  BY <1>1, FoundAgrees, ResolvesAlike
<1>3. Resolve(e, "callables", n, CallableIndex(e, n)) = Resolve(e, "callables", n, Walk(e, "callables", n))
  BY <1>1, FoundAgrees, ResolvesAlike
<1> QED BY <1>2, <1>3

(* The type and ownership invariant: who shares which scope, and what the caches
   of each environment hold of it (NewEnvironment, Closure, ForImport, popFrame). *)
THEOREM EnvironmentInvariant == Spec => []IInv
<1>1. Init => IInv
  BY IInvInit
<1>2. IInv /\ [Next]_vars => IInv'
  BY IInvNext
<1> QED BY <1>1, <1>2, PTL DEF Spec

(* A lookup through the caches resolves as a walk of the chain does, in the current
   environment and in every suspended one, however deep imports nest. *)
THEOREM LookupsResolve == Spec => []CachesAgree
<1>1. IInv => CachesAgree
  BY IInvAgrees
<1> QED BY <1>1, EnvironmentInvariant, PTL

LEMMA AssignedNearest ==
  ASSUME IInv, NEW x \in Names \ (bypassed \cup Loose(imported)), SetNested(x)
  PROVE  LET nearest == Walk(Env, "vars", x)
             target  == IF nearest = 0 \/ (nearest = 1 /\ ~Env.semi)
                        THEN Len(Env.scopes) ELSE nearest
         IN  /\ ~NestedHas(Env, x)
             /\ Last(running').env.last = [name |-> x, index |-> target]
<1> DEFINE nearest == Walk(Env, "vars", x)
           target  == IF nearest = 0 \/ (nearest = 1 /\ ~Env.semi) THEN Len(Env.scopes) ELSE nearest
           found == VariableIndex(Env, x)
           i == SetNestedIndex(x)
           e == Remember(Env, x, i, SetNestedCached(x))
           m == Len(running)
<1>1. /\ Env \in Envs /\ Env \in EnvRecords /\ "vars" \in Tables /\ Env.idx \in [Names -> Nat]
      /\ Len(Env.scopes) \in Nat \ {0} /\ Stacked(running) /\ m \in Nat \ {0}
  BY CurrentIs, EnvType DEF Tables
<1>2. ~NestedHas(Env, x)
  BY <1>1, NothingNested
<1>3. found = nearest
  <2>1. /\ Agrees(heap, Env.scopes, "vars", x, found, Loose(imported))
        /\ found = 0 => nearest = 0
    BY <1>1, FoundAgrees
  <2> QED BY <1>1, <2>1, AgreesWalk
<1>4. i = target
  BY <1>3 DEF SetNestedIndex, SetNestedFound
<1>5. ~ToModule(x)
  BY <1>2 DEF ToModule
<1>6. i \in 1 .. Len(Env.scopes) /\ Declare(e, x, i)
  BY <1>5, SetNestedIs
<1>7. running' = WithEnv(e)
  BY <1>6 DEF Declare, Become
<1>8. e \in EnvRecords /\ e.last = [name |-> x, index |-> i]
  <2>1. SetNestedCached(x) \in Nat /\ i \in Nat
    BY <1>1, <1>6 DEF SetNestedCached
  <2>2. e = Remember(Env, x, i, SetNestedCached(x))
    OBVIOUS
  <2> HIDE DEF e, i
  <2>3. e \in EnvRecords
    BY <1>1, <2>1, <2>2, Remembers
  <2>4. e.last = [name |-> x, index |-> i]
    BY <1>1, <2>2 DEF Remember, EnvRecords
  <2> QED BY <2>3, <2>4
<1> HIDE DEF e, i, target
<1>9. Replaces(WithEnv(e), running, e, Blocks)
  BY <1>1, <1>8, CurrentIs, WithTopReplaces DEF WithEnv
<1>10. Last(running').env = e
  <2>1. running' \in Seq(Frames) /\ Len(running') = m /\ running'[m].env = e
    BY <1>1, <1>7, <1>9 DEF Replaces
  <2> QED BY <1>1, <2>1 DEF Last
<1> QED BY <1>2, <1>4, <1>8, <1>10 DEF target

(* An assignment below the root lands where a walk of the chain finds the name, or
   in the current scope (SetVariable's choice of index), whatever the caches hold. *)
THEOREM AssignmentsLandNearest == Spec => AssignsNearest
<1>1. IInv /\ [Next]_vars =>
        [\A n \in Names \ (bypassed \cup IF imported THEN Forwarded ELSE {}) :
           (SetVariable(n, "implicit") /\ ~AtRoot(Env)) =>
             LET nearest == Walk(Env, "vars", n)
                 target  == IF nearest = 0 \/ (nearest = 1 /\ ~Env.semi)
                            THEN Len(Env.scopes) ELSE nearest
             IN  IF nearest = 0 /\ NestedHas(Env, n) THEN running' = running
                 ELSE Last(running').env.last = [name |-> n, index |-> target]]_vars
  <2> SUFFICES ASSUME IInv, NEW n \in Names \ (bypassed \cup Loose(imported)),
                      SetVariable(n, "implicit"), ~AtRoot(Env)
               PROVE  LET nearest == Walk(Env, "vars", n)
                          target  == IF nearest = 0 \/ (nearest = 1 /\ ~Env.semi)
                                     THEN Len(Env.scopes) ELSE nearest
                      IN  /\ ~NestedHas(Env, n)
                          /\ Last(running').env.last = [name |-> n, index |-> target]
    BY DEF Loose
  <2>1. SetNested(n)
    BY DEF SetVariable
  <2> QED BY <2>1, AssignedNearest
<1> QED BY <1>1, EnvironmentInvariant, PTL DEF Spec, AssignsNearest

-----------------------------------------------------------------------------
(* No lookup indexes past the chain.  For a name that is not bypassed the
   invariant above says so already.  For every name it takes more: that an index
   above the root names a scope that holds the name, so that leaving the scope
   forgets it.  An import within an import can take a name out of a scope whose
   first owner cached it; with one level of imports nobody can. *)

OneLevel ==
    "forward" \notin Imports \/ \A k \in 1 .. Len(running) : running[k].kind = "import" => k = 2

Within(h, s, table, n, i) ==
    i = 0 \/ (i \in 1 .. Len(s) /\ (i > 1 => n \in h[s[i]][table]))
Kept(h, e) ==
    /\ "forward" \notin Imports => e.forwards # "some"
    /\ \A n \in Names : /\ Within(h, e.scopes, "vars", n, e.idx[n])
                        /\ Within(h, e.scopes, "callables", n, e.cidx[n])
                        /\ e.last.name = n => e.last.index \in 1 .. Len(e.scopes)
KInv == \A e \in Envs : Kept(heap, e)

(* The chain's scopes hold in h2 what they held in h. *)
Grows(h2, h, s) == \A p \in 1 .. Len(s) : \A tb \in Tables : h[s[p]][tb] \subseteq h2[s[p]][tb]

LEMMA KeptGrows ==
  ASSUME NEW e, NEW h, NEW h2, Grows(h2, h, e.scopes), Kept(h, e)
  PROVE  Kept(h2, e)
<1>1. ASSUME NEW n \in Names, NEW tb \in Tables, NEW i, Within(h, e.scopes, tb, n, i)
      PROVE  Within(h2, e.scopes, tb, n, i)
  BY <1>1 DEF Within, Grows
<1>2. "vars" \in Tables /\ "callables" \in Tables
  BY DEF Tables
<1> QED BY <1>1, <1>2 DEF Kept

LEMMA ForgetfulKept ==
  ASSUME NEW e, Forgetful(e), e.forwards = "nil", NEW h
  PROVE  Kept(h, e)
BY BoundsType DEF Forgetful, Kept, Within

LEMMA KeptRemember ==
  ASSUME NEW e \in EnvRecords, NEW x \in Names, NEW i \in Nat, NEW c \in Nat,
         NEW new, new = Remember(e, x, i, c)
  PROVE  /\ new \in EnvRecords /\ new.scopes = e.scopes
         /\ \A h : Kept(h, e) /\ i \in 1 .. Len(e.scopes) /\ Within(h, e.scopes, "vars", x, c)
                => Kept(h, new)
<1>1. /\ new \in EnvRecords /\ new.scopes = e.scopes /\ new.cidx = e.cidx
      /\ new.idx[x] = c /\ new.last.name = x /\ new.last.index = i /\ new.forwards = e.forwards
      /\ \A n \in Names : n # x => new.idx[n] = e.idx[n]
  BY Remembers
<1>2. ASSUME NEW h, Kept(h, e), i \in 1 .. Len(e.scopes), Within(h, e.scopes, "vars", x, c)
      PROVE  Kept(h, new)
  <2>1. ASSUME NEW n \in Names PROVE Within(h, e.scopes, "vars", n, new.idx[n])
    <3>1. Within(h, e.scopes, "vars", n, e.idx[n])
      BY <1>2 DEF Kept
    <3> QED BY <1>1, <1>2, <3>1
  <2> QED BY <1>1, <1>2, <2>1 DEF Kept
<1> QED BY <1>1, <1>2

LEMMA KeptRememberCallable ==
  ASSUME NEW e \in EnvRecords, NEW h, Kept(h, e), NEW x \in Names,
         NEW i \in Nat, Within(h, e.scopes, "callables", x, i),
         NEW new, new = RememberCallable(e, x, i), new.forwards = e.forwards
  PROVE  Kept(h, new) /\ new \in EnvRecords /\ new.scopes = e.scopes
<1>1. /\ new \in EnvRecords /\ new.scopes = e.scopes
      /\ new.idx = e.idx /\ new.last = e.last /\ new.cidx[x] = i
      /\ \A n \in Names : n # x => new.cidx[n] = e.cidx[n]
  BY RemembersCallable
<1>2. ASSUME NEW n \in Names PROVE Within(h, e.scopes, "callables", n, new.cidx[n])
  <2>1. Within(h, e.scopes, "callables", n, e.cidx[n])
    BY DEF Kept
  <2> QED BY <1>1, <2>1
<1>3. Kept(h, new)
  BY <1>1, <1>2 DEF Kept
<1> QED BY <1>1, <1>3

LEMMA FoundWithin ==
  ASSUME NEW e \in EnvRecords, Kept(heap, e), NEW n \in Names
  PROVE  /\ VariableIndex(e, n) \in 0 .. Len(e.scopes)
         /\ e.last.name # n => Within(heap, e.scopes, "vars", n, VariableIndex(e, n))
         /\ Within(heap, e.scopes, "callables", n, CallableIndex(e, n))
         /\ CallableIndex(e, n) \in 0 .. Len(e.scopes)
<1>1. Len(e.scopes) \in Nat /\ e.idx \in [Names -> Nat] /\ e.cidx \in [Names -> Nat]
  BY EnvType, ChainType
<1>2. /\ Within(heap, e.scopes, "vars", n, e.idx[n]) /\ Within(heap, e.scopes, "callables", n, e.cidx[n])
      /\ e.last.name = n => e.last.index \in 1 .. Len(e.scopes)
  BY DEF Kept
<1>3. ASSUME NEW table \in Tables
      PROVE  Within(heap, e.scopes, table, n, Walk(e, table, n)) /\ Walk(e, table, n) \in 0 .. Len(e.scopes)
  <2>1. /\ Walk(e, table, n) \in 0 .. Len(e.scopes)
        /\ Walk(e, table, n) # 0 => n \in heap[e.scopes[Walk(e, table, n)]][table]
    BY WalkIs
  <2> QED BY <1>1, <2>1 DEF Within
<1>4. "vars" \in Tables /\ "callables" \in Tables
  BY DEF Tables
<1>5. \A table, i : Within(heap, e.scopes, table, n, i) => i \in 0 .. Len(e.scopes)
  BY <1>1 DEF Within
<1>6. CASE e.last.name = n
  <2>1. VariableIndex(e, n) = e.last.index
    BY <1>6 DEF VariableIndex
  <2>2. CallableIndex(e, n) = e.cidx[n] \/ CallableIndex(e, n) = Walk(e, "callables", n)
    BY DEF CallableIndex
  <2> QED BY <1>1, <1>2, <1>3, <1>4, <1>5, <1>6, <2>1, <2>2
<1>7. CASE e.last.name # n
  <2>1. VariableIndex(e, n) = e.idx[n] \/ VariableIndex(e, n) = Walk(e, "vars", n)
    BY <1>7 DEF VariableIndex
  <2>2. CallableIndex(e, n) = e.cidx[n] \/ CallableIndex(e, n) = Walk(e, "callables", n)
    BY DEF CallableIndex
  <2> QED BY <1>2, <1>3, <1>4, <1>5, <1>7, <2>1, <2>2
<1> QED BY <1>6, <1>7

LEMMA KBecomes ==
  ASSUME IInv', NEW run, NEW tmpl, NEW h, NEW arr, Become(run, tmpl, h, arr),
         \A e \in Live(run, tmpl) : Kept(h, e)
  PROVE  KInv'
<1> DEFINE live == Live(run, tmpl)
           cleared == [s \in ScopeIds |-> IF \E e \in live : s \in Range(e.scopes) THEN h[s] ELSE Blank]
<1>1. running' = run /\ template' = tmpl /\ heap' = cleared
  BY DEF Become
<1>2. Envs' = live
  BY <1>1 DEF Envs, Live
<1>3. \A e \in live : e \in EnvRecords
  <2>1. Stacked(run) /\ (tmpl # NoEnv => tmpl \in EnvRecords)
    BY <1>1 DEF IInv
  <2> QED BY <2>1, LiveTypes
<1> HIDE DEF live
<1>4. ASSUME NEW e \in live PROVE Kept(cleared, e)
  <2>1. \A p \in 1 .. Len(e.scopes) : e.scopes[p] \in ScopeIds /\ In(e.scopes[p], e)
    BY <1>3, EnvType, ChainType DEF In
  <2>2. \A p \in 1 .. Len(e.scopes) : cleared[e.scopes[p]] = h[e.scopes[p]]
    BY <1>3, <2>1, RangeIs
  <2>3. Kept(h, e)
    BY DEF live
  <2> HIDE DEF cleared
  <2>4. Grows(cleared, h, e.scopes)
    BY <2>2 DEF Grows
  <2> QED BY <2>3, <2>4, KeptGrows
<1> HIDE DEF cleared
<1> QED BY <1>1, <1>2, <1>4 DEF KInv

LEMMA KFrameStep ==
  ASSUME IInv, IInv', KInv, NEW e \in EnvRecords, NEW blocks \in Seq(BlockRecords), NEW arr,
         NEW h, \A x \in Envs : Grows(h, heap, x.scopes), Kept(h, e),
         NEW tmpl, tmpl = template \/ Kept(h, tmpl),
         Become(WithTop(e, blocks), tmpl, h, arr)
  PROVE  KInv'
<1> DEFINE run == WithTop(e, blocks)
<1>1. Stacked(running) /\ Replaces(run, running, e, blocks)
  BY CurrentIs, WithTopReplaces
<1> HIDE DEF run
<1>2. ASSUME NEW x \in Live(run, tmpl) PROVE Kept(h, x)
  <2>1. \/ x = e
        \/ \E k \in 1 .. Len(running) - 1 : x = running[k].env
        \/ tmpl # NoEnv /\ x = tmpl
    BY <1>1, LiveReplaced
  <2>2. \A y \in Envs : Kept(h, y)
    BY KeptGrows DEF KInv
  <2>3. \A k \in 1 .. Len(running) - 1 : running[k].env \in Envs
    BY LowerIs
  <2>4. template # NoEnv => template \in Envs
    BY CurrentIs, LiveIs DEF Envs
  <2> QED BY <2>1, <2>2, <2>3, <2>4
<1> QED BY <1>2, KBecomes DEF run

LEMMA GrowsSame == \A e \in Envs : Grows(heap, heap, e.scopes)
BY DEF Grows

LEMMA GrowsDeclared ==
  ASSUME IInv, NEW h, NEW table \in Tables, NEW t, NEW x, Declares(h, heap, table, t, x)
  PROVE  \A e \in Envs : Grows(h, heap, e.scopes)
<1> SUFFICES ASSUME NEW e \in Envs, NEW p \in 1 .. Len(e.scopes), NEW tb \in Tables
             PROVE  heap[e.scopes[p]][tb] \subseteq h[e.scopes[p]][tb]
  BY DEF Grows
<1>1. e.scopes[p] \in ScopeIds
  BY CurrentIs, EnvType, ChainType
<1>2. h[e.scopes[p]][tb] = heap[e.scopes[p]][tb] \cup {x} \/ h[e.scopes[p]][tb] = heap[e.scopes[p]][tb]
  BY <1>1 DEF Declares
<1> QED BY <1>2

LEMMA KInvGetVariable == ASSUME IInv, IInv', KInv, NEW x \in Names, GetVariable(x) PROVE KInv'
<1> DEFINE i == VariableIndex(Env, x)
           c == IF Env.last.name = x THEN Env.idx[x] ELSE i
           e == Remember(Env, x, i, c)
<1>1. Env \in EnvRecords /\ Env.idx \in [Names -> Nat] /\ Kept(heap, Env) /\ Blocks \in Seq(BlockRecords)
  BY CurrentIs, EnvType DEF KInv
<1>2. i \in 1 .. Len(Env.scopes) /\ Become(WithTop(e, Blocks), template, heap, arrays)
  <2>1. DOMAIN Env.scopes = 1 .. Len(Env.scopes)
    BY CurrentIs, ChainType
  <2> QED BY <2>1 DEF GetVariable, Remember, WithEnv
<1>3. c \in Nat /\ Within(heap, Env.scopes, "vars", x, c)
  <2>1. Within(heap, Env.scopes, "vars", x, Env.idx[x])
    BY <1>1 DEF Kept
  <2> QED BY <1>1, <1>2, <2>1, FoundWithin
<1> HIDE DEF i, c
<1>4. Kept(heap, e) /\ e \in EnvRecords
  <2>1. e = Remember(Env, x, i, c)
    OBVIOUS
  <2> HIDE DEF e
  <2>2. i \in Nat
    BY <1>2
  <2>3. /\ e \in EnvRecords
        /\ \A h : Kept(h, Env) /\ i \in 1 .. Len(Env.scopes) /\ Within(h, Env.scopes, "vars", x, c)
               => Kept(h, e)
    BY <1>1, <1>3, <2>1, <2>2, KeptRemember
  <2> QED BY <1>1, <1>2, <1>3, <2>3
<1> HIDE DEF e
<1> QED BY <1>1, <1>2, <1>4, GrowsSame, KFrameStep

LEMMA KInvGetCallable == ASSUME IInv, IInv', KInv, NEW x \in Names, GetCallable(x) PROVE KInv'
<1> DEFINE i == CallableIndex(Env, x)
           e == RememberCallable(Env, x, i)
<1>1. Env \in EnvRecords /\ Kept(heap, Env) /\ Blocks \in Seq(BlockRecords) /\ Len(Env.scopes) \in Nat
  BY CurrentIs DEF KInv
<1>2. Become(WithTop(e, Blocks), template, heap, arrays)
  BY DEF GetCallable, RememberCallable, WithEnv
<1>3. i \in Nat /\ Within(heap, Env.scopes, "callables", x, i)
  BY <1>1, FoundWithin
<1> HIDE DEF i
<1>4. Kept(heap, e) /\ e \in EnvRecords
  <2>1. e = RememberCallable(Env, x, i) /\ e.forwards = Env.forwards
    BY <1>1 DEF RememberCallable, EnvRecords
  <2> HIDE DEF e
  <2> QED BY <1>1, <1>3, <2>1, KeptRememberCallable
<1> HIDE DEF e
<1> QED BY <1>1, <1>2, <1>4, GrowsSame, KFrameStep

(* A step that declares x in the environment's scope i and remembers it there. *)
LEMMA KDeclare ==
  ASSUME IInv, IInv', KInv, NEW x \in Names, NEW i \in 1 .. Len(Env.scopes), NEW c \in Nat,
         c = i \/ Within(heap, Env.scopes, "vars", x, c),
         NEW e, e = Env \/ e = Remember(Env, x, i, c),
         NEW h, h = [heap EXCEPT ![Env.scopes[i]].vars = @ \cup {x}],
         Become(WithEnv(e), template, h, arrays)
  PROVE  KInv'
<1>1. Env \in EnvRecords /\ Kept(heap, Env) /\ Env \in Envs /\ Blocks \in Seq(BlockRecords)
      /\ Env.scopes[i] \in ScopeIds /\ heap \in Heaps
  BY CurrentIs, ChainType DEF KInv, IInv
<1>2. "vars" \in Tables /\ Declares(h, heap, "vars", Env.scopes[i], x)
  BY <1>1, VarDeclares DEF Tables
<1>3. \A y \in Envs : Grows(h, heap, y.scopes)
  BY <1>2, GrowsDeclared
<1>4. Kept(h, Env)
  BY <1>1, <1>3, KeptGrows
<1>5. Within(h, Env.scopes, "vars", x, c)
  <2>1. CASE c = i
    <3>1. h[Env.scopes[i]]["vars"] = heap[Env.scopes[i]]["vars"] \cup {x}
      BY <1>1, <1>2 DEF Declares
    <3> QED BY <2>1, <3>1 DEF Within
  <2>2. CASE Within(heap, Env.scopes, "vars", x, c)
    BY <1>1, <1>2, <1>3, <2>2 DEF Within, Grows
  <2> QED BY <2>1, <2>2
<1>6. Kept(h, e) /\ e \in EnvRecords
  BY <1>1, <1>4, <1>5, KeptRemember
<1>7. Become(WithTop(e, Blocks), template, h, arrays)
  BY DEF WithEnv
<1> QED BY <1>1, <1>3, <1>6, <1>7, KFrameStep

LEMMA KInvSetGlobal == ASSUME IInv, IInv', KInv, NEW x \in Names, SetGlobal(x) PROVE KInv'
<1> DEFINE e == IF Env.idx[x] = 0 THEN Remember(Env, x, 1, 1) ELSE Env
           h == [heap EXCEPT ![Env.scopes[1]].vars = @ \cup {x}]
<1>1. Env \in EnvRecords /\ Kept(heap, Env) /\ Blocks \in Seq(BlockRecords) /\ 1 \in Nat
      /\ 1 \in 1 .. Len(Env.scopes)
  BY CurrentIs DEF KInv
<1>2. e = Env \/ e = Remember(Env, x, 1, 1)
  OBVIOUS
<1>3. Within(heap, Env.scopes, "vars", x, 1)
  BY <1>1 DEF Within
<1>4. \/ Become(WithEnv(e), template, heap, arrays)
      \/ Declare(e, x, 1)
  BY DEF SetGlobal, Remember
<1> HIDE DEF e
<1>5. e \in EnvRecords /\ Kept(heap, e) /\ e.scopes = Env.scopes
  BY <1>1, <1>2, <1>3, KeptRemember
<1>6. CASE Become(WithEnv(e), template, heap, arrays)
  BY <1>1, <1>5, <1>6, GrowsSame, KFrameStep DEF WithEnv
<1>7. CASE Declare(e, x, 1)
  <2>1. Become(WithEnv(e), template, h, arrays)
    BY <1>5, <1>7 DEF Declare
  <2> HIDE DEF h
  <2>2. h = [heap EXCEPT ![Env.scopes[1]].vars = @ \cup {x}]
    BY DEF h
  <2> QED BY <1>1, <1>2, <1>3, <2>1, <2>2, KDeclare
<1> QED BY <1>4, <1>6, <1>7

LEMMA KInvSetNested == ASSUME IInv, IInv', KInv, NEW x \in Names, SetNested(x) PROVE KInv'
<1> DEFINE i == SetNestedIndex(x)
           c == SetNestedCached(x)
           e == Remember(Env, x, i, c)
           h == [heap EXCEPT ![Env.scopes[i]].vars = @ \cup {x}]
<1>1. CASE ToModule(x)
  <2>1. Become(running, template, heap, arrays)
    BY <1>1 DEF SetNested, ToModule
  <2> QED BY <2>1, KBecomes DEF KInv, Envs
<1>2. CASE ~ToModule(x)
  <2>1. i \in 1 .. Len(Env.scopes) /\ Declare(e, x, i)
    BY <1>2, SetNestedIs
  <2>2. c \in Nat /\ (c = i \/ Within(heap, Env.scopes, "vars", x, c))
    <3>1. Env.idx \in [Names -> Nat] /\ Kept(heap, Env)
      BY CurrentIs, EnvType DEF KInv
    <3>2. Within(heap, Env.scopes, "vars", x, Env.idx[x]) /\ Env.idx[x] \in Nat
      BY <3>1 DEF Kept
    <3>3. c = Env.idx[x] \/ c = i
      BY DEF SetNestedCached
    <3> HIDE DEF c, i
    <3> QED BY <2>1, <3>2, <3>3
  <2> HIDE DEF i, c
  <2>3. e = Remember(Env, x, i, c) /\ e.scopes = Env.scopes
    <3>1. Env \in EnvRecords /\ i \in Nat
      BY <2>1, CurrentIs
    <3>2. e = Remember(Env, x, i, c)
      OBVIOUS
    <3> HIDE DEF e
    <3> QED BY <2>2, <3>1, <3>2, Remembers
  <2> HIDE DEF e
  <2>4. Become(WithEnv(e), template, h, arrays) /\ h = [heap EXCEPT ![Env.scopes[i]].vars = @ \cup {x}]
    BY <2>1, <2>3 DEF Declare
  <2> HIDE DEF h
  <2> QED BY <2>1, <2>2, <2>3, <2>4, KDeclare
<1> QED BY <1>1, <1>2

LEMMA KInvSetLocalVariable == ASSUME IInv, IInv', KInv, NEW x \in Names, SetLocalVariable(x) PROVE KInv'
<1> DEFINE i == Len(Env.scopes)
           e == Remember(Env, x, i, i)
           h == [heap EXCEPT ![Env.scopes[i]].vars = @ \cup {x}]
<1>1. i \in Nat \ {0} /\ Env \in EnvRecords
  BY CurrentIs
<1>2. i \in 1 .. Len(Env.scopes) /\ i \in Nat
  <2>1. \A l \in Nat \ {0} : l \in 1 .. l /\ l \in Nat
    OBVIOUS
  <2> QED BY <1>1, <2>1
<1>3. Declare(e, x, i)
  BY DEF SetLocalVariable, Local, Remember
<1> HIDE DEF i
<1>4. e = Remember(Env, x, i, i)
  OBVIOUS
<1> HIDE DEF e
<1>5. e.scopes = Env.scopes
  BY <1>1, <1>2, <1>4, Remembers
<1>6. Become(WithEnv(e), template, h, arrays) /\ h = [heap EXCEPT ![Env.scopes[i]].vars = @ \cup {x}]
  BY <1>3, <1>5 DEF Declare
<1> HIDE DEF h
<1> QED BY <1>2, <1>4, <1>6, KDeclare

LEMMA KInvSetCallable == ASSUME IInv, IInv', KInv, NEW x \in Names, SetCallable(x) PROVE KInv'
<1> DEFINE i == Len(Env.scopes)
           e == RememberCallable(Env, x, i)
           h == [heap EXCEPT ![Env.scopes[i]].callables = @ \cup {x}]
<1>1. /\ Env \in EnvRecords /\ Env \in Envs /\ Blocks \in Seq(BlockRecords) /\ heap \in Heaps
      /\ Env.scopes \in Chains /\ i \in Nat \ {0} /\ Kept(heap, Env)
  BY CurrentIs DEF IInv, KInv
<1>2. i \in 1 .. Len(Env.scopes) /\ i \in Nat /\ Env.scopes[i] \in ScopeIds
  <2>1. \A l \in Nat \ {0} : l \in 1 .. l /\ l \in Nat
    OBVIOUS
  <2>2. i \in 1 .. Len(Env.scopes) /\ i \in Nat
    BY <1>1, <2>1
  <2> HIDE DEF i
  <2> QED BY <1>1, <2>2, ChainType
<1>3. Become(WithEnv(e), Closure(e), [heap EXCEPT ![e.scopes[i]].callables = @ \cup {x}], arrays)
  BY DEF SetCallable, RememberCallable
<1> HIDE DEF i
<1>4. e = RememberCallable(Env, x, i) /\ e.forwards = Env.forwards
  BY <1>1 DEF RememberCallable, EnvRecords
<1> HIDE DEF e
<1>5. e \in EnvRecords /\ e.scopes = Env.scopes
  BY <1>1, <1>2, <1>4, RemembersCallable
<1>6. Declares(h, heap, "callables", Env.scopes[i], x) /\ "callables" \in Tables
  BY <1>1, <1>2, CallableDeclares DEF Tables
<1>7. Become(WithTop(e, Blocks), Closure(e), h, arrays)
  BY <1>3, <1>5 DEF WithEnv
<1> HIDE DEF h
<1>8. \A y \in Envs : Grows(h, heap, y.scopes)
  BY <1>6, GrowsDeclared
<1>9. Kept(h, e)
  <2>1. Kept(h, Env)
    BY <1>1, <1>8, KeptGrows
  <2>2. Within(h, Env.scopes, "callables", x, i)
    BY <1>2, <1>6 DEF Within, Declares
  <2> QED BY <1>1, <1>2, <1>4, <2>1, <2>2, KeptRememberCallable
<1>10. Kept(h, Closure(e))
  BY <1>5, ClosureIs, ForgetfulKept
<1> QED BY <1>1, <1>5, <1>7, <1>8, <1>9, <1>10, KFrameStep

LEMMA KInvScopeless ==
  ASSUME IInv, IInv', KInv, NEW semi \in BOOLEAN, NEW blocks \in Seq(BlockRecords),
         Become(WithTop([Env EXCEPT !.semi = semi], blocks), template, heap, arrays)
  PROVE  KInv'
<1> DEFINE e == [Env EXCEPT !.semi = semi]
<1>1. Env \in EnvRecords /\ Kept(heap, Env)
  BY CurrentIs DEF KInv
<1>2. /\ e \in EnvRecords /\ e.scopes = Env.scopes /\ e.idx = Env.idx /\ e.cidx = Env.cidx
      /\ e.last = Env.last /\ e.forwards = Env.forwards
  BY <1>1 DEF EnvRecords
<1> HIDE DEF e
<1>3. Kept(heap, e)
  BY <1>1, <1>2 DEF Kept
<1>4. Become(WithTop(e, blocks), template, heap, arrays)
  BY DEF e
<1> QED BY <1>2, <1>3, <1>4, GrowsSame, KFrameStep

LEMMA KInvEnterScope ==
  ASSUME IInv, IInv', KInv, NEW semiGlobal \in BOOLEAN, NEW when \in BOOLEAN,
         EnterScope(semiGlobal, when)
  PROVE  KInv'
<1> DEFINE block == [flow |-> semiGlobal, scope |-> when, semi |-> Env.semi]
           semi == semiGlobal /\ Env.semi
           blocks == Append(Blocks, block)
           p == Push(Env, semi)
<1>1. Env \in EnvRecords /\ Env \in Envs /\ Kept(heap, Env) /\ Env.semi \in BOOLEAN
      /\ Blocks \in Seq(BlockRecords)
  BY CurrentIs, EnvType DEF KInv
<1>2. block \in BlockRecords /\ semi \in BOOLEAN
  BY <1>1 DEF BlockRecords
<1> HIDE DEF semi, block
<1>3. blocks \in Seq(BlockRecords)
  BY <1>1, <1>2
<1>4. CASE ~when
  <2>1. Become(WithTop([Env EXCEPT !.semi = semi], blocks), template, heap, arrays)
    BY <1>4 DEF EnterScope, semi, block
  <2> HIDE DEF blocks
  <2> QED BY <1>2, <1>3, <2>1, KInvScopeless
<1>5. CASE when
  <2>1. Become(WithTop(p.env, blocks), template, heap, p.arrays) /\ FreeScope # {} /\ FreeArray # {}
    BY <1>5 DEF EnterScope, CanPush, semi, block
  <2>2. Pushed(p, Env)
    BY <1>1, <1>2, <2>1, PushIs
  <2> HIDE DEF p, blocks
  <2>3. PICK t \in ScopeIds :
        /\ p.env.scopes = Append(Env.scopes, t) /\ p.env \in EnvRecords
        /\ p.env.idx = Env.idx /\ p.env.cidx = Env.cidx /\ p.env.last = Env.last
        /\ p.env.forwards = Env.forwards
    BY <2>2 DEF Pushed
  <2>4. /\ Len(p.env.scopes) = Len(Env.scopes) + 1 /\ Len(Env.scopes) \in Nat
        /\ \A i \in 1 .. Len(Env.scopes) : p.env.scopes[i] = Env.scopes[i]
    <3>1. Env.scopes \in Seq(ScopeIds)
      BY CurrentIs, ChainType
    <3> QED BY <2>3, <3>1
  <2>5. \A table, n, i : Within(heap, Env.scopes, table, n, i) => Within(heap, p.env.scopes, table, n, i)
    BY <2>4 DEF Within
  <2>6. \A i \in 1 .. Len(Env.scopes) : i \in 1 .. Len(p.env.scopes)
    BY <2>4
  <2>7. Kept(heap, p.env)
    BY <1>1, <2>3, <2>5, <2>6 DEF Kept
  <2> QED BY <1>3, <2>1, <2>3, <2>7, GrowsSame, KFrameStep
<1> QED BY <1>4, <1>5

LEMMA KInvLeaveScope == ASSUME IInv, IInv', KInv, LeaveScope PROVE KInv'
<1> DEFINE b == Last(Blocks)
           blocks == Front(Blocks)
           e == Pop(Env, b.semi)
           m == Len(running)
<1>1. /\ Blocks \in Seq(BlockRecords) /\ Blocks # <<>> /\ Env \in EnvRecords /\ Kept(heap, Env)
      /\ Stacked(running) /\ m \in Nat \ {0} /\ Env = running[m].env /\ Blocks = running[m].blocks
  BY CurrentIs DEF LeaveScope, KInv
<1>2. b \in BlockRecords /\ blocks \in Seq(BlockRecords)
  BY <1>1, LastAndFront
<1>3. b.scope \in BOOLEAN /\ b.semi \in BOOLEAN
  BY <1>2 DEF BlockRecords
<1>4. CASE ~b.scope
  <2>1. Become(WithTop([Env EXCEPT !.semi = b.semi], blocks), template, heap, arrays)
    BY <1>4 DEF LeaveScope
  <2> HIDE DEF b, blocks
  <2> QED BY <1>2, <1>3, <2>1, KInvScopeless
<1>5. CASE b.scope
  <2>1. Become(WithTop(e, blocks), template, heap, arrays)
    BY <1>5 DEF LeaveScope
  <2>2. Len(Env.scopes) >= 2
    <3>1. m \in 1 .. m
      <4> HIDE DEF m
      <4> QED BY <1>1
    <3>2. PICK shared \in Nat \ {0} : Opened(running, m, shared)
      BY <1>1, <3>1 DEF Stacked
    <3>3. Len(Env.scopes) > shared
      BY <1>1, <1>5, <3>1, <3>2, TopIsOwn
    <3>4. Len(Env.scopes) \in Nat
      BY CurrentIs
    <3> QED BY <3>3, <3>4
  <2> HIDE DEF e
  <2>3. /\ e \in EnvRecords /\ e.scopes = Front(Env.scopes)
        /\ e.idx = [n \in Names |-> IF n \in heap[Last(Env.scopes)].vars THEN 0 ELSE Env.idx[n]]
        /\ e.cidx = [n \in Names |-> IF n \in heap[Last(Env.scopes)].callables THEN 0 ELSE Env.cidx[n]]
        /\ e.last = NoLast
    BY <1>3, <2>2, PopIs DEF e
  <2>4. e.forwards = Env.forwards
    BY <1>1 DEF e, Pop, EnvRecords
  <2> DEFINE l == Len(Env.scopes)
             t == Env.scopes[l]
  <2>5. /\ Len(e.scopes) = l - 1 /\ l \in Nat /\ l >= 2 /\ Last(Env.scopes) = t
        /\ \A i \in 1 .. l - 1 : e.scopes[i] = Env.scopes[i]
    <3>1. Env.scopes \in Seq(ScopeIds) /\ Env.scopes # <<>>
      BY <2>2, CurrentIs, ChainType
    <3>2. /\ Len(Front(Env.scopes)) = Len(Env.scopes) - 1
          /\ Last(Env.scopes) = Env.scopes[Len(Env.scopes)]
          /\ \A i \in 1 .. Len(Env.scopes) - 1 : Front(Env.scopes)[i] = Env.scopes[i]
          /\ Len(Env.scopes) \in Nat
      BY <3>1, LastAndFront
    <3> QED BY <2>2, <2>3, <3>2
  <2>6. t \in ScopeIds /\ heap \in Heaps
    <3>1. l \in 1 .. l /\ Env.scopes \in Chains
      BY <2>5, CurrentIs
    <3> QED BY <3>1, ChainType DEF IInv
  <2>7. heap[t]["vars"] = heap[t].vars /\ heap[t]["callables"] = heap[t].callables
    BY <2>6, HeapsType
  <2> HIDE DEF l, t
  <2>8. ASSUME NEW table, NEW n, NEW i, n \notin heap[t][table], Within(heap, Env.scopes, table, n, i)
        PROVE  Within(heap, e.scopes, table, n, i)
    <3>1. CASE i = 0
      BY <3>1 DEF Within
    <3>2. CASE i # 0
      <4>1. i \in 1 .. l /\ (i > 1 => n \in heap[Env.scopes[i]][table])
        BY <2>8, <3>2 DEF Within, l
      <4>2. i # l
        BY <2>5, <2>8, <4>1 DEF t
      <4>3. i \in 1 .. Len(e.scopes) /\ e.scopes[i] = Env.scopes[i]
        BY <2>5, <4>1, <4>2
      <4> QED BY <4>1, <4>3 DEF Within
    <3> QED BY <3>1, <3>2
  <2>9. ASSUME NEW n \in Names
        PROVE  /\ Within(heap, e.scopes, "vars", n, e.idx[n])
               /\ Within(heap, e.scopes, "callables", n, e.cidx[n])
               /\ e.last.name # n
    <3>1. Within(heap, Env.scopes, "vars", n, Env.idx[n]) /\ Within(heap, Env.scopes, "callables", n, Env.cidx[n])
      BY <1>1 DEF Kept
    <3>2. e.idx[n] = IF n \in heap[t]["vars"] THEN 0 ELSE Env.idx[n]
      BY <2>3, <2>5, <2>7
    <3>3. e.cidx[n] = IF n \in heap[t]["callables"] THEN 0 ELSE Env.cidx[n]
      BY <2>3, <2>5, <2>7
    <3>4. \A table : Within(heap, e.scopes, table, n, 0)
      BY DEF Within
    <3>5. e.last.name # n
      <4>1. NoLast.name = ""
        BY DEF NoLast
      <4> QED BY <2>3, <4>1, BoundsType
    <3> QED BY <2>8, <3>1, <3>2, <3>3, <3>4, <3>5
  <2>10. Kept(heap, e)
    BY <1>1, <2>4, <2>9 DEF Kept
  <2> HIDE DEF blocks
  <2> QED BY <1>2, <2>1, <2>3, <2>10, GrowsSame, KFrameStep
<1> QED BY <1>3, <1>4, <1>5

LEMMA KPopStep ==
  ASSUME IInv, IInv', KInv, Current.kind # "main", Become(Front(running), template, heap, arrays)
  PROVE  KInv'
<1> DEFINE run == Front(running)
<1>1. /\ Stacked(run) /\ Len(run) = Len(running) - 1
      /\ \A k \in 1 .. Len(running) - 1 : run[k] = running[k]
  BY CurrentIs, StackedPopped DEF Current
<1> HIDE DEF run
<1>2. ASSUME NEW x \in Live(run, template) PROVE Kept(heap, x)
  <2>1. run \in Seq(Frames)
    BY <1>1, StackTypes
  <2>2. CASE template # NoEnv /\ x = template
    BY <2>2, CurrentIs, LiveIs DEF Envs, KInv
  <2>3. CASE \E k \in 1 .. Len(run) : x = run[k].env
    BY <1>1, <2>3, LowerIs DEF KInv
  <2> QED BY <2>1, <2>2, <2>3, LiveIs
<1> QED BY <1>2, KBecomes DEF run

LEMMA KPushStep ==
  ASSUME IInv, IInv', KInv, NEW f \in Frames, NEW h, \A x \in Envs : Grows(h, heap, x.scopes),
         Kept(h, f.env), NEW arr, Become(Append(running, f), template, h, arr)
  PROVE  KInv'
<1>1. \A x \in Live(Append(running, f), template) : x = f.env \/ x \in Envs
  BY CurrentIs, LivePushed DEF Envs
<1>2. \A x \in Envs : Kept(h, x)
  BY KeptGrows DEF KInv
<1> QED BY <1>1, <1>2, KBecomes

LEMMA KInvImport == ASSUME IInv, IInv', KInv, NEW does \in Imports, Import(does) PROVE KInv'
<1> DEFINE forwards == IF does = "forward" THEN "some" ELSE "nil"
           e == ForImport(Env, forwards)
           f == [kind |-> "import", blocks |-> <<>>, env |-> e]
<1>1. /\ Env \in EnvRecords /\ Env.scopes \in Chains /\ Env.nested \in [arr : Nat, len : Nat]
      /\ forwards \in {"nil", "none", "some"} /\ ("forward" \notin Imports => forwards # "some")
  BY CurrentIs, EnvType
<1>2. e \in EnvRecords /\ Forgetful(e) /\ e.forwards = forwards
  <2> HIDE DEF forwards
  <2> QED BY <1>1, NewEnvType DEF ForImport
<1> HIDE DEF e, forwards
<1>3. f \in Frames /\ f.env = e
  BY <1>2 DEF Frames
<1>4. Become(Append(running, f), template, heap, arrays)
  BY DEF Import, Start, e, forwards
<1> HIDE DEF f
<1>5. Kept(heap, e)
  BY <1>1, <1>2, BoundsType DEF Forgetful, Kept, Within
<1> QED BY <1>3, <1>4, <1>5, GrowsSame, KPushStep

LEMMA KCallStep ==
  ASSUME IInv, IInv', KInv, NEW closed \in Envs, NEW params,
         params = {} \/ \E n \in Names : params = {n}, Call(closed, params)
  PROVE  KInv'
<1>1. PICK f, h, arr, t, p : Runs(closed, params, f, h, arr, t, p)
  BY CallIs
<1>2. /\ t \in ScopeIds /\ (\A y \in Envs : ~In(t, y))
      /\ p \in EnvRecords /\ p.scopes = Append(closed.scopes, t) /\ Forgetful(p) /\ p.forwards = "nil"
      /\ f \in Frames
      /\ h[t]["vars"] = params /\ \A q \in ScopeIds : q # t => h[q] = heap[q]
      /\ Become(Append(running, f), template, h, arr)
  BY <1>1 DEF Runs
<1> DEFINE d == Len(p.scopes)
<1>3. d \in 1 .. Len(p.scopes) /\ d \in Nat /\ p.scopes[d] = t
  <2>1. closed.scopes \in Seq(ScopeIds)
    BY CurrentIs, EnvType, ChainType
  <2> QED BY <1>2, <2>1
<1> HIDE DEF d
<1>4. ASSUME NEW y \in Envs PROVE Grows(h, heap, y.scopes)
  <2>1. ASSUME NEW q \in 1 .. Len(y.scopes) PROVE h[y.scopes[q]] = heap[y.scopes[q]]
    <3>1. y.scopes[q] \in ScopeIds /\ y.scopes[q] # t
      BY <1>2, CurrentIs, EnvType, ChainType DEF In
    <3> QED BY <1>2, <3>1
  <2> QED BY <2>1 DEF Grows
<1>5. Kept(h, p)
  BY <1>2, ForgetfulKept
<1>6. ASSUME NEW x \in Names, params = {x}, f.env = Remember(p, x, d, d) PROVE Kept(h, f.env)
  <2> DEFINE new == Remember(p, x, d, d)
  <2>1. Within(h, p.scopes, "vars", x, d)
    BY <1>2, <1>3, <1>6 DEF Within
  <2>2. new = Remember(p, x, d, d) /\ p \in EnvRecords /\ d \in Nat
    BY <1>2, <1>3
  <2> HIDE DEF new
  <2>3. \A g : Kept(g, p) /\ d \in 1 .. Len(p.scopes) /\ Within(g, p.scopes, "vars", x, d) => Kept(g, new)
    BY <2>2, KeptRemember
  <2>4. Kept(h, new)
    BY <1>3, <1>5, <2>1, <2>3
  <2> QED BY <1>6, <2>4 DEF new
<1>7. Kept(h, f.env)
  BY <1>1, <1>5, <1>6 DEF Runs, d
<1> QED BY <1>2, <1>4, <1>7, KPushStep

LEMMA KInvCalls ==
  ASSUME IInv, IInv', KInv, (\E params \in {{}} \cup {{n} : n \in Names} : RunCallable(params)) \/ RunContent
  PROVE  KInv'
<1>1. ASSUME NEW params \in {{}} \cup {{n} : n \in Names}, RunCallable(params) PROVE KInv'
  <2>1. template # NoEnv
    BY <1>1 DEF RunCallable, Call
  <2>2. template \in Envs
    BY <2>1, CurrentIs, LiveIs DEF Envs
  <2> QED BY <1>1, <2>2, KCallStep DEF RunCallable
<1>2. ASSUME RunContent PROVE KInv'
  BY <1>2, CurrentIs, KCallStep DEF RunContent
<1> QED BY <1>1, <1>2

LEMMA KInvForwards ==
  ASSUME IInv, IInv', KInv, OneLevel, Current.kind = "import", FreeArray # {},
         NEW e, e = running[Len(running) - 1].env, ImportForwards(e, Env)
  PROVE  KInv'
<1> DEFINE names == IF Env.forwards = "some" THEN Forwarded ELSE {}
           t == Last(e.scopes)
<1>1. names = IF Env.forwards = "some" THEN Forwarded ELSE {}
  OBVIOUS
<1>2. Env.forwards # "some" => names = {}
  OBVIOUS
<1> HIDE DEF names
<1>3. PICK run, taken, arr, h : Forwards(e, names, run, taken, arr, h)
  BY <1>1, ForwardsIs
<1>4. e \in Envs /\ Kept(heap, e) /\ Kept(heap, Env)
  BY <1>1, ForwardsIs, CurrentIs DEF KInv
<1>5. /\ Become(run, template, h, arr)
      /\ taken.scopes = e.scopes /\ taken.last = e.last
      /\ \A n \in Names : /\ taken.idx[n] = IF n \in names THEN 0 ELSE e.idx[n]
                          /\ taken.cidx[n] = IF n \in names THEN 0 ELSE e.cidx[n]
      /\ taken.forwards = "some" => e.forwards = "some" \/ Env.forwards = "some"
      /\ \A q \in ScopeIds, tb \in Tables :
            h[q][tb] = IF q = t THEN heap[q][tb] \ names ELSE heap[q][tb]
      /\ \A x \in Live(run, template) :
            x = taken \/ (x \in Envs /\ (Len(running) = 2 => Forgetful(x)))
  BY <1>3 DEF Forwards, Took, Removes
<1>6. ASSUME NEW x \in Envs PROVE \A p \in 1 .. Len(x.scopes) : x.scopes[p] \in ScopeIds
  BY CurrentIs, EnvType, ChainType
<1> HIDE DEF t
<1>7. ASSUME NEW x \in Envs, NEW tb \in Tables, NEW n, n \notin names, NEW i,
             Within(heap, x.scopes, tb, n, i)
      PROVE  Within(h, x.scopes, tb, n, i)
  <2>1. \A p \in 1 .. Len(x.scopes) : n \in heap[x.scopes[p]][tb] => n \in h[x.scopes[p]][tb]
    BY <1>5, <1>6, <1>7
  <2> QED BY <1>7, <2>1 DEF Within
<1>8. "vars" \in Tables /\ "callables" \in Tables
  BY DEF Tables
<1>9. \A s, tb, n : Within(h, s, tb, n, 0)
  BY DEF Within
<1>10. Kept(h, taken)
  <2>1. ASSUME NEW n \in Names
        PROVE  Within(h, e.scopes, "vars", n, taken.idx[n]) /\ Within(h, e.scopes, "callables", n, taken.cidx[n])
    <3>1. Within(heap, e.scopes, "vars", n, e.idx[n]) /\ Within(heap, e.scopes, "callables", n, e.cidx[n])
      BY <1>4 DEF Kept
    <3>2. CASE n \in names
      BY <1>5, <1>9, <3>2
    <3>3. CASE n \notin names
      BY <1>4, <1>5, <1>7, <1>8, <3>1, <3>3
    <3> QED BY <3>2, <3>3
  <2> QED BY <1>4, <1>5, <2>1 DEF Kept
<1>11. ASSUME NEW x \in Envs, Forgetful(x) PROVE Kept(h, x)
  <2>1. Kept(heap, x)
    BY DEF KInv
  <2> QED BY <1>9, <1>11, <2>1, BoundsType DEF Kept, Forgetful
<1>12. ASSUME names = {}, NEW x \in Envs PROVE Kept(h, x)
  <2>1. Kept(heap, x)
    BY DEF KInv
  <2> QED BY <1>7, <1>8, <1>12, <2>1 DEF Kept
<1>13. names = {} \/ Len(running) = 2
  <2>1. CASE "forward" \notin Imports
    BY <1>2, <1>4, <2>1 DEF Kept
  <2>2. CASE "forward" \in Imports
    <3>1. Len(running) \in Nat \ {0} /\ Current = running[Len(running)]
      BY CurrentIs
    <3>2. Len(running) \in 1 .. Len(running)
      BY <3>1
    <3> QED BY <2>2, <3>1, <3>2 DEF OneLevel
  <2> QED BY <2>1, <2>2
<1> QED BY <1>5, <1>10, <1>11, <1>12, <1>13, KBecomes

LEMMA KInvNext == IInv /\ IInv' /\ KInv /\ OneLevel /\ [Next]_vars => KInv'
<1> SUFFICES ASSUME IInv, IInv', KInv, OneLevel, [Next]_vars PROVE KInv'
  OBVIOUS
<1>1. CASE UNCHANGED vars
  BY <1>1 DEF vars, KInv, Envs, Live
<1>2. ASSUME NEW x \in Names, NEW write, SetVariable(x, write) PROVE KInv'
  BY <1>2, KInvSetGlobal, KInvSetNested DEF SetVariable
<1>3. ASSUME NEW x \in Names,
             \/ GetVariable(x) \/ (\E w \in Writes : SetVariable(x, w)) \/ SetLocalVariable(x)
             \/ GetCallable(x) \/ SetCallable(x)
      PROVE  KInv'
  BY <1>2, <1>3, KInvGetVariable, KInvSetLocalVariable, KInvGetCallable, KInvSetCallable
<1>4. ASSUME Return PROVE KInv'
  BY <1>4, KPopStep DEF Return
<1>5. ASSUME EndImport PROVE KInv'
  <2>1. Current.kind = "import" /\ FreeArray # {}
    BY <1>5 DEF EndImport
  <2>2. CASE Env.forwards = "nil"
    BY <1>5, <2>1, <2>2, KPopStep DEF EndImport
  <2>3. CASE Env.forwards # "nil"
    <3>1. ImportForwards(running[Len(running) - 1].env, Env)
      BY <1>5, <2>3 DEF EndImport
    <3> QED BY <2>1, <3>1, KInvForwards
  <2> QED BY <2>2, <2>3
<1>6. CASE Next
  BY <1>3, <1>4, <1>5, <1>6, KInvEnterScope, KInvLeaveScope, KInvCalls, KInvImport DEF Next
<1> QED BY <1>1, <1>6

LEMMA KInvInit == Init => KInv
<1> SUFFICES ASSUME Init PROVE KInv
  OBVIOUS
<1> DEFINE root == NewEnv(<<1>>, Nil, "nil")
           main == [kind |-> "main", blocks |-> <<>>, env |-> root]
<1>1. Forgetful(root) /\ root.forwards = "nil"
  BY DEF NewEnv, Forgetful, NoLast
<1> HIDE DEF root
<1>2. running = <<main>> /\ template = NoEnv /\ main.env = root
  BY DEF Init, root
<1> HIDE DEF main
<1>3. running \in Seq(Frames) /\ Len(running) = 1 /\ running[1] = main
  <2>1. running \in Seq(Frames)
    BY IInvInit DEF IInv, Stacked
  <2> QED BY <1>2, <2>1
<1>4. \A e \in Envs : e = root
  <2>1. \A k \in 1 .. Len(running) : running[k].env = root
    BY <1>2, <1>3
  <2> QED BY <1>2, <1>3, <2>1, LiveIs DEF Envs
<1> QED BY <1>1, <1>4, ForgetfulKept DEF KInv

LEMMA KInvInChain == IInv /\ KInv => IndexInChain
<1> SUFFICES ASSUME IInv, KInv, NEW e \in Envs, NEW n \in Names
             PROVE  /\ VariableIndex(e, n) \in {0} \cup DOMAIN e.scopes
                    /\ CallableIndex(e, n) \in {0} \cup DOMAIN e.scopes
  BY DEF IndexInChain
<1>1. e \in EnvRecords /\ Kept(heap, e)
  BY CurrentIs DEF KInv
<1>2. DOMAIN e.scopes = 1 .. Len(e.scopes) /\ Len(e.scopes) \in Nat
  BY <1>1, EnvType, ChainType
<1>3. VariableIndex(e, n) \in 0 .. Len(e.scopes) /\ CallableIndex(e, n) \in 0 .. Len(e.scopes)
  BY <1>1, FoundWithin
<1> QED BY <1>2, <1>3

(* As long as no imported file imports another one that forwards, a lookup finds
   what a walk of the chain finds and never indexes past it, for every name. *)
THEOREM LookupsAreWalks == Spec /\ []OneLevel => []LookupIsWalk
<1>1. Init => KInv
  BY KInvInit
<1>2. IInv /\ IInv' /\ KInv /\ OneLevel /\ [Next]_vars => KInv'
  BY KInvNext
<1>3. IInv /\ KInv => LookupIsWalk
  BY IInvAgrees, KInvInChain DEF LookupIsWalk
<1> QED BY <1>1, <1>2, <1>3, EnvironmentInvariant, PTL DEF Spec
=============================================================================
