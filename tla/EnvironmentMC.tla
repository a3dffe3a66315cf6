---------------------------- MODULE EnvironmentMC ----------------------------
(***************************************************************************)
(* Bounds for TLC: one program has callables but no more than two scopes   *)
(* deep, another goes three deep with variables only, in one environment   *)
(* and what it imports; blocks that open no scope come one at a time.      *)
(***************************************************************************)
EXTENDS Environment

AllBlocks == UNION {Range(running[i].blocks) : i \in DOMAIN running}
Scopeless == \E b \in AllBlocks : ~b.scope

Shallow == /\ \A e \in Envs : Len(e.scopes) <= 2
           /\ Scopeless => Len(running) = 1 /\ Len(Blocks) <= 2

VariablesOnly ==
    /\ \A s \in ScopeIds : heap[s].callables = {}
    /\ \A e \in Envs, n \in Names : e.cidx[n] = 0
    /\ \A i \in DOMAIN running : running[i].kind # "callable"
    /\ ~Scopeless /\ (bypassed = {} \/ Len(running) = 1)

Focus == Shallow \/ VariablesOnly
==============================================================================
