--------------------------- MODULE CompileService ---------------------------
(***************************************************************************)
(* What the embedded compiler promises a host that keeps to the protocol   *)
(* (embedded/isolate_dispatcher.go, docs/ref/embedded.md): compilations    *)
(* named by ID, at most Capacity of them running, each of them asking the  *)
(* host one question at a time and each of them answered exactly once.     *)
(***************************************************************************)
EXTENDS Integers, FiniteSets

CONSTANTS CIDs, Capacity

VARIABLE phase  \* [CIDs -> Phases]

Phases == {"idle", "queued", "running", "asked", "finishing"}

Running == {c \in CIDs : phase[c] \in {"running", "asked"}}

Init == phase = [c \in CIDs |-> "idle"]

Goes(c, from, to) == phase[c] = from /\ phase' = [phase EXCEPT ![c] = to]

(* The host sends a compile request. *)
Request(c) == Goes(c, "idle", "queued")

(* The compilation gets an isolate. *)
Start(c) == Cardinality(Running) < Capacity /\ Goes(c, "queued", "running")

(* The compilation calls back into the host, and the host answers. *)
Ask(c)    == Goes(c, "running", "asked")
Answer(c) == Goes(c, "asked", "running")

(* The isolate is free again; the response reaches the host. *)
Complete(c) == Goes(c, "running", "finishing")
Respond(c)  == Goes(c, "finishing", "idle")

Next == \E c \in CIDs :
    Request(c) \/ Start(c) \/ Ask(c) \/ Answer(c) \/ Complete(c) \/ Respond(c)

Spec == Init /\ [][Next]_phase

(* No compilation waits for ever, for its turn or for its end. *)
FairSpec ==
    /\ Spec
    /\ \A c \in CIDs : /\ SF_phase(Start(c)) /\ WF_phase(Answer(c))
                       /\ SF_phase(Complete(c)) /\ WF_phase(Respond(c))

TypeOK == phase \in [CIDs -> Phases]

(* The cap on concurrent compilations. *)
WithinCapacity == Cardinality(Running) <= Capacity

(* Every compile request is answered. *)
EveryRequestAnswered == \A c \in CIDs : phase[c] = "queued" ~> phase[c] = "idle"
=============================================================================
