------------------------ MODULE IsolateDispatcherMC ------------------------
(* Instances of IsolateDispatcher for TLC. *)
EXTENDS DispatcherInvariant, TLC

Symmetry ==
    Permutations(CIDs) \cup Permutations(Isolates) \cup Permutations(Handlers)

(* Packets from outside the exchange of requests and answers that are under *)
(* way, or have made their isolate fail.                                    *)
Strangers ==
    Cardinality({h \in Handlers : pkt[h].kind \in ExtraKinds})
        + Cardinality({i \in Isolates : Failed(i)})

(* Bounds of dispatcher_faulty_host: one stranger at a time; what is left   *)
(* of a process that has ended is not followed.                             *)
OneStranger == Up /\ Strangers <= 1

(* Bounds of dispatcher_pool: and none after the end of input.              *)
OneStrangerBeforeEnd == OneStranger /\ (closed => Strangers = 0)
=============================================================================
