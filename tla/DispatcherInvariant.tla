------------------------- MODULE DispatcherInvariant -------------------------
(***************************************************************************)
(* The inductive invariants behind IsolateDispatcher's safety: what has to *)
(* be true of the handlers, the isolates and the drains together for the   *)
(* types, the ownership of the isolates, the accounting of the pool and    *)
(* the conversations with the host to be preserved by every step.          *)
(***************************************************************************)
EXTENDS IsolateDispatcher

HasIsolate == {"giveBack", "check", "send", "put"}
Working    == {"run", "await", "fail", "emit"}

(* What the types of the messages and the packets rest on: a packet under   *)
(* way to an isolate names a compilation, and an isolate it can reach has   *)
(* been borrowed for one.                                                   *)
Routed ==
    /\ \A h \in Handlers :
         /\ pc[h] \in Routing => pkt[h].cid \in CIDs
         /\ pc[h] \in HasIsolate => found[h] \in Isolates /\ onData[found[h]] \in CIDs
    /\ \A c \in CIDs : active[c] # None => onData[active[c]] \in CIDs
    /\ \A i \in Isolates :
         /\ iso[i] \in Working => isoCid[i] \in CIDs /\ onData[i] \in CIDs
         /\ iso[i] = "emit" => out[i] \in OutKinds
         /\ drain[i] # "idle" => msg[i] \in Messages

TypeInv == TypeOK /\ Routed

(* The three places a compilation can be between its request and its        *)
(* response: a handler that carries the request, an isolate that runs it,   *)
(* a drain that delivers its response.                                      *)
Carries(h, c)   == pc[h] \in Routing /\ pkt[h].kind = "compile" /\ pkt[h].cid = c
Runs(i, c)      == /\ iso[i] \in {"run", "await"} \/ (iso[i] = "emit" /\ out[i] # "error")
                   /\ isoCid[i] = c
Completes(i, c) == drain[i] \in {"finish", "release", "respond"} /\ msg[i].cid = c

(* It is in at most one of them, and the host has not had its response.     *)
OneThread ==
    /\ \A h \in Handlers, c \in CIDs : Carries(h, c) =>
         /\ host[c] # "idle"
         /\ \A g \in Handlers : Carries(g, c) => g = h
         /\ \A i \in Isolates : ~Runs(i, c) /\ ~Completes(i, c)
    /\ \A i \in Isolates, c \in CIDs : Runs(i, c) =>
         /\ host[c] # "idle"
         /\ \A j \in Isolates : Runs(j, c) => j = i
         /\ \A j \in Isolates : ~Completes(j, c)
    /\ \A i \in Isolates, c \in CIDs : Completes(i, c) =>
         /\ host[c] # "idle"
         /\ \A j \in Isolates : Completes(j, c) => j = i

(* Wherever it is, the isolate it is bound to stays its own until the drain *)
(* takes it off activeIsolates.                                             *)
Bound ==
    /\ \A h \in Handlers : pc[h] \in HasIsolate /\ pkt[h].kind = "compile" =>
                            active[pkt[h].cid] = found[h]
    /\ \A i \in Isolates, c \in CIDs : Runs(i, c) => active[c] = i
    /\ \A i \in Isolates : drain[i] = "finish" =>
                            msg[i].to = msg[i].cid /\ active[msg[i].cid] = i

(* activeIsolates and the subscribed callbacks are inverse to each other,   *)
(* and the inactive list holds the other isolates, once each.               *)
Owned ==
    /\ \A c \in CIDs : active[c] # None =>
                            borrowed[active[c]] /\ onData[active[c]] = c
    /\ \A i \in Isolates : borrowed[i] => onData[i] \in CIDs /\ active[onData[i]] = i
    /\ \A i \in Isolates : /\ i \in spawned <=> borrowed[i] \/ InSeq(i, inactive)
                           /\ ~(borrowed[i] /\ InSeq(i, inactive))
    /\ \A j, k \in 1..Len(inactive) : inactive[j] = inactive[k] => j = k

OwnershipInv == TypeInv /\ OneThread /\ Bound /\ Owned

(* What counting needs: an isolate is spawned by a handler that holds a     *)
(* token when every isolate there is serves a compilation that holds one.   *)
PoolInv ==
    /\ IsFiniteSet(TokenHolders) /\ PoolAccounting
    /\ IsFiniteSet(spawned) /\ BoundedIsolates

(* What a token's way back needs: only the end of input closes a mailbox.   *)
ReturnInv ==
    /\ NoTokenStranded
    /\ reader \in {"closing", "killing", "returned"} => closed
    /\ shut # {} => closed

-----------------------------------------------------------------------------
(* What the conversation with a host that keeps to the protocol adds.       *)
Answers(h, c) == pc[h] \in Routing /\ pkt[h].kind = "answer" /\ pkt[h].cid = c

(* The isolate of a compilation waits inside a callback, and what it asked  *)
(* has been written.                                                        *)
Awaited(c) ==
    /\ active[c] # None
    /\ iso[active[c]] = "await" /\ isoCid[active[c]] = c /\ drain[active[c]] = "idle"

(* Nothing that breaks the protocol is under way.                           *)
Faultless ==
    /\ \A h \in Handlers : pc[h] \in Routing => pkt[h].kind \in {"compile", "answer"}
    /\ \A i \in Isolates : ~Failed(i)

(* On the way in: what the host has sent and the service not yet taken.     *)
Inbound ==
    /\ \A h \in Handlers, c \in CIDs : Carries(h, c) => host[c] = "compiling"
    /\ \A h \in Handlers, c \in CIDs : Answers(h, c) =>
         /\ host[c] = "compiling" /\ Awaited(c)
         /\ pc[h] \in HasIsolate => found[h] = active[c]
         /\ \A g \in Handlers : Answers(g, c) => g = h

(* On the way out: the host waits for what a compilation does next, unless  *)
(* the compilation waits for the host.                                      *)
Outbound ==
    /\ \A c \in CIDs : host[c] = "asked" => Awaited(c)
    /\ \A i \in Isolates, c \in CIDs : Runs(i, c) /\ iso[i] # "await" => host[c] = "compiling"
    /\ \A i \in Isolates : drain[i] = "forward" =>
         /\ host[msg[i].cid] = "compiling" /\ msg[i].to = msg[i].cid
         /\ Runs(i, msg[i].cid)
         /\ msg[i].kind = "request" => iso[i] = "await"
    /\ \A i \in Isolates : drain[i] \in {"finish", "release", "respond"} =>
         /\ host[msg[i].cid] = "compiling" /\ msg[i].to = msg[i].cid
         /\ drain[i] # "finish" => active[msg[i].cid] = None
    /\ \A c \in CIDs : active[c] # None => host[c] # "idle"

(* The end of input comes when nothing is under way.                        *)
Quiet == \A c \in CIDs : host[c] = "idle"
Lifetime ==
    /\ reader \in {"closing", "killing", "returned"} => Quiet
    /\ closed \/ shut # {} => reader \in {"closing", "killing", "returned"}
    /\ \A i \in Isolates : iso[i] = "exited" => i \in shut
    /\ \A i \in spawned : iso[i] # "unspawned"

ConversationInv == Faultless /\ Inbound /\ Outbound /\ Lifetime

-----------------------------------------------------------------------------
(* What is left of it when the host sends packets nobody accepts, and when  *)
(* stdin may end at any point.                                              *)

(* A protocol error has ended this isolate's compilation, and the isolate   *)
(* keeps its compilation ID until the process ends.                         *)
Doomed(i) == Failed(i) /\ drain[i] \notin {"finish", "release", "respond"}

(* A compilation's isolate is where the answer it asked for can find it.    *)
Waits(i, c) ==
    /\ i \in Isolates /\ active[c] = i
    /\ Doomed(i) \/ (iso[i] = "await" /\ isoCid[i] = c /\ drain[i] = "idle")

Meets(h, i, c) ==
    /\ Waits(i, c)
    /\ ~Doomed(i) => host[c] = "compiling" /\ \A g \in Handlers : Answers(g, c) => g = h

(* On the way in.  After the end of input an answer may lose its isolate:   *)
(* if it is past the look at closed, to Kill.                               *)
Heard ==
    /\ \A h \in Handlers, c \in CIDs : Carries(h, c) => host[c] = "compiling"
    /\ \A h \in Handlers, c \in CIDs : Answers(h, c) =>
         /\ pc[h] \in {"send", "put"} => found[h] \in shut \/ Meets(h, found[h], c)
         /\ ~closed => Meets(h, active[c], c) /\ (pc[h] \in HasIsolate => found[h] = active[c])
    /\ \A c \in CIDs : host[c] = "asked" /\ ~closed => Waits(active[c], c)

(* A callback whose mailbox has been closed has given up: its compilation   *)
(* is about to answer although its request is open.                         *)
GivesUp(i) == i \in shut /\ iso[i] = "emit" /\ out[i] = "response"

(* On the way out.                                                          *)
Spoken ==
    /\ \A i \in Isolates, c \in CIDs : Runs(i, c) =>
         \/ host[c] = "compiling"
         \/ host[c] = "asked" /\ (iso[i] = "await" \/ GivesUp(i))
    /\ \A i \in Isolates : drain[i] = "forward" =>
         /\ msg[i].to = msg[i].cid /\ host[msg[i].cid] = "compiling"
         /\ active[msg[i].cid] = i /\ isoCid[i] = msg[i].cid /\ iso[i] \in Working
         /\ msg[i].kind = "request" => iso[i] = "await" \/ Failed(i) \/ GivesUp(i)
         /\ \A h \in Handlers : ~Carries(h, msg[i].cid)
         /\ \A j \in Isolates : ~Completes(j, msg[i].cid)
    /\ \A i \in Isolates : drain[i] \in {"finish", "release", "respond"} =>
         /\ msg[i].to = msg[i].cid
         /\ \/ host[msg[i].cid] = "compiling"
            \/ host[msg[i].cid] = "asked" /\ msg[i].kind = "response" /\ i \in shut

(* The end of input closes the mailboxes, and nothing reopens them; an      *)
(* isolate that waits for the host has written all it had to.               *)
Ending ==
    /\ closed <=> reader \in {"closing", "killing", "returned"}
    /\ shut # {} => closed
    /\ \A i \in Isolates : iso[i] = "exited" => i \in shut
    /\ \A i \in spawned : iso[i] # "unspawned"
    /\ \A i \in Isolates : iso[i] = "await" => drain[i] \in {"idle", "forward"}

TalkInv == Heard /\ Spoken /\ Ending
=============================================================================
