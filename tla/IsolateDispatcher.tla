-------------------------- MODULE IsolateDispatcher --------------------------
(***************************************************************************)
(* The embedded compiler's server: the read loop and the handler           *)
(* goroutines of embedded/isolate_dispatcher.go, the pooled goroutines of  *)
(* embedded/reusable_isolate.go (mailbox, reply channel, drain loop) and   *)
(* the message loop of embedded/compilation_dispatcher.go that runs on     *)
(* each of them, together with the host at the other end of stdin/stdout.  *)
(*                                                                         *)
(* One action is one stretch of code between two points at which another   *)
(* goroutine can be observed: a mutex section, a channel operation, an     *)
(* atomic or unsynchronised read, a packet written to stdout.              *)
(*                                                                         *)
(* What a packet says is reduced to what routing and the protocol depend   *)
(* on: the compilation it names and its kind.  A stylesheet's evaluation   *)
(* is any finite sequence of log events and host callbacks that ends in a  *)
(* compile response (CompileEmits).                                        *)
(***************************************************************************)
EXTENDS Integers, Sequences, FiniteSets

CONSTANTS
    CIDs,          \* the nonzero compilation IDs the host uses
    Isolates,      \* identities SpawnReusableIsolate can hand out
    Handlers,      \* handlePacket goroutines alive at once (a bound of the model)
    ExtraBusy,     \* a bound: see HostPackets
    MaxConcurrent, \* maxConcurrentCompilations
    HostSends,     \* what the host sends besides compile requests and answers
    EofWhen,       \* when stdin may reach its end
    None           \* no isolate, no compilation

(* The packets outside the compile/answer exchange.  "version" is legal;   *)
(* the others break the protocol: a second compile request for a           *)
(* compilation in flight, an answer nobody asked for, a packet every       *)
(* receiver rejects (a version request on a nonzero ID, an unset message,  *)
(* a wrong request ID or response type), a packet without a readable       *)
(* compilation ID or on ID 0, a stream that breaks inside a packet.        *)
ExtraKinds == {"version", "duplicate", "stray", "bad", "malformed", "truncated"}

ASSUME DispatcherConstants ==
    /\ MaxConcurrent \in Nat \ {0} /\ ExtraBusy \in Nat
    /\ HostSends \subseteq ExtraKinds
    /\ EofWhen \in {"never", "quiescent", "any"}
    /\ None \notin CIDs \cup Isolates

VARIABLES
    reader,      \* where Listen is
    closed,      \* d.closed
    toKill,      \* what is left of Listen's range over allIsolates
    process,     \* "up", "exited" or "panicked"
    status,      \* the status the process exited with
    exitCode,    \* the package variable exitCode
    pc,          \* where each handler goroutine is; "idle" is a free slot
    pkt,         \* the packet each handler carries
    found,       \* the isolate getIsolate returned to it
    active,      \* d.activeIsolates
    inactive,    \* d.inactiveIsolates
    spawned,     \* d.allIsolates
    pool,        \* the tokens in d.isolatePool
    borrowed,    \* ReusableIsolate.borrowed
    onData,      \* the compilation whose callback Borrow subscribed last
    shut,        \* the isolates whose mailbox is closed
    iso,         \* where each isolate's CompilationDispatcher is
    isoCid,      \* its compilationID
    out,         \* the message it is about to send
    drain,       \* where each isolate's drain goroutine is
    msg,         \* the message it delivers, and the callback it delivers it to
    host         \* what the host knows of each compilation

readerVars  == <<reader, closed, toKill>>
processVars == <<process, status>>
handlerVars == <<pc, pkt, found>>
poolVars    == <<active, inactive, spawned, pool>>
borrowVars  == <<borrowed, onData>>
isoVars     == <<iso, isoCid, out>>
drainVars   == <<drain, msg>>
vars == <<readerVars, processVars, exitCode, handlerVars, poolVars, borrowVars,
          shut, isoVars, drainVars, host>>

-----------------------------------------------------------------------------
(* Values *)

Packets  == [kind : {"compile", "answer", "bad"}, cid : CIDs]
              \cup [kind : {"version", "malformed"}, cid : {None}]
NoPacket == [kind |-> "none", cid |-> None]

OutKinds == {"log", "request", "response", "error"}
Messages == [kind : OutKinds, cid : CIDs, to : CIDs]
NoMessage == [kind |-> "none", cid |-> None, to |-> None]

InSeq(x, s) == \E k \in 1..Len(s) : s[k] = x

(* A goroutine of handlePacket that is on its way to an isolate. *)
Routing == {"lookup", "acquire", "borrow", "giveBack", "check", "send", "put"}
HandlerPCs == {"idle", "version", "error"} \cup Routing

(* d.mu is held across a blocking channel receive in getIsolate's second   *)
(* check; every other section under d.mu is a single action.               *)
MuHeld == \E h \in Handlers : pc[h] = "giveBack"

Init ==
    /\ reader = "reading" /\ closed = FALSE /\ toKill = {}
    /\ process = "up" /\ status = 0 /\ exitCode = 0
    /\ pc = [h \in Handlers |-> "idle"]
    /\ pkt = [h \in Handlers |-> NoPacket]
    /\ found = [h \in Handlers |-> None]
    /\ active = [c \in CIDs |-> None]
    /\ inactive = <<>> /\ spawned = {} /\ pool = 0
    /\ borrowed = [i \in Isolates |-> FALSE]
    /\ onData = [i \in Isolates |-> None]
    /\ shut = {}
    /\ iso = [i \in Isolates |-> "unspawned"]
    /\ isoCid = [i \in Isolates |-> None]
    /\ out = [i \in Isolates |-> "none"]
    /\ drain = [i \in Isolates |-> "idle"]
    /\ msg = [i \in Isolates |-> NoMessage]
    /\ host = [c \in CIDs |-> "idle"]

-----------------------------------------------------------------------------
(* The read loop (Listen) *)

(* What the host may send next.  A well-behaved host starts a compilation  *)
(* under an ID that is not in use and answers a request once.  A bound of  *)
(* the model: packets outside that exchange are read only while fewer than *)
(* ExtraBusy handlers are busy, so that they cannot take every slot.       *)
Busy == {h \in Handlers : pc[h] # "idle"}
MaySend(kind) == kind \in HostSends /\ Cardinality(Busy) < ExtraBusy

HostPackets ==
    [kind : {"compile"}, cid : {c \in CIDs : host[c] = "idle" \/ MaySend("duplicate")}]
      \cup [kind : {"answer"}, cid : {c \in CIDs : host[c] = "asked" \/ MaySend("stray")}]
      \cup {p \in Packets : p.kind \in {"bad", "version", "malformed"} /\ MaySend(p.kind)}

Expected(p) == \/ p.kind = "compile" /\ host[p.cid] = "idle"
               \/ p.kind = "answer" /\ host[p.cid] = "asked"

(* ReadPacket succeeds and wg.Go starts a handler for the packet. *)
ReadPacket(h, p) ==
    /\ reader = "reading"
    /\ pc[h] = "idle"
    /\ p \in HostPackets
    /\ pkt' = [pkt EXCEPT ![h] = p]
    /\ pc' = [pc EXCEPT ![h] = CASE p.kind = "malformed" -> "error"
                                 [] p.kind = "version"   -> "version"
                                 [] OTHER                -> "lookup"]
    /\ host' = IF Expected(p) THEN [host EXCEPT ![p.cid] = "compiling"] ELSE host
    /\ UNCHANGED <<readerVars, processVars, exitCode, found, poolVars,
                   borrowVars, shut, isoVars, drainVars>>

EofPossible ==
    \/ EofWhen = "any"
    \/ EofWhen = "quiescent" /\ \A c \in CIDs : host[c] = "idle"

(* The stream ends between two packets. *)
ReadEof ==
    /\ reader = "reading"
    /\ EofPossible
    /\ closed' = TRUE
    /\ reader' = "closing"
    /\ UNCHANGED <<toKill, processVars, exitCode, handlerVars, poolVars,
                   borrowVars, shut, isoVars, drainVars, host>>

(* The range over allIsolates takes its slice header once, without d.mu.   *)
(* An append it does not see yet is one that comes after this step: the    *)
(* handler that appends has still to load closed.                          *)
RangeIsolates ==
    /\ reader = "closing"
    /\ toKill' = spawned
    /\ reader' = "killing"
    /\ UNCHANGED <<closed, processVars, exitCode, handlerVars, poolVars,
                   borrowVars, shut, isoVars, drainVars, host>>

(* isolate.Kill() *)
Kill(i) ==
    /\ reader = "killing"
    /\ i \in toKill
    /\ toKill' = toKill \ {i}
    /\ shut' = shut \cup {i}
    /\ UNCHANGED <<reader, closed, processVars, exitCode, handlerVars, poolVars,
                   borrowVars, isoVars, drainVars, host>>

(* Mutant: Listen returns without d.wg.Wait(). *)
WaitHandlersNot ==
    /\ reader = "killing"
    /\ toKill = {}
    /\ reader' = "returned"
    /\ UNCHANGED <<closed, toKill, processVars, exitCode, handlerVars, poolVars,
                   borrowVars, shut, isoVars, drainVars, host>>

(* d.wg.Wait() returns, and Listen with it. *)
WaitHandlers ==
    /\ reader = "killing"
    /\ toKill = {}
    /\ \A h \in Handlers : pc[h] = "idle"
    /\ reader' = "returned"
    /\ UNCHANGED <<closed, toKill, processVars, exitCode, handlerVars, poolVars,
                   borrowVars, shut, isoVars, drainVars, host>>

(* Run returns to main: the process ends with status 0, whatever goroutines *)
(* are still running.                                                       *)
ReturnFromRun ==
    /\ reader = "returned"
    /\ process' = "exited"
    /\ status' = 0
    /\ UNCHANGED <<readerVars, exitCode, handlerVars, poolVars, borrowVars, shut,
                   isoVars, drainVars, host>>

(* The stream breaks inside a packet: Listen reports the error ... *)
ReadFails ==
    /\ reader = "reading"
    /\ "truncated" \in HostSends
    /\ exitCode' = 70
    /\ reader' = "failed"
    /\ UNCHANGED <<closed, toKill, processVars, handlerVars, poolVars,
                   borrowVars, shut, isoVars, drainVars, host>>

(* ... and Run exits with the status of an internal error. *)
ExitOnReadError ==
    /\ reader = "failed"
    /\ process' = "exited"
    /\ status' = 70
    /\ UNCHANGED <<readerVars, exitCode, handlerVars, poolVars, borrowVars, shut,
                   isoVars, drainVars, host>>

-----------------------------------------------------------------------------
(* The handler goroutines (handlePacket and getIsolate) *)

Free(h) ==
    /\ pc' = [pc EXCEPT ![h] = "idle"]
    /\ pkt' = [pkt EXCEPT ![h] = NoPacket]
    /\ found' = [found EXCEPT ![h] = None]

(* getIsolate's first look at activeIsolates. *)
LookUp(h) ==
    /\ pc[h] = "lookup"
    /\ ~MuHeld
    /\ LET i == active[pkt[h].cid] IN
         /\ pc' = [pc EXCEPT ![h] = IF i = None THEN "acquire" ELSE "check"]
         /\ found' = [found EXCEPT ![h] = i]
    /\ UNCHANGED <<readerVars, processVars, exitCode, pkt, poolVars, borrowVars,
                   shut, isoVars, drainVars, host>>

(* Mutant: the pool holds one token more than the cap. *)
AcquireTokenOffByOne(h) ==
    /\ pc[h] = "acquire"
    /\ pool <= MaxConcurrent
    /\ pool' = pool + 1
    /\ pc' = [pc EXCEPT ![h] = "borrow"]
    /\ UNCHANGED <<readerVars, processVars, exitCode, pkt, found, active, inactive,
                   spawned, borrowVars, shut, isoVars, drainVars, host>>

(* d.isolatePool <- struct{}{} *)
AcquireToken(h) ==
    /\ pc[h] = "acquire"
    /\ pool < MaxConcurrent
    /\ pool' = pool + 1
    /\ pc' = [pc EXCEPT ![h] = "borrow"]
    /\ UNCHANGED <<readerVars, processVars, exitCode, pkt, found, active, inactive,
                   spawned, borrowVars, shut, isoVars, drainVars, host>>

(* Mutant: the loser does not return its token. *)
LoseRaceKeepsToken(h) ==
    /\ pc[h] = "borrow"
    /\ ~MuHeld
    /\ active[pkt[h].cid] # None
    /\ found' = [found EXCEPT ![h] = active[pkt[h].cid]]
    /\ pc' = [pc EXCEPT ![h] = "check"]
    /\ UNCHANGED <<readerVars, processVars, exitCode, pkt, poolVars, borrowVars,
                   shut, isoVars, drainVars, host>>

(* The second look finds that another packet started the compilation. *)
LoseRace(h) ==
    /\ pc[h] = "borrow"
    /\ ~MuHeld
    /\ active[pkt[h].cid] # None
    /\ found' = [found EXCEPT ![h] = active[pkt[h].cid]]
    /\ pc' = [pc EXCEPT ![h] = "giveBack"]
    /\ UNCHANGED <<readerVars, processVars, exitCode, pkt, poolVars, borrowVars,
                   shut, isoVars, drainVars, host>>

(* <-d.isolatePool, still under d.mu *)
GiveBack(h) ==
    /\ pc[h] = "giveBack"
    /\ pool > 0
    /\ pool' = pool - 1
    /\ pc' = [pc EXCEPT ![h] = "check"]
    /\ UNCHANGED <<readerVars, processVars, exitCode, pkt, found, active, inactive,
                   spawned, borrowVars, shut, isoVars, drainVars, host>>

(* Mutant: inactive isolates are never looked for. *)
SpawnAlways(i) ==
    /\ i \notin spawned
    /\ spawned' = spawned \cup {i}
    /\ iso' = [iso EXCEPT ![i] = "take"]
    /\ UNCHANGED inactive

(* The isolate getIsolate takes: the first inactive one, or a new one. *)
Reuse(i) ==
    /\ inactive # <<>>
    /\ i = Head(inactive)
    /\ inactive' = Tail(inactive)
    /\ UNCHANGED <<spawned, iso>>

Spawn(i) ==
    /\ inactive = <<>>
    /\ i \notin spawned
    /\ spawned' = spawned \cup {i}
    /\ iso' = [iso EXCEPT ![i] = "take"]
    /\ UNCHANGED inactive

(* Mutant: there is no second look. *)
BorrowIsolateBlind(h, i) ==
    /\ pc[h] = "borrow"
    /\ ~MuHeld
    /\ Reuse(i) \/ Spawn(i)
    /\ IF borrowed[i]
       THEN /\ pc' = [pc EXCEPT ![h] = "error"]
            /\ UNCHANGED <<borrowVars, active, found>>
       ELSE /\ pc' = [pc EXCEPT ![h] = "check"]
            /\ borrowed' = [borrowed EXCEPT ![i] = TRUE]
            /\ onData' = [onData EXCEPT ![i] = pkt[h].cid]
            /\ active' = [active EXCEPT ![pkt[h].cid] = i]
            /\ found' = [found EXCEPT ![h] = i]
    /\ UNCHANGED <<readerVars, processVars, exitCode, pkt, pool, shut, isoCid, out,
                   drainVars, host>>

(* The rest of getIsolate.  A second Borrow of a borrowed isolate fails and *)
(* getIsolate returns its error, keeping the token.                         *)
BorrowIsolate(h, i) ==
    /\ pc[h] = "borrow"
    /\ ~MuHeld
    /\ active[pkt[h].cid] = None
    /\ Reuse(i) \/ Spawn(i)
    /\ IF borrowed[i]
       THEN /\ pc' = [pc EXCEPT ![h] = "error"]
            /\ UNCHANGED <<borrowVars, active, found>>
       ELSE /\ pc' = [pc EXCEPT ![h] = "check"]
            /\ borrowed' = [borrowed EXCEPT ![i] = TRUE]
            /\ onData' = [onData EXCEPT ![i] = pkt[h].cid]
            /\ active' = [active EXCEPT ![pkt[h].cid] = i]
            /\ found' = [found EXCEPT ![h] = i]
    /\ UNCHANGED <<readerVars, processVars, exitCode, pkt, pool, shut, isoCid, out,
                   drainVars, host>>

(* if d.closed.Load() { return nil }: the token stays in the pool. *)
CheckClosed(h) ==
    /\ pc[h] = "check"
    /\ IF closed THEN Free(h)
                 ELSE pc' = [pc EXCEPT ![h] = "send"] /\ UNCHANGED <<pkt, found>>
    /\ UNCHANGED <<readerVars, processVars, exitCode, poolVars, borrowVars, shut,
                   isoVars, drainVars, host>>

(* isolate.Send reads borrowed without a lock. *)
CheckBorrowed(h) ==
    /\ pc[h] = "send"
    /\ pc' = [pc EXCEPT ![h] = IF borrowed[found[h]] THEN "put" ELSE "error"]
    /\ UNCHANGED <<readerVars, processVars, exitCode, pkt, found, poolVars,
                   borrowVars, shut, isoVars, drainVars, host>>

(* Mutant: an isolate between compilations ignores what is no request. *)
DeliverIgnores(h, i) ==
    /\ pc[h] = "put" /\ i = found[h]
    /\ i \notin shut
    /\ LET p == pkt[h] IN
         \/ /\ iso[i] = "take"
            /\ IF p.kind = "compile"
               THEN isoCid' = [isoCid EXCEPT ![i] = p.cid] /\ iso' = [iso EXCEPT ![i] = "run"]
               ELSE UNCHANGED <<isoCid, iso>>
         \/ /\ iso[i] = "await"
            /\ iso' = [iso EXCEPT ![i] = IF p.kind = "answer" THEN "run" ELSE "fail"]
            /\ UNCHANGED isoCid
    /\ Free(h)
    /\ UNCHANGED <<readerVars, processVars, exitCode, poolVars, borrowVars, shut,
                   out, drainVars, host>>

(* Put and Take meet on the mailbox: the isolate receives the packet, at    *)
(* the top of its loop (handleMessage) or inside a callback (sendRequest,   *)
(* which does not look at the packet's compilation ID).                     *)
Deliver(h, i) ==
    /\ pc[h] = "put" /\ i = found[h]
    /\ i \notin shut
    /\ LET p == pkt[h] IN
         \/ /\ iso[i] = "take"
            /\ isoCid' = [isoCid EXCEPT ![i] = p.cid]
            /\ iso' = [iso EXCEPT ![i] = IF p.kind = "compile" THEN "run" ELSE "fail"]
         \/ /\ iso[i] = "await"
            /\ iso' = [iso EXCEPT ![i] = IF p.kind = "answer" THEN "run" ELSE "fail"]
            /\ UNCHANGED isoCid
    /\ Free(h)
    /\ UNCHANGED <<readerVars, processVars, exitCode, poolVars, borrowVars, shut,
                   out, drainVars, host>>

(* A send on a closed channel panics, and so does one that is waiting when *)
(* the channel is closed.  Nothing recovers it.                            *)
PutPanics(h) ==
    /\ pc[h] = "put"
    /\ found[h] \in shut
    /\ process' = "panicked"
    /\ status' = 2
    /\ UNCHANGED <<readerVars, exitCode, handlerVars, poolVars, borrowVars, shut,
                   isoVars, drainVars, host>>

(* A version request is answered inline. *)
AnswerVersion(h) ==
    /\ pc[h] = "version"
    /\ Free(h)
    /\ UNCHANGED <<readerVars, processVars, exitCode, poolVars, borrowVars, shut,
                   isoVars, drainVars, host>>

(* handlePacket returned an error: handleError sets the exit code by whose  *)
(* fault it was and writes an error packet; the read loop goes on.          *)
ReportError(h) ==
    /\ pc[h] = "error"
    /\ exitCode' = IF pkt[h].kind = "malformed" THEN 76 ELSE 70
    /\ Free(h)
    /\ UNCHANGED <<readerVars, processVars, poolVars, borrowVars, shut, isoVars,
                   drainVars, host>>

-----------------------------------------------------------------------------
(* The isolates (CompilationDispatcher.Listen) *)

(* Mutant: a compilation that ends is not answered, it goes on. *)
CompileEmitsNoEnd(i, kind) ==
    /\ iso[i] = "run"
    /\ kind \in {"log", "request"}
    /\ out' = [out EXCEPT ![i] = kind]
    /\ iso' = [iso EXCEPT ![i] = "emit"]
    /\ UNCHANGED <<readerVars, processVars, exitCode, handlerVars, poolVars,
                   borrowVars, shut, isoCid, drainVars, host>>

(* The evaluation reaches its next visible event: a log event, a callback, *)
(* or its end in a compile response.                                       *)
CompileEmits(i, kind) ==
    /\ iso[i] = "run"
    /\ kind \in {"log", "request", "response"}
    /\ out' = [out EXCEPT ![i] = kind]
    /\ iso' = [iso EXCEPT ![i] = "emit"]
    /\ UNCHANGED <<readerVars, processVars, exitCode, handlerVars, poolVars,
                   borrowVars, shut, isoCid, drainVars, host>>

(* A protocol error ends the compilation: Listen turns it into an error     *)
(* packet.                                                                  *)
CompileFails(i) ==
    /\ iso[i] = "fail"
    /\ exitCode' = 76
    /\ out' = [out EXCEPT ![i] = "error"]
    /\ iso' = [iso EXCEPT ![i] = "emit"]
    /\ UNCHANGED <<readerVars, processVars, handlerVars, poolVars, borrowVars,
                   shut, isoCid, drainVars, host>>

(* Mutant: the compile response is written before the bookkeeping. *)
EmitAnswersFirst(i) ==
    /\ iso[i] = "emit"
    /\ drain[i] = "idle"
    /\ drain' = [drain EXCEPT ![i] = CASE out[i] = "response" -> "finish"
                                      [] out[i] = "error"    -> "fatal"
                                      [] OTHER               -> "forward"]
    /\ msg' = [msg EXCEPT ![i] = [kind |-> out[i], cid |-> isoCid[i],
                                  to |-> onData[i]]]
    /\ iso' = [iso EXCEPT ![i] = CASE out[i] = "log"     -> "run"
                                  [] out[i] = "request" -> "await"
                                  [] OTHER              -> "take"]
    /\ host' = IF out[i] = "response" THEN [host EXCEPT ![isoCid[i]] = "idle"] ELSE host
    /\ out' = [out EXCEPT ![i] = "none"]
    /\ UNCHANGED <<readerVars, processVars, exitCode, handlerVars, poolVars,
                   borrowVars, shut, isoCid>>

(* sendPort.Send meets the drain goroutine, which reads the subscribed      *)
(* callback and calls it with the packet.                                   *)
Emit(i) ==
    /\ iso[i] = "emit"
    /\ drain[i] = "idle"
    /\ drain' = [drain EXCEPT ![i] = CASE out[i] = "response" -> "finish"
                                      [] out[i] = "error"    -> "fatal"
                                      [] OTHER               -> "forward"]
    /\ msg' = [msg EXCEPT ![i] = [kind |-> out[i], cid |-> isoCid[i],
                                  to |-> onData[i]]]
    /\ iso' = [iso EXCEPT ![i] = CASE out[i] = "log"     -> "run"
                                  [] out[i] = "request" -> "await"
                                  [] OTHER              -> "take"]
    /\ out' = [out EXCEPT ![i] = "none"]
    /\ UNCHANGED <<readerVars, processVars, exitCode, handlerVars, poolVars,
                   borrowVars, shut, isoCid, host>>

(* Take returns nil at the top of the loop: the goroutine returns. *)
TakeClosed(i) ==
    /\ iso[i] = "take"
    /\ i \in shut
    /\ iso' = [iso EXCEPT ![i] = "exited"]
    /\ UNCHANGED <<readerVars, processVars, exitCode, handlerVars, poolVars,
                   borrowVars, shut, isoCid, out, drainVars, host>>

(* Mutant: a callback gives up whether or not its mailbox is closed. *)
AwaitGivesUp(i) ==
    /\ iso[i] = "await"
    /\ out' = [out EXCEPT ![i] = "response"]
    /\ iso' = [iso EXCEPT ![i] = "emit"]
    /\ UNCHANGED <<readerVars, processVars, exitCode, handlerVars, poolVars,
                   borrowVars, shut, isoCid, drainVars, host>>

(* Take returns nil inside a callback: the compilation ends in a failure    *)
(* response, as with any error that is not a protocol error.                *)
AwaitClosed(i) ==
    /\ iso[i] = "await"
    /\ i \in shut
    /\ out' = [out EXCEPT ![i] = "response"]
    /\ iso' = [iso EXCEPT ![i] = "emit"]
    /\ UNCHANGED <<readerVars, processVars, exitCode, handlerVars, poolVars,
                   borrowVars, shut, isoCid, drainVars, host>>

-----------------------------------------------------------------------------
(* The drain goroutines (the callback getIsolate passes to Borrow) *)

Drained(i) ==
    /\ drain' = [drain EXCEPT ![i] = "idle"]
    /\ msg' = [msg EXCEPT ![i] = NoMessage]

(* Category 0: write the packet. *)
Forward(i) ==
    /\ drain[i] = "forward"
    /\ host' = IF msg[i].kind = "request"
               THEN [host EXCEPT ![msg[i].cid] = "asked"] ELSE host
    /\ Drained(i)
    /\ UNCHANGED <<readerVars, processVars, exitCode, handlerVars, poolVars,
                   borrowVars, shut, isoVars>>

(* Category 1: the section under d.mu; Release's error is ignored. *)
Finish(i) ==
    /\ drain[i] = "finish"
    /\ ~MuHeld
    /\ active' = [active EXCEPT ![msg[i].to] = None]
    /\ borrowed' = [borrowed EXCEPT ![i] = FALSE]
    /\ inactive' = Append(inactive, i)
    /\ drain' = [drain EXCEPT ![i] = "release"]
    /\ UNCHANGED <<readerVars, processVars, exitCode, handlerVars, spawned, pool,
                   onData, shut, isoVars, msg, host>>

(* <-d.isolatePool *)
ReleaseToken(i) ==
    /\ drain[i] = "release"
    /\ pool > 0
    /\ pool' = pool - 1
    /\ drain' = [drain EXCEPT ![i] = "respond"]
    /\ UNCHANGED <<readerVars, processVars, exitCode, handlerVars, active, inactive,
                   spawned, borrowVars, shut, isoVars, msg, host>>

(* Only then is the compile response written. *)
Respond(i) ==
    /\ drain[i] = "respond"
    /\ host' = [host EXCEPT ![msg[i].cid] = "idle"]
    /\ Drained(i)
    /\ UNCHANGED <<readerVars, processVars, exitCode, handlerVars, poolVars,
                   borrowVars, shut, isoVars>>

(* Category 2: write the error packet ... *)
WriteFatal(i) ==
    /\ drain[i] = "fatal"
    /\ drain' = [drain EXCEPT ![i] = "exit"]
    /\ UNCHANGED <<readerVars, processVars, exitCode, handlerVars, poolVars,
                   borrowVars, shut, isoVars, msg, host>>

(* ... and end the process. *)
ExitFatal(i) ==
    /\ drain[i] = "exit"
    /\ process' = "exited"
    /\ status' = exitCode
    /\ UNCHANGED <<readerVars, exitCode, handlerVars, poolVars, borrowVars, shut,
                   isoVars, drainVars, host>>

-----------------------------------------------------------------------------
Up == process = "up"

ReaderStep ==
    /\ Up
    /\ \/ \E h \in Handlers, p \in Packets : ReadPacket(h, p)
       \/ ReadEof \/ RangeIsolates \/ (\E i \in Isolates : Kill(i)) \/ WaitHandlers
       \/ ReturnFromRun \/ ReadFails \/ ExitOnReadError

HandlerStep(h) ==
    /\ Up
    /\ \/ LookUp(h) \/ AcquireToken(h) \/ LoseRace(h) \/ GiveBack(h)
       \/ \E i \in Isolates : BorrowIsolate(h, i)
       \/ CheckClosed(h) \/ CheckBorrowed(h) \/ (\E i \in Isolates : Deliver(h, i))
       \/ PutPanics(h) \/ AnswerVersion(h) \/ ReportError(h)

IsolateStep(i) ==
    /\ Up
    /\ \/ \E kind \in OutKinds : CompileEmits(i, kind)
       \/ CompileFails(i) \/ Emit(i) \/ TakeClosed(i) \/ AwaitClosed(i)

DrainStep(i) ==
    /\ Up
    /\ \/ Forward(i) \/ Finish(i) \/ ReleaseToken(i) \/ Respond(i)
       \/ WriteFatal(i) \/ ExitFatal(i)

(* A process that has ended, or panicked, takes no more steps. *)
Ended == ~Up /\ UNCHANGED vars

Next ==
    \/ ReaderStep
    \/ \E h \in Handlers : HandlerStep(h)
    \/ \E i \in Isolates : IsolateStep(i) \/ DrainStep(i)
    \/ Ended

Spec == Init /\ [][Next]_vars

(* Goroutines that can run do run; the senders waiting on a channel (the    *)
(* pool, a mailbox) are served in turn, so one that could be served again   *)
(* and again is; a stylesheet's evaluation ends; the host answers what it   *)
(* is asked, which is the only thing it must do.                            *)
Fairness ==
    /\ WF_vars(Up /\ (RangeIsolates \/ (\E i \in Isolates : Kill(i)) \/ WaitHandlers
                       \/ ReturnFromRun \/ ExitOnReadError))
    /\ \A h \in Handlers : /\ WF_vars(HandlerStep(h))
                           /\ SF_vars(Up /\ (AcquireToken(h) \/ \E i \in Isolates : Deliver(h, i)))
    /\ \A i \in Isolates : /\ WF_vars(IsolateStep(i)) /\ WF_vars(DrainStep(i))
                           /\ SF_vars(Up /\ CompileEmits(i, "response"))
    /\ \A c \in CIDs : WF_vars(Up /\ \E h \in Handlers :
                                 ReadPacket(h, [kind |-> "answer", cid |-> c]))

FairSpec == Spec /\ Fairness

-----------------------------------------------------------------------------
(* Properties *)

TypeOK ==
    /\ reader \in {"reading", "closing", "killing", "returned", "failed"}
    /\ closed \in BOOLEAN
    /\ toKill \subseteq Isolates
    /\ process \in {"up", "exited", "panicked"}
    /\ status \in {0, 2, 70, 76} /\ exitCode \in {0, 70, 76}
    /\ pc \in [Handlers -> HandlerPCs]
    /\ pkt \in [Handlers -> Packets \cup {NoPacket}]
    /\ found \in [Handlers -> Isolates \cup {None}]
    /\ active \in [CIDs -> Isolates \cup {None}]
    /\ inactive \in Seq(Isolates)
    /\ spawned \subseteq Isolates
    /\ pool \in 0..MaxConcurrent
    /\ borrowed \in [Isolates -> BOOLEAN]
    /\ onData \in [Isolates -> CIDs \cup {None}]
    /\ shut \subseteq Isolates
    /\ iso \in [Isolates -> {"unspawned", "take", "run", "await", "fail", "emit", "exited"}]
    /\ isoCid \in [Isolates -> CIDs \cup {None}]
    /\ out \in [Isolates -> OutKinds \cup {"none"}]
    /\ drain \in [Isolates -> {"idle", "forward", "finish", "release", "respond", "fatal", "exit"}]
    /\ msg \in [Isolates -> Messages \cup {NoMessage}]
    /\ host \in [CIDs -> {"idle", "compiling", "asked"}]

(* Every isolate ever spawned is either in the inactive list, once, or      *)
(* serves exactly one compilation, and its borrowed flag says which: it is  *)
(* never lost, shared by two compilations or queued twice.                  *)
IsolateOwnership ==
    /\ \A i \in Isolates :
         /\ i \in spawned <=> InSeq(i, inactive) \/ \E c \in CIDs : active[c] = i
         /\ borrowed[i] <=> \E c \in CIDs : active[c] = i
         /\ borrowed[i] => ~InSeq(i, inactive)
    /\ \A c, d \in CIDs : active[c] = active[d] /\ active[c] # None => c = d
    /\ \A j, k \in 1..Len(inactive) : inactive[j] = inactive[k] => j = k

(* The tokens in the pool are exactly those of the compilations in          *)
(* activeIsolates, of the handlers between taking a token and using or      *)
(* returning it, and of the drains between the two halves of a completion.  *)
TokenHolders ==
    {<<"handler", h>> : h \in {g \in Handlers : pc[g] \in {"borrow", "giveBack"}}}
      \cup {<<"compilation", c>> : c \in {d \in CIDs : active[d] # None}}
      \cup {<<"drain", i>> : i \in {j \in Isolates : drain[j] = "release"}}
PoolAccounting == pool = Cardinality(TokenHolders)

(* No more goroutines are ever spawned than compilations may run at once.   *)
BoundedIsolates == Cardinality(spawned) <= MaxConcurrent

(* A protocol error has ended this isolate's compilation, and is about to   *)
(* end the process.                                                         *)
Failed(i) == \/ iso[i] = "fail"
             \/ iso[i] = "emit" /\ out[i] = "error"
             \/ drain[i] \in {"fatal", "exit"}

(* A packet waiting in Put reaches the isolate of its own compilation, at   *)
(* the point of its conversation with the host the packet belongs to: a     *)
(* compile request an isolate between compilations, an answer the callback  *)
(* that asked.  Packets nobody accepts may go anywhere, but not disturb     *)
(* the others before the process ends.                                      *)
SingleInFlight ==
    \A h \in Handlers :
        pc[h] = "put" /\ pkt[h].kind # "bad" /\ found[h] \notin shut /\ ~Failed(found[h]) =>
            LET i == found[h] IN
            /\ active[pkt[h].cid] = i
            /\ \/ pkt[h].kind = "compile" /\ iso[i] = "take"
               \/ pkt[h].kind = "answer" /\ iso[i] = "await" /\ isoCid[i] = pkt[h].cid

(* What a drain is about to write is what the host expects of that          *)
(* compilation: no event of a compilation that has been answered, no second *)
(* request before the answer to the first, and one response per compile     *)
(* request (at a shutdown also while a request is open).                    *)
OutboundProtocol ==
    \A i \in Isolates : drain[i] \in {"forward", "finish", "release", "respond"} =>
        /\ msg[i].cid = msg[i].to
        /\ \/ host[msg[i].cid] = "compiling"
           \/ host[msg[i].cid] = "asked" /\ msg[i].kind = "response" /\ i \in shut

(* A compilation in activeIsolates holds a token, which only its completion *)
(* or the end of the process takes off it.  Until the end of input there is *)
(* always something under way that leads there: a packet for it that is on  *)
(* its way to its isolate, an isolate at work, or a drain that is about to  *)
(* take it off.  So no compilation occupies the pool with nobody at it,     *)
(* whoever wins the race through getIsolate and whatever it carries.        *)
Served(c) ==
    LET i == active[c] IN
    \/ \E h \in Handlers : /\ pc[h] \in {"giveBack", "check", "send", "put"}
                           /\ found[h] = i /\ pkt[h].cid = c
    \/ iso[i] \in {"run", "await", "fail", "emit"}
    \/ drain[i] \in {"finish", "fatal", "exit"}
NoTokenStranded == ~closed => \A c \in CIDs : active[c] # None => Served(c)

(* No goroutine waits on the pool while it holds d.mu, and a completion     *)
(* never waits for its own token.                                           *)
ReleaseNeverBlocks ==
    /\ MuHeld => pool > 0
    /\ \A i \in Isolates : drain[i] = "release" => pool > 0

-----------------------------------------------------------------------------
(* The service the dispatcher provides *)

(* A compilation has been answered, but not yet in the host's eyes: its     *)
(* drain has taken it off activeIsolates and has still to write.            *)
Completing(c) == \E i \in Isolates : drain[i] \in {"release", "respond"} /\ msg[i].cid = c

phase == [c \in CIDs |-> IF host[c] = "idle" THEN "idle"
                         ELSE IF Completing(c) THEN "finishing"
                         ELSE IF active[c] = None THEN "queued"
                         ELSE IF host[c] = "asked" THEN "asked"
                         ELSE "running"]

Service == INSTANCE CompileService WITH Capacity <- MaxConcurrent

(* For a host that keeps to the protocol and does not close stdin, the      *)
(* pool, the mailboxes and the drains together provide CompileService.      *)
ImplementsService == Service!FairSpec

(* And so, although compilations outnumber the pool, each is answered.      *)
RequestsAnswered == Service!EveryRequestAnswered

(* A shutdown with nothing in flight ends with status 0, after every        *)
(* handler (a version request may still be in one) has finished.            *)
GracefulShutdown ==
    closed ~> (process = "exited" /\ status = 0 /\ \A h \in Handlers : pc[h] = "idle")

-----------------------------------------------------------------------------
(* What the documentation says and the code does not do *)

(* docs/critical-invariants.md, "No panics in compiler code": not when      *)
(* stdin ends while a packet is on its way to a mailbox that Kill closes.   *)
NoPanic == process # "panicked"

(* Listen: end of input "waits for in-flight handlers before returning".    *)
(* A handler that finds the dispatcher closed keeps its token, and the next *)
(* one waits for it for ever.                                               *)
ShutdownReturns == closed ~> ~Up

(* exitCode "tracks the process exit code ... 76 for host-caused protocol   *)
(* errors", but Run returns, with status 0, after an end of input.          *)
ExitCodeIsStatus == process = "exited" => status = exitCode

(* ReusableIsolate: "at most one compilation borrows an isolate at a time", *)
(* but a second compile request under an ID in use can run on the isolate   *)
(* after the first has finished, and release it once more.                  *)
OneBorrower == \A c, d \in CIDs : active[c] = active[d] /\ active[c] # None => c = d
=============================================================================
