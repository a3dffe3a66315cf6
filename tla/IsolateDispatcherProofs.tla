----------------------- MODULE IsolateDispatcherProofs -----------------------
(***************************************************************************)
(* Types and owners in IsolateDispatcher, for every number of              *)
(* compilations, isolates and handlers and every cap.                      *)
(*                                                                         *)
(* Types hold for every behaviour of the host and of stdin.  Who owns the  *)
(* isolates is for a host that sends no second compile request for a       *)
(* compilation in flight: it may break the protocol in any other way the   *)
(* model knows, and stdin may end or break at any moment.  Last the tokens *)
(* of the pool: who holds them, that returning one never waits, and that   *)
(* they bound the isolates ever spawned.                                   *)
(***************************************************************************)
EXTENDS DispatcherInvariant, FiniteSetTheorems, TLAPS

-----------------------------------------------------------------------------
(* Types                                                                    *)


LEMMA InitType == Init => TypeInv
<1> SUFFICES ASSUME Init PROVE TypeInv
    OBVIOUS
<1>1. TypeOK
  <2>1. /\ inactive \in Seq(Isolates) /\ pool \in 0..MaxConcurrent
        /\ status \in {0, 2, 70, 76} /\ exitCode \in {0, 70, 76}
    BY DispatcherConstants DEF Init
  <2>2. /\ pc \in [Handlers -> HandlerPCs]
        /\ pkt \in [Handlers -> Packets \cup {NoPacket}]
        /\ msg \in [Isolates -> Messages \cup {NoMessage}]
    BY DEF Init, HandlerPCs
  <2>3. /\ found \in [Handlers -> Isolates \cup {None}]
        /\ active \in [CIDs -> Isolates \cup {None}]
        /\ onData \in [Isolates -> CIDs \cup {None}]
        /\ isoCid \in [Isolates -> CIDs \cup {None}]
        /\ borrowed \in [Isolates -> BOOLEAN]
    BY DEF Init
  <2> QED
    BY <2>1, <2>2, <2>3 DEF Init, TypeOK
<1>2. Routed
    BY DEF Init, Routed, Routing, HasIsolate, Working
<1> QED
    BY <1>1, <1>2 DEF TypeInv

LEMMA ReaderType == TypeInv /\ ReaderStep => TypeInv'
<1> SUFFICES ASSUME TypeInv, ReaderStep PROVE TypeInv'
    OBVIOUS
<1> USE DispatcherConstants DEF readerVars, processVars, handlerVars, poolVars, borrowVars, isoVars, drainVars
<1>1. ASSUME NEW h \in Handlers, NEW p \in Packets, ReadPacket(h, p) PROVE TypeInv'
  <2>1. p.kind \notin {"version", "malformed"} => p.cid \in CIDs
    BY DEF Packets
  <2>2. TypeOK'
    BY <1>1 DEF ReadPacket, TypeInv, TypeOK, Routing, HandlerPCs
  <2>3. Routed'
    BY <1>1, <2>1 DEF ReadPacket, TypeInv, TypeOK, Routed, Routing, HasIsolate
  <2> QED
    BY <2>2, <2>3 DEF TypeInv
<1>2. CASE ReadEof
    BY <1>2 DEF ReadEof, TypeInv, TypeOK, Routed
<1>3. CASE RangeIsolates
    BY <1>3 DEF RangeIsolates, TypeInv, TypeOK, Routed
<1>4. ASSUME NEW i \in Isolates, Kill(i) PROVE TypeInv'
    BY <1>4 DEF Kill, TypeInv, TypeOK, Routed
<1>5. CASE WaitHandlers
    BY <1>5 DEF WaitHandlers, TypeInv, TypeOK, Routed
<1>6. CASE ReturnFromRun
    BY <1>6 DEF ReturnFromRun, TypeInv, TypeOK, Routed
<1>7. CASE ReadFails
    BY <1>7 DEF ReadFails, TypeInv, TypeOK, Routed
<1>8. CASE ExitOnReadError
    BY <1>8 DEF ExitOnReadError, TypeInv, TypeOK, Routed
<1> QED
    BY <1>1, <1>2, <1>3, <1>4, <1>5, <1>6, <1>7, <1>8 DEF ReaderStep

LEMMA HandlerType == ASSUME TypeInv, NEW h \in Handlers, HandlerStep(h) PROVE TypeInv'
<1> USE DispatcherConstants DEF readerVars, processVars, handlerVars, poolVars, borrowVars, isoVars, drainVars
<1>1. CASE LookUp(h)
    BY <1>1 DEF LookUp, TypeInv, TypeOK, Routed, Routing, HandlerPCs, HasIsolate
<1>2. CASE AcquireToken(h)
    BY <1>2 DEF AcquireToken, TypeInv, TypeOK, Routed, Routing, HandlerPCs, HasIsolate
<1>3. CASE LoseRace(h)
    BY <1>3 DEF LoseRace, TypeInv, TypeOK, Routed, Routing, HandlerPCs, HasIsolate
<1>4. CASE GiveBack(h)
    BY <1>4 DEF GiveBack, TypeInv, TypeOK, Routed, Routing, HandlerPCs, HasIsolate
<1>5. ASSUME NEW i \in Isolates, BorrowIsolate(h, i) PROVE TypeInv'
  <2>1. /\ inactive' \in Seq(Isolates) /\ spawned' \subseteq Isolates
        /\ iso' \in [Isolates -> {"unspawned", "take", "run", "await", "fail", "emit", "exited"}]
        /\ \A j \in Isolates : iso'[j] \in Working => iso[j] \in Working /\ iso'[j] = iso[j]
    <3>1. CASE Reuse(i)
      BY <3>1, <1>5 DEF BorrowIsolate, Reuse, TypeInv, TypeOK
    <3>2. CASE Spawn(i)
      <4>1. iso' \in [Isolates -> {"unspawned", "take", "run", "await", "fail", "emit", "exited"}]
        BY <3>2 DEF Spawn, TypeInv, TypeOK
      <4>2. inactive' \in Seq(Isolates) /\ spawned' \subseteq Isolates
        BY <3>2 DEF Spawn, TypeInv, TypeOK
      <4>3. \A j \in Isolates : iso'[j] \in Working => iso[j] \in Working /\ iso'[j] = iso[j]
        BY <3>2 DEF Spawn, TypeInv, TypeOK, Working
      <4> QED
        BY <4>1, <4>2, <4>3
    <3> QED
      BY <3>1, <3>2, <1>5 DEF BorrowIsolate
  <2>2. pkt[h].cid \in CIDs
    BY <1>5 DEF BorrowIsolate, TypeInv, Routed, Routing
  <2>3. CASE borrowed[i]
    <3>1. /\ pc' = [pc EXCEPT ![h] = "error"]
          /\ UNCHANGED <<active, found, borrowed, onData>>
      BY <1>5, <2>3 DEF BorrowIsolate
    <3>2. UNCHANGED <<readerVars, processVars, exitCode, pkt, pool, shut, isoCid, out, drainVars, host>>
      BY <1>5 DEF BorrowIsolate
    <3>3. TypeOK'
      <4>1. pc' \in [Handlers -> HandlerPCs]
        BY <3>1 DEF TypeInv, TypeOK, HandlerPCs
      <4> QED
        BY <2>1, <3>1, <3>2, <4>1 DEF TypeInv, TypeOK
    <3>4. Routed'
      BY <2>1, <3>1, <3>2 DEF TypeInv, TypeOK, Routed, Routing, HasIsolate, Working
    <3> QED
      BY <3>3, <3>4 DEF TypeInv
  <2>4. CASE ~borrowed[i]
    <3>1. TypeOK'
      <4>1. /\ pc' \in [Handlers -> HandlerPCs]
            /\ found' \in [Handlers -> Isolates \cup {None}]
            /\ active' \in [CIDs -> Isolates \cup {None}]
            /\ borrowed' \in [Isolates -> BOOLEAN]
            /\ onData' \in [Isolates -> CIDs \cup {None}]
        <5>1. /\ pc' = [pc EXCEPT ![h] = "check"]
              /\ borrowed' = [borrowed EXCEPT ![i] = TRUE]
              /\ onData' = [onData EXCEPT ![i] = pkt[h].cid]
              /\ active' = [active EXCEPT ![pkt[h].cid] = i]
              /\ found' = [found EXCEPT ![h] = i]
          BY <1>5, <2>4 DEF BorrowIsolate
        <5> QED
          BY <5>1, <2>2 DEF TypeInv, TypeOK, Routing, HandlerPCs
      <4>2. UNCHANGED <<readerVars, processVars, exitCode, pkt, pool, shut, isoCid, out, drainVars, host>>
        BY <1>5 DEF BorrowIsolate
      <4>3. /\ reader' \in {"reading", "closing", "killing", "returned", "failed"}
            /\ closed' \in BOOLEAN /\ toKill' \subseteq Isolates
            /\ process' \in {"up", "exited", "panicked"}
            /\ status' \in {0, 2, 70, 76} /\ exitCode' \in {0, 70, 76}
            /\ pkt' \in [Handlers -> Packets \cup {NoPacket}]
            /\ pool' \in 0..MaxConcurrent
            /\ shut' \subseteq Isolates
        BY <4>2 DEF TypeInv, TypeOK
      <4>4. /\ isoCid' \in [Isolates -> CIDs \cup {None}]
            /\ out' \in [Isolates -> OutKinds \cup {"none"}]
            /\ drain' \in [Isolates -> {"idle", "forward", "finish", "release", "respond", "fatal", "exit"}]
            /\ msg' \in [Isolates -> Messages \cup {NoMessage}]
            /\ host' \in [CIDs -> {"idle", "compiling", "asked"}]
        BY <4>2 DEF TypeInv, TypeOK
      <4> QED
        BY <2>1, <4>1, <4>3, <4>4, Zenon DEF TypeOK
    <3>2. Routed'
      BY <1>5, <2>1, <2>2, <2>4 DEF BorrowIsolate, TypeInv, TypeOK, Routed, Routing, HasIsolate, Working
    <3> QED
      BY <3>1, <3>2 DEF TypeInv
  <2> QED
    BY <2>3, <2>4
<1>6. CASE CheckClosed(h)
  <2>1. CASE closed
    <3>1. Free(h)
      BY <1>6, <2>1 DEF CheckClosed
    <3>2. TypeOK'
      BY <1>6, <3>1 DEF CheckClosed, Free, TypeInv, TypeOK, HandlerPCs
    <3>3. Routed'
      BY <1>6, <3>1 DEF CheckClosed, Free, TypeInv, TypeOK, Routed, Routing, HasIsolate
    <3> QED
      BY <3>2, <3>3 DEF TypeInv
  <2>2. CASE ~closed
    BY <1>6, <2>2 DEF CheckClosed, TypeInv, TypeOK, Routed, Routing, HandlerPCs, HasIsolate
  <2> QED
    BY <2>1, <2>2
<1>7. CASE CheckBorrowed(h)
    BY <1>7 DEF CheckBorrowed, TypeInv, TypeOK, Routed, Routing, HandlerPCs, HasIsolate
<1>8. ASSUME NEW i \in Isolates, Deliver(h, i) PROVE TypeInv'
  <2>1. pkt[h].cid \in CIDs /\ onData[i] \in CIDs
    BY <1>8 DEF Deliver, TypeInv, Routed, Routing, HasIsolate
  <2>2. TypeOK'
    BY <1>8, <2>1 DEF Deliver, Free, TypeInv, TypeOK, HandlerPCs
  <2>3. Routed'
    BY <1>8, <2>1 DEF Deliver, Free, TypeInv, TypeOK, Routed, Routing, HasIsolate, Working
  <2> QED
    BY <2>2, <2>3 DEF TypeInv
<1>9. CASE PutPanics(h)
    BY <1>9 DEF PutPanics, TypeInv, TypeOK, Routed
<1>10. CASE AnswerVersion(h)
    BY <1>10 DEF AnswerVersion, Free, TypeInv, TypeOK, Routed, Routing, HandlerPCs, HasIsolate
<1>11. CASE ReportError(h)
    BY <1>11 DEF ReportError, Free, TypeInv, TypeOK, Routed, Routing, HandlerPCs, HasIsolate
<1> QED
    BY <1>1, <1>2, <1>3, <1>4, <1>5, <1>6, <1>7, <1>8, <1>9, <1>10, <1>11 DEF HandlerStep

LEMMA IsolateType == ASSUME TypeInv, NEW i \in Isolates, IsolateStep(i) PROVE TypeInv'
<1> USE DEF readerVars, processVars, handlerVars, poolVars, borrowVars, isoVars, drainVars
<1>1. ASSUME NEW kind \in OutKinds, CompileEmits(i, kind) PROVE TypeInv'
    BY <1>1 DEF CompileEmits, TypeInv, TypeOK, Routed, Working
<1>2. CASE CompileFails(i)
    BY <1>2 DEF CompileFails, TypeInv, TypeOK, Routed, Working, OutKinds
<1>3. CASE Emit(i)
  <2>1. /\ out[i] \in OutKinds /\ isoCid[i] \in CIDs /\ onData[i] \in CIDs
    BY <1>3 DEF Emit, TypeInv, Routed, Working
  <2>2. [kind |-> out[i], cid |-> isoCid[i], to |-> onData[i]] \in Messages
    BY <2>1 DEF Messages
  <2>3. TypeOK'
    BY <1>3, <2>1, <2>2 DEF Emit, TypeInv, TypeOK
  <2>4. Routed'
    BY <1>3, <2>1, <2>2 DEF Emit, TypeInv, TypeOK, Routed, Working
  <2> QED
    BY <2>3, <2>4 DEF TypeInv
<1>4. CASE TakeClosed(i)
    BY <1>4 DEF TakeClosed, TypeInv, TypeOK, Routed, Working
<1>5. CASE AwaitClosed(i)
    BY <1>5 DEF AwaitClosed, TypeInv, TypeOK, Routed, Working, OutKinds
<1> QED
    BY <1>1, <1>2, <1>3, <1>4, <1>5 DEF IsolateStep

LEMMA DrainType == ASSUME TypeInv, NEW i \in Isolates, DrainStep(i) PROVE TypeInv'
<1> USE DEF readerVars, processVars, handlerVars, poolVars, borrowVars, isoVars, drainVars
<1>1. CASE Forward(i)
  <2>1. host' \in [CIDs -> {"idle", "compiling", "asked"}]
    BY <1>1 DEF Forward, TypeInv, TypeOK
  <2> QED
    BY <1>1, <2>1 DEF Forward, Drained, TypeInv, TypeOK, Routed
<1>2. CASE Finish(i)
  <2>1. inactive' \in Seq(Isolates)
    BY <1>2 DEF Finish, TypeInv, TypeOK
  <2>2. active' \in [CIDs -> Isolates \cup {None}] /\ borrowed' \in [Isolates -> BOOLEAN]
    BY <1>2 DEF Finish, TypeInv, TypeOK
  <2>3. TypeOK'
    BY <1>2, <2>1, <2>2 DEF Finish, TypeInv, TypeOK
  <2>4. Routed'
    BY <1>2 DEF Finish, TypeInv, TypeOK, Routed
  <2> QED
    BY <2>3, <2>4 DEF TypeInv
<1>3. CASE ReleaseToken(i)
    BY <1>3, DispatcherConstants DEF ReleaseToken, TypeInv, TypeOK, Routed
<1>4. CASE Respond(i)
  <2>1. host' \in [CIDs -> {"idle", "compiling", "asked"}]
    BY <1>4 DEF Respond, TypeInv, TypeOK
  <2> QED
    BY <1>4, <2>1 DEF Respond, Drained, TypeInv, TypeOK, Routed
<1>5. CASE WriteFatal(i)
    BY <1>5 DEF WriteFatal, TypeInv, TypeOK, Routed
<1>6. CASE ExitFatal(i)
    BY <1>6 DEF ExitFatal, TypeInv, TypeOK, Routed
<1> QED
    BY <1>1, <1>2, <1>3, <1>4, <1>5, <1>6 DEF DrainStep

LEMMA NextType == TypeInv /\ [Next]_vars => TypeInv'
<1> SUFFICES ASSUME TypeInv, [Next]_vars PROVE TypeInv'
    OBVIOUS
<1>1. CASE UNCHANGED vars
    BY <1>1 DEF vars, readerVars, processVars, handlerVars, poolVars, borrowVars, isoVars,
                drainVars, TypeInv, TypeOK, Routed
<1> QED
    BY <1>1, ReaderType, HandlerType, IsolateType, DrainType DEF Next, Ended

(* The type invariant, for every host. *)
THEOREM TypeCorrect == Spec => []TypeOK
<1>1. TypeInv => TypeOK
    BY DEF TypeInv
<1> QED
    BY <1>1, InitType, NextType, PTL DEF Spec

-----------------------------------------------------------------------------
(* Owners                                                                   *)


NoDuplicates == "duplicate" \notin HostSends

(* What the three parts of OwnershipInv are about. *)
ownVars == <<pc, pkt, found, active, inactive, spawned, borrowed, onData, iso, isoCid, out,
             drain, msg, host>>

LEMMA InitOwnership == Init => OwnershipInv
<1> SUFFICES ASSUME Init PROVE OwnershipInv
    OBVIOUS
<1>1. OneThread /\ Bound
    BY DEF Init, OneThread, Bound, Carries, Runs, Completes, Routing, HasIsolate
<1>2. Owned
    BY DEF Init, Owned, InSeq
<1> QED
    BY <1>1, <1>2, InitType DEF OwnershipInv

LEMMA SameOwnership ==
    ASSUME OneThread, Bound, Owned, UNCHANGED ownVars PROVE OneThread' /\ Bound' /\ Owned'
<1>1. OneThread'
    BY DEF ownVars, OneThread, Carries, Runs, Completes
<1>2. Bound'
    BY DEF ownVars, Bound, Runs
<1>3. Owned'
    BY DEF ownVars, Owned, InSeq
<1> QED
    BY <1>1, <1>2, <1>3

(* A host that sends no duplicates starts compilations under IDs not in use. *)
LEMMA FreshCompile ==
    ASSUME NoDuplicates, NEW p \in HostPackets, p.kind = "compile"
    PROVE  p.cid \in CIDs /\ host[p.cid] = "idle"
BY DEF NoDuplicates, HostPackets, MaySend

(* A step that starts no compilation and moves none leaves it in one place. *)
LEMMA KeepThreads ==
    ASSUME OneThread,
           \A c \in CIDs : host[c] # "idle" => host'[c] # "idle",
           \A h \in Handlers, c \in CIDs : Carries(h, c)' => Carries(h, c),
           \A i \in Isolates, c \in CIDs : Runs(i, c)' => Runs(i, c),
           \A i \in Isolates, c \in CIDs : Completes(i, c)' => Completes(i, c)
    PROVE  OneThread'
<1>1. \A h \in Handlers, c \in CIDs : Carries(h, c)' =>
        /\ host'[c] # "idle"
        /\ \A g \in Handlers : Carries(g, c)' => g = h
        /\ \A i \in Isolates : ~Runs(i, c)' /\ ~Completes(i, c)'
    BY DEF OneThread
<1>2. \A i \in Isolates, c \in CIDs : Runs(i, c)' =>
        /\ host'[c] # "idle"
        /\ \A j \in Isolates : Runs(j, c)' => j = i
        /\ \A j \in Isolates : ~Completes(j, c)'
    BY DEF OneThread
<1>3. \A i \in Isolates, c \in CIDs : Completes(i, c)' =>
        /\ host'[c] # "idle"
        /\ \A j \in Isolates : Completes(j, c)' => j = i
    BY DEF OneThread
<1> QED
    BY <1>1, <1>2, <1>3 DEF OneThread

LEMMA ReaderOwnership ==
    ASSUME NoDuplicates, OwnershipInv, ReaderStep PROVE OneThread' /\ Bound' /\ Owned'
<1> USE DEF readerVars, processVars, handlerVars, poolVars, borrowVars, isoVars, drainVars
<1>1. ASSUME NEW h \in Handlers, NEW p \in Packets, ReadPacket(h, p)
      PROVE  OneThread' /\ Bound' /\ Owned'
  <2>1. /\ pc' = [pc EXCEPT ![h] = CASE p.kind = "malformed" -> "error"
                                     [] p.kind = "version"   -> "version"
                                     [] OTHER                -> "lookup"]
        /\ pkt' = [pkt EXCEPT ![h] = p]
        /\ pc[h] = "idle"
        /\ UNCHANGED <<found, active, inactive, spawned, borrowed, onData, iso, isoCid, out,
                       drain, msg>>
    BY <1>1 DEF ReadPacket
  <2>2. /\ p.kind = "compile" => p.cid \in CIDs /\ host[p.cid] = "idle"
        /\ \A c \in CIDs : host[c] # "idle" => host'[c] # "idle"
        /\ p.kind = "compile" => host'[p.cid] # "idle"
    BY <1>1, FreshCompile DEF ReadPacket, Expected, OwnershipInv, TypeInv, TypeOK
  <2>3. /\ \A g \in Handlers, c \in CIDs : Carries(g, c)' =>
              Carries(g, c) \/ (g = h /\ p.kind = "compile" /\ c = p.cid)
        /\ \A i \in Isolates, c \in CIDs : Runs(i, c)' <=> Runs(i, c)
        /\ \A i \in Isolates, c \in CIDs : Completes(i, c)' <=> Completes(i, c)
    BY <2>1 DEF OwnershipInv, TypeInv, TypeOK, Carries, Runs, Completes
  <2>4. p.kind = "compile" =>
          /\ \A g \in Handlers : ~Carries(g, p.cid)
          /\ \A i \in Isolates : ~Runs(i, p.cid) /\ ~Completes(i, p.cid)
    BY <2>2 DEF OwnershipInv, OneThread
  <2>5. OneThread'
    <3>1. CASE p.kind # "compile"
      BY <2>2, <2>3, <3>1, KeepThreads DEF OwnershipInv
    <3>2. CASE p.kind = "compile"
      BY <2>2, <2>3, <2>4, <3>2 DEF OwnershipInv, OneThread
    <3> QED
      BY <3>1, <3>2
  <2>6. Bound'
    BY <2>1 DEF OwnershipInv, TypeInv, TypeOK, Bound, Runs, HasIsolate
  <2>7. Owned'
    BY <2>1 DEF OwnershipInv, Owned, InSeq
  <2> QED
    BY <2>5, <2>6, <2>7
<1>2. CASE \/ ReadEof \/ RangeIsolates \/ (\E i \in Isolates : Kill(i)) \/ WaitHandlers
           \/ ReturnFromRun \/ ReadFails \/ ExitOnReadError
  <2>1. UNCHANGED ownVars
    BY <1>2 DEF ReadEof, RangeIsolates, Kill, WaitHandlers, ReturnFromRun, ReadFails,
                ExitOnReadError, ownVars
  <2> QED
    BY <2>1, SameOwnership DEF OwnershipInv
<1> QED
    BY <1>1, <1>2 DEF ReaderStep

(* A step of a handler that leaves the pool alone: it may go on, or drop its  *)
(* packet, and what it says it found must be what activeIsolates holds.       *)
LEMMA HandlerMoves ==
    ASSUME OwnershipInv, NEW h \in Handlers,
           pc' = [pc EXCEPT ![h] = pc'[h]],
           pkt' = [pkt EXCEPT ![h] = pkt'[h]],
           found' = [found EXCEPT ![h] = found'[h]],
           pc'[h] \in Routing => pc[h] \in Routing /\ pkt'[h] = pkt[h],
           pc'[h] \in HasIsolate /\ pkt'[h].kind = "compile" => active[pkt'[h].cid] = found'[h],
           UNCHANGED <<active, inactive, spawned, borrowed, onData, iso, isoCid, out, drain,
                       msg, host>>
    PROVE  OneThread' /\ Bound' /\ Owned'
<1>1. /\ \A g \in Handlers, c \in CIDs : Carries(g, c)' => Carries(g, c)
      /\ \A i \in Isolates, c \in CIDs : Runs(i, c)' <=> Runs(i, c)
      /\ \A i \in Isolates, c \in CIDs : Completes(i, c)' <=> Completes(i, c)
  BY DEF OwnershipInv, TypeInv, TypeOK, Carries, Runs, Completes
<1>2. OneThread'
  BY <1>1, KeepThreads DEF OwnershipInv
<1>3. Bound'
  BY <1>1 DEF OwnershipInv, TypeInv, TypeOK, Bound
<1>4. Owned'
  BY DEF OwnershipInv, Owned, InSeq
<1> QED
  BY <1>2, <1>3, <1>4

(* The isolate getIsolate takes serves no compilation: Borrow never fails. *)
LEMMA FreeIsolate ==
    ASSUME OwnershipInv, NEW i \in Isolates, Reuse(i) \/ Spawn(i) PROVE ~borrowed[i]
<1>1. CASE Reuse(i)
  BY <1>1 DEF Reuse, OwnershipInv, TypeInv, TypeOK, Owned, InSeq
<1>2. CASE Spawn(i)
  BY <1>2 DEF Spawn, OwnershipInv, Owned
<1> QED
  BY <1>1, <1>2

LEMMA HandlerOwnership ==
    ASSUME OwnershipInv, NEW h \in Handlers, HandlerStep(h), TypeInv'
    PROVE  OneThread' /\ Bound' /\ Owned'
<1> USE DEF readerVars, processVars, handlerVars, poolVars, borrowVars, isoVars, drainVars
<1> USE DEF Routing, HasIsolate, Free
<1>1. /\ pkt = [pkt EXCEPT ![h] = pkt[h]] /\ found = [found EXCEPT ![h] = found[h]]
      /\ h \in DOMAIN pc
  BY DEF OwnershipInv, TypeInv, TypeOK
<1>2. CASE LookUp(h)
  <2>1. PICK x : /\ pc' = [pc EXCEPT ![h] = IF x = None THEN "acquire" ELSE "check"]
                 /\ x = active[pkt[h].cid]
                 /\ found' = [found EXCEPT ![h] = x]
                 /\ pc[h] = "lookup"
                 /\ UNCHANGED <<pkt, active, inactive, spawned, borrowed, onData, iso, isoCid,
                                out, drain, msg, host>>
    BY <1>2 DEF LookUp
  <2>2. h \in DOMAIN pc /\ h \in DOMAIN found
    BY DEF OwnershipInv, TypeInv, TypeOK
  <2> QED
    BY <2>1, <2>2, HandlerMoves DEF OwnershipInv, TypeInv, TypeOK
<1>3. CASE AcquireToken(h) \/ GiveBack(h) \/ CheckBorrowed(h)
  <2>1. PICK x : /\ pc' = [pc EXCEPT ![h] = x]
                 /\ x \in {"borrow", "check", "put", "error"}
                 /\ x \in {"check", "put"} => pc[h] \in {"giveBack", "send"}
    BY <1>3 DEF AcquireToken, GiveBack, CheckBorrowed
  <2>2. /\ pc[h] \in {"acquire", "giveBack", "send"}
        /\ UNCHANGED <<pkt, found, active, inactive, spawned, borrowed, onData, iso, isoCid,
                       out, drain, msg, host>>
    BY <1>3 DEF AcquireToken, GiveBack, CheckBorrowed
  <2>3. pc'[h] = x
    BY <1>1, <2>1
  <2>4. x \in {"check", "put"} /\ pkt[h].kind = "compile" => active[pkt[h].cid] = found[h]
    BY <2>1 DEF OwnershipInv, Bound
  <2>5. /\ pc' = [pc EXCEPT ![h] = pc'[h]]
        /\ pkt' = [pkt EXCEPT ![h] = pkt'[h]]
        /\ found' = [found EXCEPT ![h] = found'[h]]
    BY <1>1, <2>1, <2>2, <2>3
  <2> QED
    BY <2>1, <2>2, <2>3, <2>4, <2>5, HandlerMoves
<1>4. CASE LoseRace(h)
  <2>1. /\ pc[h] = "borrow"
        /\ pc' = [pc EXCEPT ![h] = "giveBack"]
        /\ found' = [found EXCEPT ![h] = active[pkt[h].cid]]
        /\ UNCHANGED <<pkt, active, inactive, spawned, borrowed, onData, iso, isoCid, out,
                       drain, msg, host>>
    BY <1>4 DEF LoseRace
  <2> QED
    BY <1>1, <2>1, HandlerMoves DEF OwnershipInv, TypeInv, TypeOK
<1>5. CASE AnswerVersion(h) \/ ReportError(h)
  <2>1. /\ Free(h)
        /\ UNCHANGED <<active, inactive, spawned, borrowed, onData, iso, isoCid, out, drain,
                       msg, host>>
    BY <1>5 DEF AnswerVersion, ReportError
  <2>2. /\ h \in DOMAIN pkt /\ h \in DOMAIN found
        /\ pc'[h] = "idle" /\ pkt'[h] = NoPacket /\ found'[h] = None
    BY <2>1 DEF OwnershipInv, TypeInv, TypeOK
  <2>3. /\ pc' = [pc EXCEPT ![h] = pc'[h]]
        /\ pkt' = [pkt EXCEPT ![h] = pkt'[h]]
        /\ found' = [found EXCEPT ![h] = found'[h]]
    BY <2>1, <2>2
  <2> QED
    BY <2>1, <2>2, <2>3, HandlerMoves
<1>6. CASE CheckClosed(h)
  BY <1>6, HandlerMoves DEF CheckClosed, OwnershipInv, TypeInv, TypeOK, Bound
<1>7. CASE PutPanics(h)
  <2>1. UNCHANGED ownVars
    BY <1>7 DEF PutPanics, ownVars
  <2> QED
    BY <2>1, SameOwnership DEF OwnershipInv
<1>8. ASSUME NEW i \in Isolates, Deliver(h, i) PROVE OneThread' /\ Bound' /\ Owned'
  <2>1. /\ pc[h] = "put" /\ i = found[h]
        /\ pc' = [pc EXCEPT ![h] = "idle"]
        /\ pkt' = [pkt EXCEPT ![h] = NoPacket]
        /\ UNCHANGED <<active, inactive, spawned, borrowed, onData, out, drain, msg, host>>
    BY <1>8 DEF Deliver
  <2>2. PICK cid \in CIDs :
        /\ cid = pkt[h].cid
        /\ pkt[h].kind = "compile" => Carries(h, cid) /\ active[cid] = i
    BY <2>1 DEF OwnershipInv, TypeInv, Routed, Carries, Bound
  <2>3. /\ \A g \in Handlers, c \in CIDs : Carries(g, c)' => Carries(g, c) /\ g # h
        /\ \A j \in Isolates, c \in CIDs : Completes(j, c)' <=> Completes(j, c)
    BY <2>1 DEF OwnershipInv, TypeInv, TypeOK, Carries, Completes
  <2>4. \A j \in Isolates, c \in CIDs : Runs(j, c)' =>
          Runs(j, c) \/ (j = i /\ pkt[h].kind = "compile" /\ c = cid)
    <3>1. CASE /\ iso[i] = "take"
               /\ isoCid' = [isoCid EXCEPT ![i] = pkt[h].cid]
               /\ iso' = [iso EXCEPT ![i] = IF pkt[h].kind = "compile" THEN "run" ELSE "fail"]
      BY <2>1, <2>2, <3>1 DEF OwnershipInv, TypeInv, TypeOK, Runs
    <3>2. CASE /\ iso[i] = "await"
               /\ iso' = [iso EXCEPT ![i] = IF pkt[h].kind = "answer" THEN "run" ELSE "fail"]
               /\ UNCHANGED isoCid
      BY <2>1, <3>2 DEF OwnershipInv, TypeInv, TypeOK, Runs
    <3> QED
      BY <1>8, <3>1, <3>2 DEF Deliver
  <2>5. OneThread'
    <3>1. CASE pkt[h].kind # "compile"
      BY <2>1, <2>3, <2>4, <3>1, KeepThreads DEF OwnershipInv
    <3>2. CASE pkt[h].kind = "compile"
      <4>1. /\ host[cid] # "idle"
            /\ \A g \in Handlers : ~Carries(g, cid)'
            /\ \A j \in Isolates : ~Runs(j, cid) /\ ~Completes(j, cid)
        <5>1. Carries(h, cid) /\ OneThread
          BY <2>2, <3>2 DEF OwnershipInv
        <5>2. /\ host[cid] # "idle"
              /\ \A j \in Isolates : ~Runs(j, cid) /\ ~Completes(j, cid)
          BY <2>2, <5>1 DEF OneThread
        <5>3. \A g \in Handlers : Carries(g, cid) => g = h
          BY <2>2, <5>1 DEF OneThread
        <5> QED
          BY <2>2, <2>3, <5>2, <5>3
      <4>2. \A g \in Handlers, c \in CIDs : Carries(g, c)' =>
              /\ host'[c] # "idle"
              /\ \A f \in Handlers : Carries(f, c)' => f = g
              /\ \A j \in Isolates : ~Runs(j, c)' /\ ~Completes(j, c)'
        BY <2>1, <2>3, <2>4, <4>1 DEF OwnershipInv, OneThread
      <4>3. \A j \in Isolates, c \in CIDs : Runs(j, c)' =>
              /\ host'[c] # "idle"
              /\ \A k \in Isolates : Runs(k, c)' => k = j
              /\ \A k \in Isolates : ~Completes(k, c)'
        BY <2>1, <2>3, <2>4, <4>1 DEF OwnershipInv, OneThread
      <4>4. \A j \in Isolates, c \in CIDs : Completes(j, c)' =>
              /\ host'[c] # "idle"
              /\ \A k \in Isolates : Completes(k, c)' => k = j
        BY <2>1, <2>3 DEF OwnershipInv, OneThread
      <4> QED
        BY <4>2, <4>3, <4>4 DEF OneThread
    <3> QED
      BY <3>1, <3>2
  <2>6. Bound'
    <3>1. UNCHANGED found \/ found' = [found EXCEPT ![h] = None]
      BY <1>8 DEF Deliver
    <3>2. \A g \in Handlers : pc'[g] \in {"giveBack", "check", "send", "put"} =>
            pc'[g] = pc[g] /\ pkt'[g] = pkt[g] /\ found'[g] = found[g]
      BY <2>1, <3>1 DEF OwnershipInv, TypeInv, TypeOK
    <3>3. \A g \in Handlers :
            pc'[g] \in {"giveBack", "check", "send", "put"} /\ pkt'[g].kind = "compile" =>
              active'[pkt'[g].cid] = found'[g]
      BY <2>1, <3>2 DEF OwnershipInv, Bound
    <3>4. \A j \in Isolates, c \in CIDs : Runs(j, c)' => active'[c] = j
      BY <2>1, <2>2, <2>4 DEF OwnershipInv, Bound
    <3>5. \A j \in Isolates : drain'[j] = "finish" =>
            msg'[j].to = msg'[j].cid /\ active'[msg'[j].cid] = j
      BY <2>1 DEF OwnershipInv, Bound
    <3> QED
      BY <3>3, <3>4, <3>5 DEF Bound
  <2>7. Owned'
    BY <2>1 DEF OwnershipInv, Owned, InSeq
  <2> QED
    BY <2>5, <2>6, <2>7
<1>9. ASSUME NEW i \in Isolates, BorrowIsolate(h, i) PROVE OneThread' /\ Bound' /\ Owned'
  <2> DEFINE cid == pkt[h].cid
  <2>1. /\ pc[h] = "borrow" /\ cid \in CIDs /\ active[cid] = None
        /\ UNCHANGED <<pkt, isoCid, out, drain, msg, host>>
    BY <1>9 DEF BorrowIsolate, OwnershipInv, TypeInv, Routed
  <2>2. ~borrowed[i]
    BY <1>9, FreeIsolate DEF BorrowIsolate
  <2>3. /\ pc' = [pc EXCEPT ![h] = "check"]
        /\ borrowed' = [borrowed EXCEPT ![i] = TRUE]
        /\ onData' = [onData EXCEPT ![i] = cid]
        /\ active' = [active EXCEPT ![cid] = i]
        /\ found' = [found EXCEPT ![h] = i]
    BY <1>9, <2>2 DEF BorrowIsolate
  <2>4. \A j \in Isolates : iso'[j] = iso[j] \/ iso'[j] = "take"
    BY <1>9 DEF BorrowIsolate, Reuse, Spawn, OwnershipInv, TypeInv, TypeOK
  <2>5. /\ \A g \in Handlers, c \in CIDs : Carries(g, c)' => Carries(g, c)
        /\ \A j \in Isolates, c \in CIDs : Runs(j, c)' => Runs(j, c)
        /\ \A j \in Isolates, c \in CIDs : Completes(j, c)' => Completes(j, c)
    BY <2>1, <2>3, <2>4 DEF OwnershipInv, TypeInv, TypeOK, Carries, Runs, Completes
  <2>6. OneThread'
    BY <2>1, <2>5, KeepThreads DEF OwnershipInv
  <2>7. \A c \in CIDs : active[c] # None => c # cid /\ active[c] # i /\ active'[c] = active[c]
    BY <2>1, <2>2, <2>3 DEF OwnershipInv, TypeInv, TypeOK, Owned
  <2>8. Bound'
    <3>1. ASSUME NEW g \in Handlers, pc'[g] \in {"giveBack", "check", "send", "put"},
                 pkt'[g].kind = "compile"
          PROVE  active'[pkt'[g].cid] = found'[g]
      BY <2>1, <2>3, <2>7, <3>1, DispatcherConstants
         DEF OwnershipInv, TypeInv, TypeOK, Routed, Bound
    <3>2. \A j \in Isolates, c \in CIDs : Runs(j, c)' => active'[c] = j
      BY <2>5, <2>7, DispatcherConstants DEF OwnershipInv, Bound
    <3>3. \A j \in Isolates : drain'[j] = "finish" =>
            msg'[j].to = msg'[j].cid /\ active'[msg'[j].cid] = j
      BY <2>1, <2>7, DispatcherConstants DEF OwnershipInv, TypeInv, Routed, Messages, Bound
    <3> QED
      BY <3>1, <3>2, <3>3 DEF Bound
  <2>9. /\ \A j \in Isolates : j \in spawned' <=> j \in spawned \/ j = i
        /\ \A j \in Isolates : InSeq(j, inactive)' <=> InSeq(j, inactive) /\ j # i
        /\ \A j, k \in 1..Len(inactive') : inactive'[j] = inactive'[k] => j = k
    <3>1. CASE Reuse(i)
      <4>1. /\ inactive \in Seq(Isolates) /\ inactive # <<>> /\ i = inactive[1]
            /\ inactive' = Tail(inactive) /\ spawned' = spawned
        BY <3>1 DEF Reuse, OwnershipInv, TypeInv, TypeOK
      <4>2. /\ Len(inactive') = Len(inactive) - 1 /\ Len(inactive) \in Nat \ {0}
            /\ \A k \in 1..Len(inactive') : inactive'[k] = inactive[k + 1]
        BY <4>1
      <4>3. \A j, k \in 1..Len(inactive) : inactive[j] = inactive[k] => j = k
        BY DEF OwnershipInv, Owned
      <4>4. \A j \in Isolates : InSeq(j, inactive)' <=> InSeq(j, inactive) /\ j # i
        <5>1. ASSUME NEW j \in Isolates, InSeq(j, inactive), j # i PROVE InSeq(j, inactive)'
          <6>1. PICK k \in 1..Len(inactive) : inactive[k] = j
            BY <5>1 DEF InSeq
          <6>2. k - 1 \in 1..Len(inactive') /\ inactive'[k - 1] = j
            BY <4>1, <4>2, <5>1, <6>1
          <6> QED
            BY <6>2 DEF InSeq
        <5>2. ASSUME NEW j \in Isolates, InSeq(j, inactive)'
              PROVE  InSeq(j, inactive) /\ j # i
          <6>1. PICK k \in 1..Len(inactive') : inactive'[k] = j
            BY <5>2 DEF InSeq
          <6>2. k + 1 \in 1..Len(inactive) /\ inactive[k + 1] = j /\ k + 1 # 1
            BY <4>2, <6>1
          <6> QED
            BY <4>1, <4>2, <4>3, <6>2 DEF InSeq
        <5> QED
          BY <5>1, <5>2
      <4>5. i \in spawned
        BY <4>1, <4>2 DEF OwnershipInv, Owned, InSeq
      <4>6. ASSUME NEW j \in 1..Len(inactive'), NEW k \in 1..Len(inactive'),
                   inactive'[j] = inactive'[k]
            PROVE  j = k
        BY <4>2, <4>3, <4>6
      <4> QED
        BY <4>1, <4>4, <4>5, <4>6
    <3>2. CASE Spawn(i)
      BY <3>2 DEF Spawn, OwnershipInv, Owned, InSeq
    <3> QED
      BY <1>9, <3>1, <3>2 DEF BorrowIsolate
  <2>10. /\ \A c \in CIDs : active'[c] # None =>
                              borrowed'[active'[c]] /\ onData'[active'[c]] = c
         /\ \A j \in Isolates : borrowed'[j] => onData'[j] \in CIDs /\ active'[onData'[j]] = j
    BY <2>1, <2>3, <2>7, DispatcherConstants DEF OwnershipInv, TypeInv, TypeOK, Owned
  <2>11. \A j \in Isolates : /\ j \in spawned' <=> borrowed'[j] \/ InSeq(j, inactive)'
                             /\ ~(borrowed'[j] /\ InSeq(j, inactive)')
    BY <2>2, <2>3, <2>9 DEF OwnershipInv, TypeInv, TypeOK, Owned
  <2>12. Owned'
    BY <2>9, <2>10, <2>11 DEF Owned
  <2> QED
    BY <2>6, <2>8, <2>12
<1> QED
  BY <1>2, <1>3, <1>4, <1>6, <1>7, <1>8, <1>9, <1>5 DEF HandlerStep

LEMMA CompilationOwnership ==
    ASSUME OwnershipInv, NEW i \in Isolates, IsolateStep(i) PROVE OneThread' /\ Bound' /\ Owned'
<1> USE DEF readerVars, processVars, handlerVars, poolVars, borrowVars, isoVars, drainVars
<1>1. ASSUME \/ \E kind \in OutKinds : CompileEmits(i, kind)
             \/ CompileFails(i) \/ TakeClosed(i) \/ AwaitClosed(i)
      PROVE  OneThread' /\ Bound' /\ Owned'
  <2>1. UNCHANGED <<pc, pkt, found, active, inactive, spawned, borrowed, onData, isoCid, drain,
                    msg, host>>
    BY <1>1 DEF CompileEmits, CompileFails, TakeClosed, AwaitClosed
  <2>2. \A j \in Isolates, c \in CIDs : Runs(j, c)' => Runs(j, c)
    BY <1>1 DEF CompileEmits, CompileFails, TakeClosed, AwaitClosed, OwnershipInv, TypeInv,
       TypeOK, Runs
  <2>3. /\ \A g \in Handlers, c \in CIDs : Carries(g, c)' <=> Carries(g, c)
        /\ \A j \in Isolates, c \in CIDs : Completes(j, c)' <=> Completes(j, c)
    BY <2>1 DEF Carries, Completes
  <2>4. OneThread'
    BY <2>1, <2>2, <2>3, KeepThreads DEF OwnershipInv
  <2>5. Bound'
    BY <2>1, <2>2 DEF OwnershipInv, Bound
  <2>6. Owned'
    BY <2>1 DEF OwnershipInv, Owned, InSeq
  <2> QED
    BY <2>4, <2>5, <2>6
<1>2. CASE Emit(i)
  <2>1. /\ iso[i] = "emit" /\ drain[i] = "idle"
        /\ drain' = [drain EXCEPT ![i] = CASE out[i] = "response" -> "finish"
                                           [] out[i] = "error"    -> "fatal"
                                           [] OTHER               -> "forward"]
        /\ msg' = [msg EXCEPT ![i] = [kind |-> out[i], cid |-> isoCid[i], to |-> onData[i]]]
        /\ iso' = [iso EXCEPT ![i] = CASE out[i] = "log"     -> "run"
                                       [] out[i] = "request" -> "await"
                                       [] OTHER              -> "take"]
        /\ out' = [out EXCEPT ![i] = "none"]
        /\ UNCHANGED <<pc, pkt, found, active, inactive, spawned, borrowed, onData, isoCid,
                       host>>
    BY <1>2 DEF Emit
  <2>2. PICK cid \in CIDs : isoCid[i] = cid
    BY <2>1 DEF OwnershipInv, TypeInv, Routed, Working
  <2>3. out[i] = "response" => Runs(i, cid) /\ active[cid] = i /\ onData[i] = cid
    BY <2>1, <2>2, DispatcherConstants DEF OwnershipInv, Runs, Bound, Owned
  <2>4. /\ \A g \in Handlers, c \in CIDs : Carries(g, c)' <=> Carries(g, c)
        /\ \A j \in Isolates, c \in CIDs : Runs(j, c)' =>
             Runs(j, c) /\ (j = i => out[i] # "response")
        /\ \A j \in Isolates, c \in CIDs : Completes(j, c)' =>
             Completes(j, c) \/ (j = i /\ out[i] = "response" /\ c = cid)
    <3>1. \A g \in Handlers, c \in CIDs : Carries(g, c)' <=> Carries(g, c)
      BY <2>1 DEF Carries
    <3>2. \A j \in Isolates, c \in CIDs : Runs(j, c)' =>
             Runs(j, c) /\ (j = i => out[i] # "response")
      BY <2>1 DEF OwnershipInv, TypeInv, TypeOK, Runs
    <3>3. \A j \in Isolates, c \in CIDs : Completes(j, c)' =>
             Completes(j, c) \/ (j = i /\ out[i] = "response" /\ c = cid)
      BY <2>1, <2>2 DEF OwnershipInv, TypeInv, TypeOK, Completes
    <3> QED
      BY <3>1, <3>2, <3>3
  <2>5. OneThread'
    <3>1. CASE out[i] # "response"
      BY <2>1, <2>4, <3>1, KeepThreads DEF OwnershipInv
    <3>2. CASE out[i] = "response"
      <4>1. /\ host[cid] # "idle"
            /\ \A j \in Isolates : Runs(j, cid) => j = i
            /\ \A j \in Isolates : ~Completes(j, cid)
            /\ \A g \in Handlers : ~Carries(g, cid)
        BY <2>2, <2>3, <3>2 DEF OwnershipInv, OneThread
      <4>2. \A g \in Handlers, c \in CIDs : Carries(g, c)' =>
              /\ host'[c] # "idle"
              /\ \A f \in Handlers : Carries(f, c)' => f = g
              /\ \A j \in Isolates : ~Runs(j, c)' /\ ~Completes(j, c)'
        BY <2>1, <2>4, <4>1 DEF OwnershipInv, OneThread
      <4>3. \A j \in Isolates, c \in CIDs : Runs(j, c)' =>
              /\ host'[c] # "idle"
              /\ \A k \in Isolates : Runs(k, c)' => k = j
              /\ \A k \in Isolates : ~Completes(k, c)'
        BY <2>1, <2>4, <3>2, <4>1 DEF OwnershipInv, OneThread
      <4>4. \A j \in Isolates, c \in CIDs : Completes(j, c)' =>
              /\ host'[c] # "idle"
              /\ \A k \in Isolates : Completes(k, c)' => k = j
        BY <2>1, <2>4, <4>1 DEF OwnershipInv, OneThread
      <4> QED
        BY <4>2, <4>3, <4>4 DEF OneThread
    <3> QED
      BY <3>1, <3>2
  <2>6. Bound'
    <3>1. \A g \in Handlers :
            pc'[g] \in HasIsolate /\ pkt'[g].kind = "compile" => active'[pkt'[g].cid] = found'[g]
      BY <2>1 DEF OwnershipInv, Bound
    <3>2. \A j \in Isolates, c \in CIDs : Runs(j, c)' => active'[c] = j
      BY <2>1, <2>4 DEF OwnershipInv, Bound
    <3>3. drain'[i] = "finish" => msg'[i].to = msg'[i].cid /\ active'[msg'[i].cid] = i
      BY <2>1, <2>2, <2>3 DEF OwnershipInv, TypeInv, TypeOK
    <3>4. ASSUME NEW j \in Isolates, j # i, drain'[j] = "finish"
          PROVE  msg'[j].to = msg'[j].cid /\ active'[msg'[j].cid] = j
      BY <2>1, <3>4 DEF OwnershipInv, TypeInv, TypeOK, Bound
    <3> QED
      BY <3>1, <3>2, <3>3, <3>4 DEF Bound
  <2>7. Owned'
    BY <2>1 DEF OwnershipInv, Owned, InSeq
  <2> QED
    BY <2>5, <2>6, <2>7
<1> QED
  BY <1>1, <1>2 DEF IsolateStep

LEMMA DrainOwnership ==
    ASSUME OwnershipInv, NEW i \in Isolates, DrainStep(i) PROVE OneThread' /\ Bound' /\ Owned'
<1> USE DEF readerVars, processVars, handlerVars, poolVars, borrowVars, isoVars, drainVars
<1>1. CASE Forward(i) \/ ReleaseToken(i) \/ WriteFatal(i)
  <2>1. UNCHANGED <<pc, pkt, found, active, inactive, spawned, borrowed, onData, iso, isoCid,
                    out>>
    BY <1>1 DEF Forward, ReleaseToken, WriteFatal
  <2>2. \A c \in CIDs : host[c] # "idle" => host'[c] # "idle"
    BY <1>1 DEF Forward, ReleaseToken, WriteFatal, OwnershipInv, TypeInv, TypeOK
  <2>3. /\ \A g \in Handlers, c \in CIDs : Carries(g, c)' <=> Carries(g, c)
        /\ \A j \in Isolates, c \in CIDs : Runs(j, c)' <=> Runs(j, c)
    BY <2>1 DEF Carries, Runs
  <2>4. \A j \in Isolates, c \in CIDs : Completes(j, c)' => Completes(j, c)
    BY <1>1 DEF Forward, ReleaseToken, WriteFatal, Drained, OwnershipInv, TypeInv, TypeOK,
       Completes
  <2>5. OneThread'
    BY <2>2, <2>3, <2>4, KeepThreads DEF OwnershipInv
  <2>6. \A j \in Isolates : drain'[j] = "finish" => drain[j] = "finish" /\ msg'[j] = msg[j]
    BY <1>1 DEF Forward, ReleaseToken, WriteFatal, Drained, OwnershipInv, TypeInv, TypeOK
  <2>7. Bound'
    BY <2>1, <2>3, <2>6 DEF OwnershipInv, Bound
  <2>8. Owned'
    BY <2>1 DEF OwnershipInv, Owned, InSeq
  <2> QED
    BY <2>5, <2>7, <2>8
<1>2. CASE Finish(i)
  <2>1. /\ drain[i] = "finish"
        /\ active' = [active EXCEPT ![msg[i].to] = None]
        /\ borrowed' = [borrowed EXCEPT ![i] = FALSE]
        /\ inactive' = Append(inactive, i)
        /\ drain' = [drain EXCEPT ![i] = "release"]
        /\ UNCHANGED <<pc, pkt, found, spawned, onData, iso, isoCid, out, msg, host>>
    BY <1>2 DEF Finish
  <2>2. PICK cid \in CIDs : /\ cid = msg[i].cid /\ cid = msg[i].to
                            /\ active[cid] = i /\ Completes(i, cid)
                            /\ borrowed[i] /\ onData[i] = cid
    <3>1. msg[i] \in Messages /\ msg[i].to = msg[i].cid /\ active[msg[i].cid] = i
      BY <2>1 DEF OwnershipInv, TypeInv, Routed, Bound
    <3> QED
      BY <2>1, <3>1, DispatcherConstants DEF Messages, OwnershipInv, Owned, Completes
  <2>3. \A c \in CIDs : active'[c] = IF c = cid THEN None ELSE active[c]
    BY <2>1, <2>2 DEF OwnershipInv, TypeInv, TypeOK
  <2>4. /\ \A g \in Handlers, c \in CIDs : Carries(g, c)' <=> Carries(g, c)
        /\ \A j \in Isolates, c \in CIDs : Runs(j, c)' <=> Runs(j, c)
        /\ \A j \in Isolates, c \in CIDs : Completes(j, c)' <=> Completes(j, c)
    <3>1. /\ \A g \in Handlers, c \in CIDs : Carries(g, c)' <=> Carries(g, c)
          /\ \A j \in Isolates, c \in CIDs : Runs(j, c)' <=> Runs(j, c)
      BY <2>1 DEF Carries, Runs
    <3>2. \A j \in Isolates, c \in CIDs : Completes(j, c)' <=> Completes(j, c)
      BY <2>1 DEF OwnershipInv, TypeInv, TypeOK, Completes
    <3> QED
      BY <3>1, <3>2
  <2>5. OneThread'
    BY <2>1, <2>4, KeepThreads DEF OwnershipInv
  <2>6. /\ \A g \in Handlers : ~Carries(g, cid)
        /\ \A j \in Isolates : ~Runs(j, cid)
        /\ \A j \in Isolates : Completes(j, cid) => j = i
    BY <2>2 DEF OwnershipInv, OneThread
  <2>7. Bound'
    <3>1. ASSUME NEW g \in Handlers, pc'[g] \in HasIsolate, pkt'[g].kind = "compile"
          PROVE  active'[pkt'[g].cid] = found'[g]
      <4>1. pc[g] \in Routing /\ pkt[g].cid \in CIDs /\ pkt[g].cid # cid
        BY <2>1, <2>6, <3>1 DEF OwnershipInv, TypeInv, Routed, HasIsolate, Routing, Carries
      <4> QED
        BY <2>1, <2>3, <3>1, <4>1 DEF OwnershipInv, Bound
    <3>2. \A j \in Isolates, c \in CIDs : Runs(j, c)' => active'[c] = j
      BY <2>3, <2>4, <2>6 DEF OwnershipInv, Bound
    <3>3. ASSUME NEW j \in Isolates, drain'[j] = "finish"
          PROVE  msg'[j].to = msg'[j].cid /\ active'[msg'[j].cid] = j
      <4>1. j # i /\ drain[j] = "finish" /\ msg[j] \in Messages
        BY <2>1, <3>3 DEF OwnershipInv, TypeInv, TypeOK, Routed
      <4>2. msg[j].cid \in CIDs /\ msg[j].cid # cid
        BY <2>6, <4>1 DEF Messages, Completes
      <4> QED
        BY <2>1, <2>3, <4>1, <4>2 DEF OwnershipInv, Bound
    <3> QED
      BY <3>1, <3>2, <3>3 DEF Bound
  <2>8. /\ \A j \in Isolates : InSeq(j, inactive)' <=> InSeq(j, inactive) \/ j = i
        /\ \A j, k \in 1..Len(inactive') : inactive'[j] = inactive'[k] => j = k
    <3>1. /\ inactive \in Seq(Isolates) /\ ~InSeq(i, inactive)
          /\ \A j, k \in 1..Len(inactive) : inactive[j] = inactive[k] => j = k
      BY <2>2 DEF OwnershipInv, TypeInv, TypeOK, Owned
    <3>2. /\ Len(inactive) \in Nat /\ Len(inactive') = Len(inactive) + 1
          /\ \A k \in 1..Len(inactive) : inactive'[k] = inactive[k]
          /\ inactive'[Len(inactive')] = i
      BY <2>1, <3>1
    <3>3. \A j \in Isolates : InSeq(j, inactive)' <=> InSeq(j, inactive) \/ j = i
      BY <3>2 DEF InSeq
    <3>4. \A k \in 1..Len(inactive) : inactive[k] # i
      BY <3>1 DEF InSeq
    <3>5. ASSUME NEW j \in 1..Len(inactive'), NEW k \in 1..Len(inactive'),
                 inactive'[j] = inactive'[k]
          PROVE  j = k
      BY <3>1, <3>2, <3>4, <3>5
    <3> QED
      BY <3>3, <3>5
  <2>9. Owned'
    <3>1. \A c \in CIDs : active'[c] # None =>
                            borrowed'[active'[c]] /\ onData'[active'[c]] = c
      BY <2>1, <2>2, <2>3 DEF OwnershipInv, TypeInv, TypeOK, Owned
    <3>2. \A j \in Isolates : borrowed'[j] => onData'[j] \in CIDs /\ active'[onData'[j]] = j
      BY <2>1, <2>2, <2>3 DEF OwnershipInv, TypeInv, TypeOK, Owned
    <3>3. \A j \in Isolates : /\ j \in spawned' <=> borrowed'[j] \/ InSeq(j, inactive)'
                              /\ ~(borrowed'[j] /\ InSeq(j, inactive)')
      BY <2>1, <2>2, <2>8 DEF OwnershipInv, TypeInv, TypeOK, Owned
    <3> QED
      BY <2>8, <3>1, <3>2, <3>3 DEF Owned
  <2> QED
    BY <2>5, <2>7, <2>9
<1>3. CASE Respond(i)
  <2>1. /\ drain[i] = "respond"
        /\ host' = [host EXCEPT ![msg[i].cid] = "idle"]
        /\ drain' = [drain EXCEPT ![i] = "idle"]
        /\ msg' = [msg EXCEPT ![i] = NoMessage]
        /\ UNCHANGED <<pc, pkt, found, active, inactive, spawned, borrowed, onData, iso, isoCid,
                       out>>
    BY <1>3 DEF Respond, Drained
  <2>2. PICK cid \in CIDs : cid = msg[i].cid /\ Completes(i, cid)
    BY <2>1 DEF OwnershipInv, TypeInv, Routed, Messages, Completes
  <2>3. /\ \A g \in Handlers : ~Carries(g, cid)
        /\ \A j \in Isolates : ~Runs(j, cid)
        /\ \A j \in Isolates : Completes(j, cid) => j = i
    BY <2>2 DEF OwnershipInv, OneThread
  <2>4. /\ \A g \in Handlers, c \in CIDs : Carries(g, c)' <=> Carries(g, c)
        /\ \A j \in Isolates, c \in CIDs : Runs(j, c)' <=> Runs(j, c)
    BY <2>1 DEF Carries, Runs
  <2>5. \A j \in Isolates, c \in CIDs : Completes(j, c)' => Completes(j, c) /\ j # i
    BY <2>1 DEF OwnershipInv, TypeInv, TypeOK, Completes
  <2>6. \A c \in CIDs : c # cid => host'[c] = host[c]
    BY <2>1, <2>2 DEF OwnershipInv, TypeInv, TypeOK
  <2>7. OneThread'
    BY <2>3, <2>4, <2>5, <2>6 DEF OwnershipInv, OneThread
  <2>8. \A j \in Isolates : drain'[j] = "finish" => drain[j] = "finish" /\ msg'[j] = msg[j]
    BY <2>1 DEF OwnershipInv, TypeInv, TypeOK
  <2>9. Bound'
    BY <2>1, <2>4, <2>8 DEF OwnershipInv, Bound
  <2>10. Owned'
    BY <2>1 DEF OwnershipInv, Owned, InSeq
  <2> QED
    BY <2>7, <2>9, <2>10
<1>4. CASE ExitFatal(i)
  <2>1. UNCHANGED ownVars
    BY <1>4 DEF ExitFatal, ownVars
  <2> QED
    BY <2>1, SameOwnership DEF OwnershipInv
<1> QED
  BY <1>1, <1>2, <1>3, <1>4 DEF DrainStep

LEMMA NextOwnership ==
    ASSUME NoDuplicates, OwnershipInv, [Next]_vars PROVE OwnershipInv'
<1>1. TypeInv'
  BY NextType DEF OwnershipInv
<1>2. CASE Next
  BY <1>1, <1>2, ReaderOwnership, HandlerOwnership, CompilationOwnership, DrainOwnership,
     SameOwnership DEF Next, Ended, vars, ownVars, OwnershipInv, readerVars, processVars,
     handlerVars, poolVars, borrowVars, isoVars, drainVars
<1>3. CASE UNCHANGED vars
  BY <1>1, <1>3, SameOwnership DEF vars, ownVars, OwnershipInv, readerVars, processVars,
     handlerVars, poolVars, borrowVars, isoVars, drainVars
<1> QED
  BY <1>2, <1>3

LEMMA OwnershipInductive == NoDuplicates => (Spec => []OwnershipInv)
<1> SUFFICES ASSUME NoDuplicates PROVE Spec => []OwnershipInv
  OBVIOUS
<1>1. Init => OwnershipInv
  BY InitOwnership
<1>2. OwnershipInv /\ [Next]_vars => OwnershipInv'
  BY NextOwnership
<1> QED
  BY <1>1, <1>2, PTL DEF Spec

(* Isolates are never lost, shared or queued twice (getIsolate and its       *)
(* completion callback keep allIsolates, inactiveIsolates, activeIsolates    *)
(* and the borrowed flags consistent), whatever else the host sends and      *)
(* whenever stdin ends.                                                      *)
THEOREM OwnershipCorrect == NoDuplicates => (Spec => []IsolateOwnership)
<1> SUFFICES ASSUME NoDuplicates PROVE Spec => []IsolateOwnership
  OBVIOUS
<1>1. OwnershipInv => IsolateOwnership
  <2> SUFFICES ASSUME OwnershipInv PROVE IsolateOwnership
    OBVIOUS
  <2>1. \A i \in Isolates : borrowed[i] <=> \E c \in CIDs : active[c] = i
    BY DispatcherConstants DEF OwnershipInv, Owned
  <2>2. \A c, d \in CIDs : active[c] = active[d] /\ active[c] # None => c = d
    BY DEF OwnershipInv, Owned
  <2> QED
    BY <2>1, <2>2 DEF OwnershipInv, Owned, IsolateOwnership
<1> QED
  BY <1>1, OwnershipInductive, PTL

-----------------------------------------------------------------------------
(* The tokens of the pool                                                   *)

Counted == IsFiniteSet(TokenHolders) /\ PoolAccounting

-----------------------------------------------------------------------------
(* What a step does to the holders *)

LEMMA HoldersKept == ASSUME Counted, TokenHolders' = TokenHolders, pool' = pool PROVE Counted'
BY DEF Counted, PoolAccounting

LEMMA HolderAdded ==
    ASSUME Counted, NEW x, x \notin TokenHolders,
           TokenHolders' = TokenHolders \cup {x}, pool' = pool + 1
    PROVE  Counted'
BY FS_AddElement DEF Counted, PoolAccounting

LEMMA HolderRemoved ==
    ASSUME Counted, NEW x, x \in TokenHolders,
           TokenHolders' = TokenHolders \ {x}, pool' = pool - 1
    PROVE  Counted'
BY FS_RemoveElement DEF Counted, PoolAccounting

LEMMA HolderReplaced ==
    ASSUME Counted, NEW x, NEW y, x \in TokenHolders, y \notin TokenHolders,
           TokenHolders' = (TokenHolders \ {x}) \cup {y}, pool' = pool
    PROVE  Counted'
<1>1. /\ IsFiniteSet(TokenHolders \ {x})
      /\ Cardinality(TokenHolders \ {x}) = Cardinality(TokenHolders) - 1
      /\ Cardinality(TokenHolders) \in Nat
  BY FS_RemoveElement, FS_CardinalityType DEF Counted
<1>2. /\ IsFiniteSet((TokenHolders \ {x}) \cup {y})
      /\ Cardinality((TokenHolders \ {x}) \cup {y}) = Cardinality(TokenHolders \ {x}) + 1
  BY <1>1, FS_AddElement
<1> QED
  BY <1>1, <1>2 DEF Counted, PoolAccounting

(* A holder returns a token it has put there: the receive finds one. *)
LEMMA HolderFindsToken == ASSUME Counted, NEW x \in TokenHolders, pool \in Nat PROVE pool > 0
BY FS_EmptySet DEF Counted, PoolAccounting

LEMMA InitCounted == Init => Counted
<1> SUFFICES ASSUME Init PROVE Counted
  OBVIOUS
<1>1. TokenHolders = {}
  BY DEF Init, TokenHolders
<1> QED
  BY <1>1, FS_EmptySet DEF Init, Counted, PoolAccounting

LEMMA ReaderCounts ==
    ASSUME TypeInv, Counted, ReaderStep PROVE Counted'
<1> USE DEF readerVars, processVars, handlerVars, poolVars, borrowVars, isoVars, drainVars
<1>1. /\ \A h \in Handlers : pc'[h] \in {"borrow", "giveBack"} <=> pc[h] \in {"borrow", "giveBack"}
      /\ UNCHANGED <<active, drain, pool>>
  <2>1. ASSUME NEW h \in Handlers, NEW p \in Packets, ReadPacket(h, p)
        PROVE  /\ \A g \in Handlers :
                    pc'[g] \in {"borrow", "giveBack"} <=> pc[g] \in {"borrow", "giveBack"}
               /\ UNCHANGED <<active, drain, pool>>
    BY <2>1 DEF ReadPacket, TypeInv, TypeOK
  <2>2. CASE \/ ReadEof \/ RangeIsolates \/ (\E i \in Isolates : Kill(i)) \/ WaitHandlers
             \/ ReturnFromRun \/ ReadFails \/ ExitOnReadError
    BY <2>2 DEF ReadEof, RangeIsolates, Kill, WaitHandlers, ReturnFromRun, ReadFails,
       ExitOnReadError
  <2> QED
    BY <2>1, <2>2 DEF ReaderStep
<1>2. TokenHolders' = TokenHolders
  BY <1>1 DEF TokenHolders
<1> QED
  BY <1>1, <1>2, HoldersKept

LEMMA HandlerCounts ==
    ASSUME OwnershipInv, Counted, NEW h \in Handlers, HandlerStep(h) PROVE Counted'
<1> USE DEF readerVars, processVars, handlerVars, poolVars, borrowVars, isoVars, drainVars
<1> USE DEF Free
<1>1. CASE AcquireToken(h)
  <2>1. /\ pc[h] = "acquire" /\ pc' = [pc EXCEPT ![h] = "borrow"] /\ pool' = pool + 1
        /\ UNCHANGED <<active, drain>>
    BY <1>1 DEF AcquireToken
  <2>2. <<"handler", h>> \notin TokenHolders
    BY <2>1 DEF TokenHolders
  <2>3. TokenHolders' = TokenHolders \cup {<<"handler", h>>}
    BY <2>1 DEF TokenHolders, OwnershipInv, TypeInv, TypeOK
  <2> QED
    BY <2>1, <2>2, <2>3, HolderAdded
<1>2. CASE GiveBack(h)
  <2>1. /\ pc[h] = "giveBack" /\ pc' = [pc EXCEPT ![h] = "check"] /\ pool' = pool - 1
        /\ UNCHANGED <<active, drain>>
    BY <1>2 DEF GiveBack
  <2>2. <<"handler", h>> \in TokenHolders
    BY <2>1 DEF TokenHolders
  <2>3. TokenHolders' = TokenHolders \ {<<"handler", h>>}
    BY <2>1 DEF TokenHolders, OwnershipInv, TypeInv, TypeOK
  <2> QED
    BY <2>1, <2>2, <2>3, HolderRemoved
<1>3. ASSUME NEW i \in Isolates, BorrowIsolate(h, i) PROVE Counted'
  <2>1. ~borrowed[i]
    BY <1>3, FreeIsolate DEF BorrowIsolate
  <2>2. PICK cid \in CIDs : cid = pkt[h].cid
    BY <1>3 DEF BorrowIsolate, OwnershipInv, TypeInv, Routed, Routing
  <2>3. /\ pc[h] = "borrow" /\ pc' = [pc EXCEPT ![h] = "check"]
        /\ active[cid] = None /\ active' = [active EXCEPT ![cid] = i]
        /\ UNCHANGED <<pool, drain>>
    BY <1>3, <2>1, <2>2 DEF BorrowIsolate
  <2>4. <<"handler", h>> \in TokenHolders /\ <<"compilation", cid>> \notin TokenHolders
    BY <2>3 DEF TokenHolders
  <2>5. TokenHolders' = (TokenHolders \ {<<"handler", h>>}) \cup {<<"compilation", cid>>}
    <3>1. /\ \A g \in Handlers : pc'[g] \in {"borrow", "giveBack"} <=>
                                   pc[g] \in {"borrow", "giveBack"} /\ g # h
          /\ \A c \in CIDs : active'[c] # None <=> active[c] # None \/ c = cid
      BY <2>3, DispatcherConstants DEF OwnershipInv, TypeInv, TypeOK
    <3> QED
      BY <2>3, <3>1 DEF TokenHolders
  <2> QED
    BY <2>3, <2>4, <2>5, HolderReplaced
<1>4. CASE \/ LookUp(h) \/ LoseRace(h) \/ CheckClosed(h) \/ CheckBorrowed(h)
           \/ (\E i \in Isolates : Deliver(h, i)) \/ PutPanics(h) \/ AnswerVersion(h)
           \/ ReportError(h)
  <2>1. UNCHANGED <<active, drain, pool>>
    BY <1>4 DEF LookUp, LoseRace, CheckClosed, CheckBorrowed, Deliver, PutPanics, AnswerVersion,
       ReportError
  <2>2. \A g \in Handlers : pc'[g] \in {"borrow", "giveBack"} <=> pc[g] \in {"borrow", "giveBack"}
    BY <1>4 DEF LookUp, LoseRace, CheckClosed, CheckBorrowed, Deliver, PutPanics, AnswerVersion,
       ReportError, OwnershipInv, TypeInv, TypeOK
  <2>3. TokenHolders' = TokenHolders
    BY <2>1, <2>2 DEF TokenHolders
  <2> QED
    BY <2>1, <2>3, HoldersKept
<1> QED
  BY <1>1, <1>2, <1>3, <1>4 DEF HandlerStep

LEMMA CompilationCounts ==
    ASSUME TypeInv, Counted, NEW i \in Isolates, IsolateStep(i) PROVE Counted'
<1> USE DEF readerVars, processVars, handlerVars, poolVars, borrowVars, isoVars, drainVars
<1>1. /\ UNCHANGED <<pc, active, pool>>
      /\ \A j \in Isolates : drain'[j] = "release" <=> drain[j] = "release"
  BY DEF IsolateStep, CompileEmits, CompileFails, Emit, TakeClosed, AwaitClosed, TypeInv, TypeOK
<1>2. TokenHolders' = TokenHolders
  BY <1>1 DEF TokenHolders
<1> QED
  BY <1>1, <1>2, HoldersKept

LEMMA DrainCounts ==
    ASSUME OwnershipInv, Counted, NEW i \in Isolates, DrainStep(i) PROVE Counted'
<1> USE DEF readerVars, processVars, handlerVars, poolVars, borrowVars, isoVars, drainVars
<1>1. CASE Finish(i)
  <2>1. PICK cid \in CIDs : cid = msg[i].to /\ active[cid] = i
    BY <1>1 DEF Finish, OwnershipInv, TypeInv, Routed, Messages, Bound
  <2>2. /\ drain[i] = "finish" /\ drain' = [drain EXCEPT ![i] = "release"]
        /\ active' = [active EXCEPT ![cid] = None]
        /\ UNCHANGED <<pc, pool>>
    BY <1>1, <2>1 DEF Finish
  <2>3. <<"compilation", cid>> \in TokenHolders /\ <<"drain", i>> \notin TokenHolders
    BY <2>1, <2>2, DispatcherConstants DEF TokenHolders
  <2>4. TokenHolders' = (TokenHolders \ {<<"compilation", cid>>}) \cup {<<"drain", i>>}
    <3>1. /\ \A c \in CIDs : active'[c] # None <=> active[c] # None /\ c # cid
          /\ \A j \in Isolates : drain'[j] = "release" <=> drain[j] = "release" \/ j = i
      BY <2>2 DEF OwnershipInv, TypeInv, TypeOK
    <3> QED
      BY <2>2, <3>1 DEF TokenHolders
  <2> QED
    BY <2>2, <2>3, <2>4, HolderReplaced
<1>2. CASE ReleaseToken(i)
  <2>1. /\ drain[i] = "release" /\ drain' = [drain EXCEPT ![i] = "respond"] /\ pool' = pool - 1
        /\ UNCHANGED <<pc, active>>
    BY <1>2 DEF ReleaseToken
  <2>2. <<"drain", i>> \in TokenHolders
    BY <2>1 DEF TokenHolders
  <2>3. TokenHolders' = TokenHolders \ {<<"drain", i>>}
    <3>1. \A j \in Isolates : drain'[j] = "release" <=> drain[j] = "release" /\ j # i
      BY <2>1 DEF OwnershipInv, TypeInv, TypeOK
    <3> QED
      BY <2>1, <3>1 DEF TokenHolders
  <2> QED
    BY <2>1, <2>2, <2>3, HolderRemoved
<1>3. CASE Forward(i) \/ Respond(i) \/ WriteFatal(i) \/ ExitFatal(i)
  <2>1. /\ UNCHANGED <<pc, active, pool>>
        /\ \A j \in Isolates : drain'[j] = "release" <=> drain[j] = "release"
    BY <1>3 DEF Forward, Respond, WriteFatal, ExitFatal, Drained, OwnershipInv, TypeInv, TypeOK
  <2>2. TokenHolders' = TokenHolders
    BY <2>1 DEF TokenHolders
  <2> QED
    BY <2>1, <2>2, HoldersKept
<1> QED
  BY <1>1, <1>2, <1>3 DEF DrainStep

-----------------------------------------------------------------------------
(* What the tokens bound *)

(* A handler that spawns holds a token, and so does the compilation of every *)
(* isolate already there.                                                    *)
LEMMA SpawnHasRoom ==
    ASSUME OwnershipInv, Counted, NEW h \in Handlers, pc[h] = "borrow", inactive = <<>>
    PROVE  IsFiniteSet(spawned) /\ Cardinality(spawned) < MaxConcurrent
<1> DEFINE others == TokenHolders \ {<<"handler", h>>}
           holder == [i \in spawned |-> <<"compilation", onData[i]>>]
<1>1. <<"handler", h>> \in TokenHolders
  BY DEF TokenHolders
<1>2. /\ IsFiniteSet(others) /\ Cardinality(others) = pool - 1
      /\ pool \in Nat /\ pool <= MaxConcurrent /\ MaxConcurrent \in Nat
  <2>1. IsFiniteSet(others) /\ Cardinality(others) = Cardinality(TokenHolders) - 1
    BY <1>1, FS_RemoveElement DEF Counted
  <2>2. pool = Cardinality(TokenHolders) /\ pool \in 0..MaxConcurrent
    BY DEF Counted, PoolAccounting, OwnershipInv, TypeInv, TypeOK
  <2> QED
    BY <2>1, <2>2, DispatcherConstants
<1>3. \A i \in spawned : /\ i \in Isolates /\ borrowed[i]
                         /\ onData[i] \in CIDs /\ active[onData[i]] = i
  BY DEF OwnershipInv, TypeInv, TypeOK, Owned, InSeq
<1>4. \A i \in spawned : holder[i] \in others
  BY <1>3, DispatcherConstants DEF TokenHolders
<1>5. \A i, j \in spawned : holder[i] = holder[j] => i = j
  BY <1>3
<1>6. holder \in Injection(spawned, others)
  BY <1>4, <1>5 DEF Injection, IsInjective
<1>7. IsFiniteSet(spawned) /\ Cardinality(spawned) <= Cardinality(others)
  BY <1>2, <1>6, FS_Injection
<1>8. Cardinality(spawned) \in Nat
  BY <1>7, FS_CardinalityType
<1> QED
  BY <1>2, <1>7, <1>8

LEMMA NextPool ==
    ASSUME OwnershipInv, PoolInv, [Next]_vars PROVE PoolInv'
<1> USE DEF readerVars, processVars, handlerVars, poolVars, borrowVars, isoVars, drainVars
<1>1. Counted'
  <2>1. Counted
    BY DEF PoolInv, Counted
  <2>2. ASSUME UNCHANGED vars PROVE Counted'
    <3>1. TokenHolders' = TokenHolders /\ pool' = pool
      BY <2>2 DEF vars, TokenHolders
    <3> QED
      BY <2>1, <3>1, HoldersKept
  <2> QED
    BY <2>1, <2>2, ReaderCounts, HandlerCounts, CompilationCounts, DrainCounts
       DEF Next, Ended, OwnershipInv
<1>2. IsFiniteSet(spawned') /\ Cardinality(spawned') <= MaxConcurrent
  <2>1. CASE UNCHANGED spawned
    BY <2>1 DEF PoolInv, BoundedIsolates
  <2>2. ASSUME NEW h \in Handlers, NEW i \in Isolates, pc[h] = "borrow", Spawn(i)
        PROVE  IsFiniteSet(spawned') /\ Cardinality(spawned') <= MaxConcurrent
    <3>1. IsFiniteSet(spawned) /\ Cardinality(spawned) < MaxConcurrent
      BY <2>2, SpawnHasRoom DEF Spawn, PoolInv, Counted
    <3>2. Cardinality(spawned) \in Nat /\ MaxConcurrent \in Nat
      BY <3>1, FS_CardinalityType, DispatcherConstants
    <3>3. spawned' = spawned \cup {i} /\ i \notin spawned
      BY <2>2 DEF Spawn
    <3>4. /\ IsFiniteSet(spawned \cup {i})
          /\ Cardinality(spawned \cup {i}) = Cardinality(spawned) + 1
      BY <3>1, <3>3, FS_AddElement
    <3> QED
      BY <3>1, <3>2, <3>3, <3>4
  <2>3. UNCHANGED spawned \/ \E h \in Handlers, i \in Isolates : pc[h] = "borrow" /\ Spawn(i)
    <3>1. CASE ReaderStep \/ Ended \/ UNCHANGED vars
      BY <3>1 DEF ReaderStep, ReadPacket, ReadEof, RangeIsolates, Kill, WaitHandlers,
         ReturnFromRun, ReadFails, ExitOnReadError, Ended, vars
    <3>2. ASSUME NEW h \in Handlers, HandlerStep(h)
          PROVE  UNCHANGED spawned \/ \E i \in Isolates : pc[h] = "borrow" /\ Spawn(i)
      BY <3>2 DEF HandlerStep, LookUp, AcquireToken, LoseRace, GiveBack, BorrowIsolate, Reuse,
         CheckClosed, CheckBorrowed, Deliver, PutPanics, AnswerVersion, ReportError
    <3>3. ASSUME NEW i \in Isolates, IsolateStep(i) \/ DrainStep(i) PROVE UNCHANGED spawned
      BY <3>3 DEF IsolateStep, CompileEmits, CompileFails, Emit, TakeClosed, AwaitClosed,
         DrainStep, Forward, Finish, ReleaseToken, Respond, WriteFatal, ExitFatal
    <3> QED
      BY <3>1, <3>2, <3>3 DEF Next
  <2> QED
    BY <2>1, <2>2, <2>3
<1> QED
  BY <1>1, <1>2 DEF PoolInv, Counted, BoundedIsolates

LEMMA PoolInductive == NoDuplicates => (Spec => [](OwnershipInv /\ PoolInv))
<1> SUFFICES ASSUME NoDuplicates PROVE Spec => [](OwnershipInv /\ PoolInv)
  OBVIOUS
<1>1. Init => PoolInv
  <2> SUFFICES ASSUME Init PROVE PoolInv
    OBVIOUS
  <2>1. IsFiniteSet(spawned) /\ Cardinality(spawned) <= MaxConcurrent
    BY FS_EmptySet, DispatcherConstants DEF Init
  <2> QED
    BY <2>1, InitCounted DEF PoolInv, Counted, BoundedIsolates
<1>2. OwnershipInv /\ PoolInv /\ [Next]_vars => PoolInv'
  BY NextPool
<1> QED
  BY <1>1, <1>2, OwnershipInductive, PTL DEF Spec

-----------------------------------------------------------------------------
(* isolatePool holds a token for exactly the compilations, the handlers and  *)
(* the drains that getIsolate and its completion callback account for.       *)
THEOREM PoolAccounted == NoDuplicates => (Spec => []PoolAccounting)
<1>1. PoolInv => PoolAccounting
  BY DEF PoolInv
<1> QED
  BY <1>1, PoolInductive, PTL

(* getIsolate never spawns more goroutines than compilations may run at once. *)
THEOREM IsolatesBounded == NoDuplicates => (Spec => []BoundedIsolates)
<1>1. PoolInv => BoundedIsolates
  BY DEF PoolInv
<1> QED
  BY <1>1, PoolInductive, PTL

(* No receive from the pool waits, be it getIsolate's, which holds d.mu, or   *)
(* the one of a completion.                                                   *)
THEOREM ReleasesNeverBlock == NoDuplicates => (Spec => []ReleaseNeverBlocks)
<1>1. OwnershipInv /\ PoolInv => ReleaseNeverBlocks
  <2> SUFFICES ASSUME OwnershipInv, PoolInv PROVE ReleaseNeverBlocks
    OBVIOUS
  <2>1. \A x \in TokenHolders : pool > 0
    BY HolderFindsToken DEF PoolInv, Counted, OwnershipInv, TypeInv, TypeOK
  <2> QED
    BY <2>1 DEF ReleaseNeverBlocks, MuHeld, TokenHolders
<1> QED
  BY <1>1, PoolInductive, PTL

-----------------------------------------------------------------------------
(* Every token comes back                                                   *)

(* The packet of h is for c, and on its way to c's isolate.                 *)
Reaches(h, c) == pc[h] \in HasIsolate /\ found[h] = active[c] /\ pkt[h].cid = c

LEMMA ServedIs ==
    ASSUME NEW c PROVE Served(c) <=> \/ \E h \in Handlers : Reaches(h, c)
                                     \/ iso[active[c]] \in Working
                                     \/ drain[active[c]] \in {"finish", "fatal", "exit"}
BY DEF Served, Reaches, HasIsolate, Working

LEMMA ReaderReturns ==
    ASSUME TypeInv, ReturnInv, ReaderStep PROVE ReturnInv'
<1> USE DEF readerVars, processVars, handlerVars, poolVars, borrowVars, isoVars, drainVars
<1>1. ASSUME NEW g \in Handlers, NEW p \in Packets, ReadPacket(g, p) PROVE ReturnInv'
  <2>1. \A h \in Handlers : pc[h] \in HasIsolate =>
            pc'[h] = pc[h] /\ found'[h] = found[h] /\ pkt'[h] = pkt[h]
    BY <1>1 DEF ReadPacket, TypeInv, TypeOK, HasIsolate
  <2>2. UNCHANGED <<active, iso, drain, closed, shut, reader>>
    BY <1>1 DEF ReadPacket
  <2>3. \A c \in CIDs, h \in Handlers : Reaches(h, c) => Reaches(h, c)'
    BY <2>1, <2>2 DEF Reaches
  <2>4. \A c \in CIDs : Served(c) => Served(c)'
    BY <2>2, <2>3, ServedIs DEF Served, Reaches, HasIsolate
  <2> QED
    BY <2>2, <2>4 DEF ReturnInv, NoTokenStranded
<1>2. CASE ReadEof
  BY <1>2 DEF ReadEof, ReturnInv, NoTokenStranded
<1>3. CASE \/ RangeIsolates \/ (\E i \in Isolates : Kill(i)) \/ WaitHandlers
           \/ ReturnFromRun \/ ReadFails \/ ExitOnReadError
  <2>1. /\ UNCHANGED <<pc, found, pkt, active, iso, drain, closed>>
        /\ reader' \in {"closing", "killing", "returned"} =>
             reader \in {"closing", "killing", "returned"}
        /\ shut' # shut => reader = "killing"
    BY <1>3 DEF RangeIsolates, Kill, WaitHandlers, ReturnFromRun, ReadFails, ExitOnReadError
  <2>2. \A c \in CIDs : Served(c) => Served(c)'
    BY <2>1 DEF Served
  <2> QED
    BY <2>1, <2>2 DEF ReturnInv, NoTokenStranded
<1> QED
  BY <1>1, <1>2, <1>3 DEF ReaderStep

\* a step of one goroutine that leaves the reader, the mailboxes and what is active alone
LEMMA StillServed ==
    ASSUME ReturnInv, UNCHANGED <<closed, shut, reader>>,
           ~closed => \A c \in CIDs : active'[c] # None => Served(c)'
    PROVE  ReturnInv'
BY DEF ReturnInv, NoTokenStranded

LEMMA HandlerReturns ==
    ASSUME OwnershipInv, ReturnInv, NEW h \in Handlers, HandlerStep(h) PROVE ReturnInv'
<1> USE DEF readerVars, processVars, handlerVars, poolVars, borrowVars, isoVars, drainVars
<1> USE DEF Free
<1>1. \A g \in Handlers \ {h} : pc'[g] = pc[g] /\ found'[g] = found[g] /\ pkt'[g] = pkt[g]
  BY DEF HandlerStep, LookUp, AcquireToken, LoseRace, GiveBack, BorrowIsolate, CheckClosed,
     CheckBorrowed, Deliver, PutPanics, AnswerVersion, ReportError, OwnershipInv, TypeInv, TypeOK
<1>2. UNCHANGED <<closed, shut, reader, drain>>
  BY DEF HandlerStep, LookUp, AcquireToken, LoseRace, GiveBack, BorrowIsolate, CheckClosed,
     CheckBorrowed, Deliver, PutPanics, AnswerVersion, ReportError
<1>3. ASSUME active' = active, iso' = iso,
             \A c \in CIDs : active[c] # None /\ Reaches(h, c) => Reaches(h, c)'
      PROVE  ReturnInv'
  <2>1. \A c \in CIDs, g \in Handlers : active[c] # None /\ Reaches(g, c) => Reaches(g, c)'
    BY <1>1, <1>3 DEF Reaches
  <2>2. ASSUME NEW c \in CIDs, ~closed, active'[c] # None PROVE Served(c)'
    <3>1. Served(c)
      BY <1>3, <2>2 DEF ReturnInv, NoTokenStranded
    <3> QED
      BY <1>2, <1>3, <2>1, <2>2, <3>1 DEF Served, Reaches, HasIsolate
  <2> QED
    BY <1>2, <2>2, StillServed
<1>4. CASE LookUp(h) \/ AcquireToken(h) \/ LoseRace(h) \/ AnswerVersion(h) \/ ReportError(h)
  <2>1. UNCHANGED <<active, iso>> /\ pc[h] \notin HasIsolate
    BY <1>4 DEF LookUp, AcquireToken, LoseRace, AnswerVersion, ReportError, HasIsolate
  <2> QED
    BY <1>3, <2>1 DEF Reaches
<1>5. CASE GiveBack(h)
  BY <1>3, <1>5 DEF GiveBack, Reaches, HasIsolate, OwnershipInv, TypeInv, TypeOK
<1>6. ASSUME NEW i \in Isolates, BorrowIsolate(h, i) PROVE ReturnInv'
  <2>1. ~borrowed[i]
    BY <1>6, FreeIsolate DEF BorrowIsolate
  <2>2. PICK cid \in CIDs : cid = pkt[h].cid
    BY <1>6 DEF BorrowIsolate, OwnershipInv, TypeInv, Routed, Routing
  <2>3. /\ pc[h] = "borrow" /\ pc'[h] = "check" /\ found'[h] = i /\ pkt' = pkt
        /\ active' = [active EXCEPT ![cid] = i]
        /\ \A j \in Isolates \ {i} : iso'[j] = iso[j]
    BY <1>6, <2>1, <2>2 DEF BorrowIsolate, Reuse, Spawn, OwnershipInv, TypeInv, TypeOK
  <2>4. ASSUME NEW c \in CIDs, ~closed, active'[c] # None PROVE Served(c)'
    <3>1. CASE c = cid
      <4>1. Reaches(h, c)'
        BY <2>2, <2>3, <3>1 DEF Reaches, HasIsolate, OwnershipInv, TypeInv, TypeOK
      <4> QED
        BY <4>1 DEF Served, Reaches, HasIsolate
    <3>2. CASE c # cid
      <4>1. active'[c] = active[c] /\ active[c] \in Isolates \ {i}
        BY <2>1, <2>3, <2>4, <3>2 DEF OwnershipInv, TypeInv, TypeOK, Owned
      <4>2. Served(c)
        BY <2>4, <4>1 DEF ReturnInv, NoTokenStranded
      <4>3. \A g \in Handlers : Reaches(g, c) => Reaches(g, c)'
        BY <1>1, <2>3, <4>1 DEF Reaches, HasIsolate
      <4> QED
        BY <1>2, <2>3, <4>1, <4>2, <4>3 DEF Served, Reaches, HasIsolate, Working
    <3> QED
      BY <3>1, <3>2
  <2> QED
    BY <1>2, <2>4, StillServed
<1>7. CASE CheckClosed(h)
  <2>1. CASE closed
    BY <1>2, <2>1, StillServed
  <2>2. CASE ~closed
    BY <1>3, <1>7, <2>2 DEF CheckClosed, Reaches, HasIsolate, OwnershipInv, TypeInv, TypeOK
  <2> QED
    BY <2>1, <2>2
<1>8. CASE CheckBorrowed(h)
  <2>1. \A c \in CIDs : active[c] # None => borrowed[active[c]]
    BY DEF OwnershipInv, Owned
  <2> QED
    BY <1>3, <1>8, <2>1 DEF CheckBorrowed, Reaches, HasIsolate, OwnershipInv, TypeInv, TypeOK
<1>9. ASSUME NEW i \in Isolates, Deliver(h, i) PROVE ReturnInv'
  <2>1. /\ found[h] = i /\ active' = active /\ iso'[i] \in Working
        /\ \A j \in Isolates : iso'[j] = iso[j] \/ j = i
    BY <1>9 DEF Deliver, Working, OwnershipInv, TypeInv, TypeOK
  <2>2. ASSUME NEW c \in CIDs, ~closed, active'[c] # None PROVE Served(c)'
    <3>1. Served(c) /\ active[c] \in Isolates
      BY <2>1, <2>2 DEF ReturnInv, NoTokenStranded, OwnershipInv, TypeInv, TypeOK
    <3>2. CASE active[c] = i
      BY <2>1, <3>2 DEF Served, Working
    <3>3. CASE active[c] # i
      <4>1. iso'[active[c]] = iso[active[c]]
        BY <2>1, <3>1, <3>3
      <4>2. \A g \in Handlers : Reaches(g, c) => Reaches(g, c)'
        BY <1>1, <2>1, <3>3 DEF Reaches
      <4> QED
        BY <1>2, <2>1, <3>1, <4>1, <4>2 DEF Served, Reaches, HasIsolate
    <3> QED
      BY <3>2, <3>3
  <2> QED
    BY <1>2, <2>2, StillServed
<1>10. CASE PutPanics(h)
  BY <1>2, <1>10, StillServed DEF PutPanics, ReturnInv
<1> QED
  BY <1>4, <1>5, <1>6, <1>7, <1>8, <1>9, <1>10 DEF HandlerStep

LEMMA IsolateReturns ==
    ASSUME TypeInv, ReturnInv, NEW i \in Isolates, IsolateStep(i) PROVE ReturnInv'
<1> USE DEF readerVars, processVars, handlerVars, poolVars, borrowVars, isoVars, drainVars
<1>1. /\ UNCHANGED <<pc, found, pkt, active, closed, shut, reader>>
      /\ \A j \in Isolates \ {i} : iso'[j] = iso[j] /\ drain'[j] = drain[j]
  BY DEF IsolateStep, CompileEmits, CompileFails, Emit, TakeClosed, AwaitClosed, TypeInv, TypeOK
<1>2. \/ closed
      \/ iso[i] \in Working /\ (iso'[i] \in Working \/ drain'[i] \in {"finish", "fatal"})
  <2>1. CASE (\E kind \in OutKinds : CompileEmits(i, kind)) \/ CompileFails(i) \/ AwaitClosed(i)
    BY <2>1 DEF CompileEmits, CompileFails, AwaitClosed, Working, TypeInv, TypeOK
  <2>2. CASE Emit(i)
    <3>1. iso[i] = "emit" /\ out[i] \in OutKinds
      BY <2>2 DEF Emit, TypeInv, Routed
    <3> QED
      BY <2>2, <3>1 DEF Emit, Working, OutKinds, TypeInv, TypeOK
  <2>3. CASE TakeClosed(i)
    BY <2>3 DEF TakeClosed, ReturnInv
  <2> QED
    BY <2>1, <2>2, <2>3 DEF IsolateStep
<1>3. ASSUME NEW c \in CIDs, ~closed, active'[c] # None PROVE Served(c)'
  <2>1. Served(c) /\ active[c] \in Isolates
    BY <1>1, <1>3 DEF ReturnInv, NoTokenStranded, TypeInv, TypeOK
  <2>2. CASE active[c] = i
    BY <1>1, <1>2, <1>3, <2>2 DEF Served, Working
  <2>3. CASE active[c] # i
    BY <1>1, <2>1, <2>3 DEF Served
  <2> QED
    BY <2>2, <2>3
<1> QED
  BY <1>1, <1>3, StillServed

LEMMA DrainReturns ==
    ASSUME OwnershipInv, ReturnInv, NEW i \in Isolates, DrainStep(i) PROVE ReturnInv'
<1> USE DEF readerVars, processVars, handlerVars, poolVars, borrowVars, isoVars, drainVars
<1> USE DEF Drained
<1>1. /\ UNCHANGED <<pc, found, pkt, iso, closed, shut, reader>>
      /\ \A j \in Isolates \ {i} : drain'[j] = drain[j]
  BY DEF DrainStep, Forward, Finish, ReleaseToken, Respond, WriteFatal, ExitFatal, OwnershipInv,
     TypeInv, TypeOK
<1>2. \A c \in CIDs : active'[c] = active[c] \/ active'[c] = None
  BY DispatcherConstants DEF DrainStep, Forward, Finish, ReleaseToken, Respond, WriteFatal,
     ExitFatal, OwnershipInv, TypeInv, TypeOK
<1>3. ASSUME NEW c \in CIDs, active'[c] = i,
             drain[i] \in {"finish", "fatal", "exit"}
      PROVE  drain'[i] \in {"finish", "fatal", "exit"}
  <2>1. CASE Finish(i)
    <3>1. msg[i].to \in CIDs /\ active[msg[i].to] = i /\ active'[msg[i].to] = None
      BY <2>1 DEF Finish, OwnershipInv, Bound, TypeInv, TypeOK, Routed, Messages
    <3>2. active[c] = i
      BY <1>2, <1>3, DispatcherConstants
    <3>3. c = msg[i].to
      BY <3>1, <3>2, DispatcherConstants DEF OwnershipInv, Owned
    <3> QED
      BY <1>3, <3>1, <3>3, DispatcherConstants
  <2>2. CASE WriteFatal(i) \/ ExitFatal(i)
    BY <1>3, <2>2 DEF WriteFatal, ExitFatal, OwnershipInv, TypeInv, TypeOK
  <2>3. CASE Forward(i) \/ ReleaseToken(i) \/ Respond(i)
    BY <1>3, <2>3 DEF Forward, ReleaseToken, Respond
  <2> QED
    BY <2>1, <2>2, <2>3 DEF DrainStep
<1>4. ASSUME NEW c \in CIDs, ~closed, active'[c] # None PROVE Served(c)'
  <2>1. active'[c] = active[c] /\ active[c] \in Isolates
    BY <1>2, <1>4 DEF OwnershipInv, TypeInv, TypeOK
  <2>2. Served(c)
    BY <1>4, <2>1 DEF ReturnInv, NoTokenStranded
  <2>3. drain[active[c]] \in {"finish", "fatal", "exit"} =>
          drain'[active[c]] \in {"finish", "fatal", "exit"}
    BY <1>1, <1>3, <2>1
  <2> QED
    BY <1>1, <2>1, <2>2, <2>3 DEF Served
<1> QED
  BY <1>1, <1>4, StillServed

(* Until the end of input no token is taken for good: a compilation in       *)
(* activeIsolates always has a packet on its way to its isolate, its isolate *)
(* at work or its drain about to take it off, whoever won the race through   *)
(* getIsolate and whatever the packet says.                                  *)
THEOREM TokensComeBack == NoDuplicates => (Spec => []NoTokenStranded)
<1> SUFFICES ASSUME NoDuplicates PROVE Spec => []NoTokenStranded
  OBVIOUS
<1>1. Init => ReturnInv
  BY DEF Init, ReturnInv, NoTokenStranded
<1>2. OwnershipInv /\ ReturnInv /\ [Next]_vars => ReturnInv'
  <2> SUFFICES ASSUME OwnershipInv, ReturnInv, [Next]_vars PROVE ReturnInv'
    OBVIOUS
  <2>1. CASE UNCHANGED vars
    BY <2>1 DEF vars, readerVars, handlerVars, poolVars, isoVars, drainVars, ReturnInv,
       NoTokenStranded, Served
  <2>2. CASE Next
    BY <2>1, <2>2, ReaderReturns, HandlerReturns, IsolateReturns, DrainReturns
       DEF Next, Ended, OwnershipInv
  <2> QED
    BY <2>1, <2>2
<1>3. ReturnInv => NoTokenStranded
  BY DEF ReturnInv
<1> QED
  BY <1>1, <1>2, <1>3, OwnershipInductive, PTL DEF Spec
=============================================================================
