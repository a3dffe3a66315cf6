---------------------------- MODULE ServiceProofs ----------------------------
(***************************************************************************)
(* The conversation with the host, for every number of compilations,       *)
(* isolates and handlers and every cap.                                    *)
(*                                                                         *)
(* With a host that may send what nobody accepts, and may close stdin at   *)
(* any point: the packets that belong to a compilation reach the isolate   *)
(* that waits for them, and what the drains write is what the host waits   *)
(* for.                                                                    *)
(*                                                                         *)
(* With a host that keeps to the protocol and closes stdin only when       *)
(* nothing is in flight: every step of the dispatcher is one of            *)
(* CompileService or none.                                                 *)
(***************************************************************************)
EXTENDS IsolateDispatcherProofs

(* The host sends no second compile request for a compilation in flight and *)
(* no answer it was not asked for.                                          *)
InTurn == HostSends \cap {"duplicate", "stray"} = {}

-----------------------------------------------------------------------------
(* A host that answers in turn                                              *)

LEMMA InTurnIsDistinct == InTurn => NoDuplicates
BY DEF InTurn, NoDuplicates

LEMMA RunningIs ==
    ASSUME OwnershipInv, NEW i \in Isolates, NEW c \in CIDs, Runs(i, c)
    PROVE  /\ active[c] = i /\ onData[i] = c /\ borrowed[i] /\ i # None
           /\ host[c] # "idle" /\ isoCid[i] = c
           /\ \A h \in Handlers : ~Carries(h, c)
           /\ \A j \in Isolates : ~Completes(j, c) /\ (Runs(j, c) => j = i)
<1>1. active[c] = i /\ i # None /\ isoCid[i] = c
  BY DispatcherConstants DEF OwnershipInv, Bound, Runs
<1>2. borrowed[i] /\ onData[i] = c
  BY <1>1 DEF OwnershipInv, Owned
<1>3. /\ host[c] # "idle"
      /\ \A j \in Isolates : ~Completes(j, c) /\ (Runs(j, c) => j = i)
  BY DEF OwnershipInv, OneThread
<1>4. \A h \in Handlers : ~Carries(h, c)
  BY DEF OwnershipInv, OneThread
<1> QED
  BY <1>1, <1>2, <1>3, <1>4

(* An isolate serves one compilation.                                       *)
LEMMA OneServed ==
    ASSUME OwnershipInv, NEW c \in CIDs, NEW d \in CIDs, NEW i \in Isolates,
           active[c] = i, active[d] = i
    PROVE  c = d
BY DispatcherConstants DEF OwnershipInv, Owned

(* What the message of a drain that is at work names.                       *)
LEMMA MessageNames ==
    ASSUME OwnershipInv, NEW i \in Isolates, drain[i] # "idle"
    PROVE  msg[i].cid \in CIDs /\ msg[i].to \in CIDs
BY DEF OwnershipInv, TypeInv, Routed, Messages

LEMMA InitTalk == Init => TalkInv
<1> SUFFICES ASSUME Init PROVE TalkInv
  OBVIOUS
<1>1. Heard
  BY DEF Init, Heard, Carries, Answers, Routing
<1>2. Spoken
  BY DEF Init, Spoken, Runs
<1>3. Ending
  BY DEF Init, Ending
<1> QED
  BY <1>1, <1>2, <1>3 DEF TalkInv

(* What a step keeps that moves handlers only, or the end of input.         *)
LEMMA WaitsKept ==
    ASSUME UNCHANGED <<active, iso, isoCid, out, drain>>
    PROVE  \A i, c : Waits(i, c)' <=> Waits(i, c)
BY DEF Waits, Doomed, Failed

LEMMA SpokenKept ==
    ASSUME Spoken, UNCHANGED <<active, iso, isoCid, out, drain, msg, host>>, shut \subseteq shut',
           \A h \in Handlers, c \in CIDs : Carries(h, c)' => Carries(h, c),
           OwnershipInv
    PROVE  Spoken'
<1>1. ASSUME NEW i \in Isolates, NEW c \in CIDs, Runs(i, c)'
      PROVE  \/ host'[c] = "compiling"
             \/ host'[c] = "asked" /\ (iso'[i] = "await" \/ GivesUp(i)')
  <2>1. Runs(i, c)
    BY <1>1 DEF Runs
  <2> QED
    BY <2>1 DEF Spoken, GivesUp
<1>2. ASSUME NEW i \in Isolates, drain'[i] = "forward"
      PROVE  /\ msg'[i].to = msg'[i].cid /\ host'[msg'[i].cid] = "compiling"
             /\ active'[msg'[i].cid] = i /\ isoCid'[i] = msg'[i].cid /\ iso'[i] \in Working
             /\ msg'[i].kind = "request" => iso'[i] = "await" \/ Failed(i)' \/ GivesUp(i)'
             /\ \A h \in Handlers : ~Carries(h, msg[i].cid)'
             /\ \A j \in Isolates : ~Completes(j, msg[i].cid)'
  <2>1. drain[i] = "forward" /\ msg[i].cid \in CIDs
    BY <1>2, MessageNames
  <2>2. Failed(i)' <=> Failed(i)
    BY DEF Failed
  <2>3. GivesUp(i) => GivesUp(i)'
    BY DEF GivesUp
  <2>4. \A j \in Isolates : ~Completes(j, msg[i].cid)'
    BY <2>1 DEF Spoken, Completes
  <2>5. \A h \in Handlers : ~Carries(h, msg[i].cid)'
    BY <2>1 DEF Spoken
  <2> QED
    BY <2>1, <2>2, <2>3, <2>4, <2>5 DEF Spoken
<1>3. ASSUME NEW i \in Isolates, drain'[i] \in {"finish", "release", "respond"}
      PROVE  /\ msg'[i].to = msg'[i].cid
             /\ \/ host'[msg'[i].cid] = "compiling"
                \/ host'[msg'[i].cid] = "asked" /\ msg'[i].kind = "response" /\ i \in shut'
  BY <1>3 DEF Spoken
<1>4. msg' = msg
  OBVIOUS
<1> QED
  BY <1>1, <1>2, <1>3, <1>4 DEF Spoken

LEMMA MeetsKept ==
    ASSUME NEW h \in Handlers, NEW i, NEW c \in CIDs, Meets(h, i, c),
           UNCHANGED <<active, iso, isoCid, out, drain, host>>,
           \A g \in Handlers : Answers(g, c)' => Answers(g, c)
    PROVE  Meets(h, i, c)'
<1>1. Waits(i, c)' /\ (Doomed(i)' <=> Doomed(i))
  BY DEF Meets, Waits, Doomed, Failed
<1> QED
  BY <1>1 DEF Meets

(* A packet is read: an answer in turn finds its isolate waiting.           *)
LEMMA ReadTalk ==
    ASSUME InTurn, OwnershipInv, TalkInv, NEW h \in Handlers, NEW p \in Packets, ReadPacket(h, p)
    PROVE  TalkInv'
<1> USE DEF readerVars, processVars, handlerVars, poolVars, borrowVars, isoVars, drainVars
<1>1. /\ reader = "reading" /\ pc[h] = "idle"
      /\ pkt' = [pkt EXCEPT ![h] = p]
      /\ pc' = [pc EXCEPT ![h] = CASE p.kind = "malformed" -> "error"
                                   [] p.kind = "version"   -> "version"
                                   [] OTHER                -> "lookup"]
      /\ host' = IF Expected(p) THEN [host EXCEPT ![p.cid] = "compiling"] ELSE host
      /\ UNCHANGED <<reader, closed, found, active, spawned, shut, iso, isoCid, out, drain, msg>>
  BY DEF ReadPacket
<1>2. closed = FALSE /\ shut = {}
  BY <1>1 DEF TalkInv, Ending, OwnershipInv, TypeInv, TypeOK
<1>3. \/ p.kind \in {"version", "malformed", "bad"}
      \/ p.kind = "compile" /\ p.cid \in CIDs /\ host[p.cid] = "idle"
      \/ p.kind = "answer" /\ p.cid \in CIDs /\ host[p.cid] = "asked"
  BY DEF ReadPacket, HostPackets, MaySend, InTurn, Packets
<1>4. ASSUME NEW g \in Handlers, g # h
      PROVE  /\ pc'[g] = pc[g] /\ pkt'[g] = pkt[g]
             /\ \A c \in CIDs : /\ Carries(g, c)' <=> Carries(g, c)
                                /\ Answers(g, c)' <=> Answers(g, c)
  BY <1>1, <1>4 DEF OwnershipInv, TypeInv, TypeOK, Carries, Answers
<1>5. /\ pkt'[h] = p /\ pc'[h] \notin HasIsolate
      /\ \A c \in CIDs : /\ Carries(h, c)' <=> p.kind = "compile" /\ p.cid = c
                         /\ Answers(h, c)' <=> p.kind = "answer" /\ p.cid = c
  BY <1>1, <1>3 DEF OwnershipInv, TypeInv, TypeOK, Carries, Answers, Routing, HasIsolate
<1>6. /\ \A i, c : Waits(i, c)' <=> Waits(i, c)
      /\ \A i : Doomed(i)' <=> Doomed(i)
      /\ \A i \in Isolates, c \in CIDs : Runs(i, c)' <=> Runs(i, c)
      /\ \A i \in Isolates : /\ Failed(i)' <=> Failed(i)
                             /\ GivesUp(i)' <=> GivesUp(i)
      /\ active' = active /\ found' = found
  BY <1>1 DEF Waits, Doomed, Runs, Failed, GivesUp
<1>7. /\ p.kind \notin {"compile", "answer"} => host' = host
      /\ \A c \in CIDs : \/ host'[c] = host[c]
                         \/ /\ host'[c] = "compiling" /\ c = p.cid /\ host[c] # "compiling"
                            /\ p.kind = "answer" <=> host[c] = "asked"
      /\ p.kind \in {"compile", "answer"} => host'[p.cid] = "compiling"
  <2>1. p.kind \notin {"compile", "answer"} => host' = host
    BY <1>1 DEF Expected
  <2>2. ASSUME p.kind \in {"compile", "answer"}
        PROVE  p.cid \in CIDs /\ host' = [host EXCEPT ![p.cid] = "compiling"]
    BY <1>1, <1>3, <2>2 DEF Expected
  <2> QED
    BY <1>3, <2>1, <2>2 DEF OwnershipInv, TypeInv, TypeOK
<1>8. Heard'
  <2>1. ASSUME NEW g \in Handlers, NEW c \in CIDs, Carries(g, c)' PROVE host'[c] = "compiling"
    BY <1>4, <1>5, <1>7, <2>1 DEF TalkInv, Heard
  <2>2. ASSUME NEW g \in Handlers, NEW c \in CIDs, Answers(g, c)'
        PROVE  /\ pc'[g] \in {"send", "put"} => found'[g] \in shut' \/ Meets(g, found[g], c)'
               /\ Meets(g, active[c], c)'
               /\ pc'[g] \in HasIsolate => found'[g] = active'[c]
    <3>1. CASE g = h
      <4>1. p.kind = "answer" /\ p.cid = c /\ host[c] = "asked" /\ pc'[g] \notin HasIsolate
        BY <1>3, <1>5, <2>2, <3>1
      <4>2. Waits(active[c], c) /\ host'[c] = "compiling"
        BY <1>2, <1>7, <4>1 DEF TalkInv, Heard
      <4>3. ASSUME ~Doomed(active[c]), NEW f \in Handlers, f # h PROVE ~Answers(f, c)'
        <5>1. Answers(f, c) => host[c] = "compiling"
          BY <1>2, <4>3 DEF TalkInv, Heard, Meets
        <5> QED
          BY <1>4, <4>1, <4>3, <5>1
      <4>4. Meets(g, active[c], c)'
        <5>1. active' = active
          BY <1>1
        <5> QED
          BY <1>6, <3>1, <4>2, <4>3, <5>1 DEF Meets
      <4> QED
        BY <4>1, <4>4 DEF HasIsolate
    <3>2. CASE g # h
      <4>1. Answers(g, c) /\ pc'[g] = pc[g] /\ found' = found /\ shut' = shut /\ active' = active
        BY <1>1, <1>4, <2>2, <3>2
      <4>2. /\ pc[g] \in {"send", "put"} => found[g] \in shut \/ Meets(g, found[g], c)
            /\ Meets(g, active[c], c)
            /\ pc[g] \in HasIsolate => found[g] = active[c]
        BY <1>2, <4>1 DEF TalkInv, Heard
      <4>3. Meets(g, active[c], c)'
        <5>1. CASE Doomed(active[c])
          BY <1>6, <4>1, <4>2, <5>1 DEF Meets
        <5>2. CASE ~Doomed(active[c])
          <6>1. host[c] = "compiling" /\ \A f \in Handlers : Answers(f, c) => f = g
            BY <4>2, <5>2 DEF Meets
          <6>2. ~Answers(h, c)'
            BY <1>3, <1>5, <6>1
          <6>3. host'[c] = "compiling"
            BY <1>7, <6>1
          <6>4. \A f \in Handlers : Answers(f, c)' => f = g
            BY <1>4, <6>1, <6>2
          <6> QED
            BY <1>6, <4>1, <4>2, <6>3, <6>4 DEF Meets
        <5> QED
          BY <5>1, <5>2
      <4> QED
        BY <1>2, <4>1, <4>2, <4>3 DEF HasIsolate
    <3> QED
      BY <3>1, <3>2
  <2>3. ASSUME NEW c \in CIDs, host'[c] = "asked" PROVE Waits(active[c], c)'
    BY <1>2, <1>6, <1>7, <2>3 DEF TalkInv, Heard
  <2>4. active' = active
    BY <1>1
  <2> QED
    BY <2>1, <2>2, <2>3, <2>4 DEF Heard
<1>9. Spoken'
  <2>1. ASSUME NEW i \in Isolates, NEW c \in CIDs, Runs(i, c)'
        PROVE  \/ host'[c] = "compiling"
               \/ host'[c] = "asked" /\ (iso'[i] = "await" \/ GivesUp(i)')
    BY <1>1, <1>6, <1>7, <2>1 DEF TalkInv, Spoken
  <2>2. ASSUME NEW i \in Isolates, drain'[i] = "forward"
        PROVE  /\ msg'[i].to = msg'[i].cid /\ host'[msg'[i].cid] = "compiling"
               /\ active'[msg'[i].cid] = i /\ isoCid'[i] = msg'[i].cid /\ iso'[i] \in Working
               /\ msg'[i].kind = "request" => iso'[i] = "await" \/ Failed(i)' \/ GivesUp(i)'
               /\ \A g \in Handlers : ~Carries(g, msg[i].cid)'
               /\ \A j \in Isolates : ~Completes(j, msg[i].cid)'
    <3>1. drain[i] = "forward" /\ msg' = msg /\ msg[i].cid \in CIDs
      BY <1>1, <2>2, MessageNames
    <3>2. \A j \in Isolates : ~Completes(j, msg[i].cid)'
      BY <1>1, <3>1 DEF TalkInv, Spoken, Completes
    <3>3. host[msg[i].cid] = "compiling" /\ \A g \in Handlers : ~Carries(g, msg[i].cid)
      BY <3>1 DEF TalkInv, Spoken
    <3>4. \A g \in Handlers : ~Carries(g, msg[i].cid)'
      BY <1>3, <1>4, <1>5, <3>1, <3>3
    <3> QED
      BY <1>1, <1>6, <1>7, <3>1, <3>2, <3>3, <3>4 DEF TalkInv, Spoken
  <2>3. ASSUME NEW i \in Isolates, drain'[i] \in {"finish", "release", "respond"}
        PROVE  /\ msg'[i].to = msg'[i].cid
               /\ \/ host'[msg'[i].cid] = "compiling"
                  \/ host'[msg'[i].cid] = "asked" /\ msg'[i].kind = "response" /\ i \in shut'
    <3>1. msg[i].cid \in CIDs /\ msg' = msg /\ drain[i] = drain'[i] /\ shut' = shut
      BY <1>1, <2>3, MessageNames
    <3> QED
      BY <1>7, <2>3, <3>1 DEF TalkInv, Spoken
  <2>4. msg' = msg
    BY <1>1
  <2> QED
    BY <2>1, <2>2, <2>3, <2>4 DEF Spoken
<1>10. Ending'
  BY <1>1 DEF TalkInv, Ending
<1> QED
  BY <1>8, <1>9, <1>10 DEF TalkInv

LEMMA ReaderTalk ==
    ASSUME InTurn, OwnershipInv, TalkInv, ReaderStep PROVE TalkInv'
<1> USE DEF readerVars, processVars, handlerVars, poolVars, borrowVars, isoVars, drainVars
<1>1. CASE \E h \in Handlers, p \in Packets : ReadPacket(h, p)
  BY <1>1, ReadTalk
<1>2. CASE \/ ReadEof \/ RangeIsolates \/ (\E i \in Isolates : Kill(i)) \/ WaitHandlers
           \/ ReturnFromRun \/ ReadFails \/ ExitOnReadError
  <2>1. /\ UNCHANGED <<pc, pkt, found, active, spawned, iso, isoCid, out, drain, msg, host>>
        /\ shut \subseteq shut'
        /\ closed' = closed \/ closed' = TRUE
    BY <1>2 DEF ReadEof, RangeIsolates, Kill, WaitHandlers, ReturnFromRun, ReadFails,
       ExitOnReadError
  <2>2. \A h \in Handlers, c \in CIDs : /\ Carries(h, c)' <=> Carries(h, c)
                                        /\ Answers(h, c)' <=> Answers(h, c)
    BY <2>1 DEF Carries, Answers
  <2>3. Heard'
    <3>1. \A c \in CIDs : host'[c] = "asked" /\ ~closed' => Waits(active[c], c)'
      <4>1. \A i, c : Waits(i, c)' <=> Waits(i, c)
        BY <2>1, WaitsKept
      <4>2. active' = active /\ host' = host /\ (closed' = closed \/ closed' = TRUE)
        BY <2>1
      <4> QED
        BY <4>1, <4>2 DEF TalkInv, Heard
    <3>2. \A h \in Handlers, c \in CIDs : \A i : Meets(h, i, c) => Meets(h, i, c)'
      BY <2>1, <2>2, MeetsKept
    <3>3. \A h \in Handlers, c \in CIDs : Carries(h, c)' => host'[c] = "compiling"
      BY <2>1, <2>2 DEF TalkInv, Heard
    <3>4. ASSUME NEW h \in Handlers, NEW c \in CIDs, Answers(h, c)'
          PROVE  /\ pc'[h] \in {"send", "put"} => found'[h] \in shut' \/ Meets(h, found[h], c)'
                 /\ ~closed' => /\ Meets(h, active[c], c)'
                                /\ pc'[h] \in HasIsolate => found'[h] = active'[c]
      <4>1. Answers(h, c)
        BY <2>2, <3>4
      <4>2. UNCHANGED <<pc, found, active>>
        BY <2>1
      <4>3. /\ pc[h] \in {"send", "put"} => found[h] \in shut \/ Meets(h, found[h], c)
            /\ ~closed => Meets(h, active[c], c) /\ (pc[h] \in HasIsolate => found[h] = active[c])
        BY <4>1 DEF TalkInv, Heard
      <4>4. /\ Meets(h, found[h], c) => Meets(h, found[h], c)'
            /\ Meets(h, active[c], c) => Meets(h, active[c], c)'
        BY <3>2, <4>2
      <4> QED
        BY <2>1, <4>2, <4>3, <4>4
    <3>5. active' = active
      BY <2>1
    <3> QED
      BY <3>1, <3>3, <3>4, <3>5 DEF Heard
  <2>4. Spoken'
    <3>1. Spoken /\ shut \subseteq shut'
      BY <2>1 DEF TalkInv
    <3>2. \A h \in Handlers, c \in CIDs : Carries(h, c)' => Carries(h, c)
      BY <2>2
    <3>3. UNCHANGED <<active, iso, isoCid, out, drain, msg, host>>
      BY <2>1
    <3> QED
      BY <3>1, <3>2, <3>3, SpokenKept
  <2>5. Ending'
    BY <1>2, <2>1 DEF ReadEof, RangeIsolates, Kill, WaitHandlers, ReturnFromRun, ReadFails,
       ExitOnReadError, TalkInv, Ending, OwnershipInv, TypeInv, TypeOK
  <2> QED
    BY <2>3, <2>4, <2>5 DEF TalkInv
<1> QED
  BY <1>1, <1>2 DEF ReaderStep

(* A step of a handler that leaves the pool and the mailboxes alone: no     *)
(* packet comes near a mailbox but past the look at closed.                 *)
LEMMA HandlerGoes ==
    ASSUME OwnershipInv, TalkInv, NEW h \in Handlers,
           pc' = [pc EXCEPT ![h] = pc'[h]],
           pkt' = [pkt EXCEPT ![h] = pkt'[h]],
           found' = [found EXCEPT ![h] = found'[h]],
           pc'[h] \in Routing => pc[h] \in Routing /\ pkt'[h] = pkt[h],
           pc'[h] \in HasIsolate => \/ found'[h] = active[pkt[h].cid]
                                    \/ pc[h] \in HasIsolate /\ found'[h] = found[h],
           pc'[h] \in {"send", "put"} =>
              /\ found'[h] = found[h]
              /\ pc[h] \in {"send", "put"} \/ (pc[h] \in HasIsolate /\ ~closed),
           UNCHANGED <<reader, closed, active, spawned, shut, iso, isoCid, out, drain, msg, host>>
    PROVE  TalkInv'
<1>1. \A g \in Handlers : g # h => pc'[g] = pc[g] /\ pkt'[g] = pkt[g] /\ found'[g] = found[g]
  BY DEF OwnershipInv, TypeInv, TypeOK
<1>2. /\ \A g \in Handlers, c \in CIDs : Carries(g, c)' => Carries(g, c)
      /\ \A g \in Handlers, c \in CIDs : Answers(g, c)' => Answers(g, c)
  BY <1>1 DEF Carries, Answers
<1>3. \A g \in Handlers, c \in CIDs : \A i : Meets(g, i, c) => Meets(g, i, c)'
  BY <1>2, MeetsKept
<1>4. \A i, c : Waits(i, c)' <=> Waits(i, c)
  BY WaitsKept
<1>5. Heard'
  <2>1. ASSUME NEW g \in Handlers, NEW c \in CIDs, Answers(g, c)'
        PROVE  /\ pc'[g] \in {"send", "put"} => found'[g] \in shut' \/ Meets(g, found[g], c)'
               /\ ~closed' => /\ Meets(g, active[c], c)'
                              /\ pc'[g] \in HasIsolate => found'[g] = active'[c]
    <3>1. Answers(g, c) /\ pkt[g].cid = c
      BY <1>2, <2>1 DEF Answers
    <3>2. /\ pc[g] \in {"send", "put"} => found[g] \in shut \/ Meets(g, found[g], c)
          /\ ~closed => Meets(g, active[c], c) /\ (pc[g] \in HasIsolate => found[g] = active[c])
      BY <3>1 DEF TalkInv, Heard
    <3>3. Meets(g, active[c], c) => Meets(g, active[c], c)'
      <4>1. active' = active
        OBVIOUS
      <4> QED
        BY <1>3, <4>1
    <3>4. ~closed' => (pc'[g] \in HasIsolate => found'[g] = active'[c])
      BY <1>1, <3>1, <3>2
    <3>5. ASSUME pc'[g] \in {"send", "put"} PROVE found'[g] \in shut' \/ Meets(g, found[g], c)'
      <4>1. found'[g] = found[g]
        BY <1>1, <3>5
      <4>2. found[g] \in shut \/ Meets(g, found[g], c)
        BY <1>1, <3>2, <3>5
      <4>3. Meets(g, found[g], c) => Meets(g, found[g], c)'
        BY <1>3, <4>1
      <4> QED
        BY <4>1, <4>2, <4>3
    <3>6. closed' = closed
      OBVIOUS
    <3> QED
      BY <3>2, <3>3, <3>4, <3>5, <3>6
  <2>2. \A g \in Handlers, c \in CIDs : Carries(g, c)' => host'[c] = "compiling"
    BY <1>2 DEF TalkInv, Heard
  <2>3. \A c \in CIDs : host'[c] = "asked" /\ ~closed' => Waits(active[c], c)'
    BY <1>4 DEF TalkInv, Heard
  <2> QED
    BY <2>1, <2>2, <2>3 DEF Heard
<1>6. Spoken'
  BY <1>2, SpokenKept DEF TalkInv
<1>7. Ending'
  BY DEF TalkInv, Ending
<1> QED
  BY <1>5, <1>6, <1>7 DEF TalkInv

(* getIsolate binds an isolate nobody waits for.                            *)
LEMMA BorrowTalk ==
    ASSUME OwnershipInv, TalkInv, NEW h \in Handlers, NEW i \in Isolates, BorrowIsolate(h, i)
    PROVE  TalkInv'
<1> USE DEF readerVars, processVars, handlerVars, poolVars, borrowVars, isoVars, drainVars
<1> DEFINE cid == pkt[h].cid
<1>1. ~borrowed[i]
  BY FreeIsolate DEF BorrowIsolate
<1>2. /\ pc[h] = "borrow" /\ active[cid] = None
      /\ pc' = [pc EXCEPT ![h] = "check"]
      /\ active' = [active EXCEPT ![cid] = i]
      /\ found' = [found EXCEPT ![h] = i]
      /\ UNCHANGED <<reader, closed, pkt, shut, isoCid, out, drain, msg, host>>
  BY <1>1 DEF BorrowIsolate
<1>3. pc[h] \in Routing /\ cid \in CIDs
  BY <1>2 DEF Routing, OwnershipInv, TypeInv, Routed
<1>4. /\ \A c \in CIDs : active'[c] = IF c = cid THEN i ELSE active[c]
      /\ i # None /\ \A c \in CIDs : active[c] # i
  <2>1. \A c \in CIDs : active'[c] = IF c = cid THEN i ELSE active[c]
    BY <1>2, <1>3 DEF OwnershipInv, TypeInv, TypeOK
  <2> QED
    BY <1>1, <2>1, DispatcherConstants DEF OwnershipInv, Owned
<1>5. \A c \in CIDs : ~Runs(i, c)
  BY <1>4, RunningIs
<1>6. /\ \A j \in Isolates : j # i => iso'[j] = iso[j]
      /\ iso'[i] = iso[i] \/ iso'[i] = "take"
      /\ \A j \in spawned' : j \in spawned \/ (j = i /\ iso'[i] = "take")
  <2>1. CASE Reuse(i)
    BY <2>1 DEF Reuse
  <2>2. CASE Spawn(i)
    BY <2>2 DEF Spawn, OwnershipInv, TypeInv, TypeOK
  <2> QED
    BY <2>1, <2>2 DEF BorrowIsolate
<1>7. /\ \A g \in Handlers, c \in CIDs : /\ Carries(g, c)' => Carries(g, c)
                                         /\ Answers(g, c)' => Answers(g, c)
      /\ \A g \in Handlers : g # h => pc'[g] = pc[g] /\ found'[g] = found[g]
      /\ pc'[h] = "check"
  <2>1. \A g \in Handlers : g # h => pc'[g] = pc[g] /\ found'[g] = found[g]
    BY <1>2 DEF OwnershipInv, TypeInv, TypeOK
  <2>2. pc'[h] = "check"
    BY <1>2 DEF OwnershipInv, TypeInv, TypeOK
  <2> QED
    BY <1>2, <1>3, <2>1, <2>2 DEF Carries, Answers
<1>8. ASSUME NEW j, NEW c \in CIDs, Waits(j, c)
      PROVE  /\ Waits(j, c)' /\ c # cid /\ active'[c] = active[c]
             /\ Doomed(j)' <=> Doomed(j)
  <2>1. j \in Isolates /\ active[c] = j /\ j # i /\ c # cid
    BY <1>2, <1>4, <1>8, DispatcherConstants DEF Waits
  <2>2. Doomed(j)' <=> Doomed(j)
    BY <1>2, <1>6, <2>1 DEF Doomed, Failed
  <2> QED
    BY <1>2, <1>4, <1>6, <1>8, <2>1, <2>2 DEF Waits
<1>9. ASSUME NEW g \in Handlers, NEW c \in CIDs, NEW j, Meets(g, j, c)
      PROVE  Meets(g, j, c)' /\ active'[c] = active[c] /\ c # cid
  <2>1. Waits(j, c)' /\ c # cid /\ active'[c] = active[c] /\ (Doomed(j)' <=> Doomed(j))
    BY <1>8, <1>9 DEF Meets
  <2>2. host' = host
    BY <1>2
  <2> QED
    BY <1>7, <1>9, <2>1, <2>2 DEF Meets
<1>10. Heard'
  <2>1. ASSUME NEW g \in Handlers, NEW c \in CIDs, Answers(g, c)'
        PROVE  /\ pc'[g] \in {"send", "put"} => found'[g] \in shut' \/ Meets(g, found[g], c)'
               /\ ~closed' => /\ Meets(g, active[c], c)'
                              /\ pc'[g] \in HasIsolate => found'[g] = active'[c]
    <3>1. Answers(g, c) /\ pkt[g].cid = c
      BY <1>7, <2>1 DEF Answers
    <3>2. /\ pc[g] \in {"send", "put"} => found[g] \in shut \/ Meets(g, found[g], c)
          /\ ~closed => Meets(g, active[c], c) /\ (pc[g] \in HasIsolate => found[g] = active[c])
      BY <3>1 DEF TalkInv, Heard
    <3>3. pc'[g] \in {"send", "put"} => found'[g] \in shut' \/ Meets(g, found[g], c)'
      <4>1. ASSUME pc'[g] \in {"send", "put"}
            PROVE  pc[g] \in {"send", "put"} /\ found'[g] = found[g] /\ shut' = shut
        BY <1>2, <1>7, <4>1
      <4>2. \A j : Meets(g, j, c) => Meets(g, j, c)'
        BY <1>9
      <4> QED
        BY <3>2, <4>1, <4>2
    <3>4. ASSUME ~closed'
          PROVE  Meets(g, active[c], c)' /\ (pc'[g] \in HasIsolate => found'[g] = active'[c])
      <4>1. Meets(g, active[c], c) /\ (pc[g] \in HasIsolate => found[g] = active[c])
        BY <1>2, <3>2, <3>4
      <4>2. /\ active'[c] = active[c] /\ c # cid
            /\ \A j : Meets(g, j, c) => Meets(g, j, c)'
        BY <1>9, <4>1
      <4>3. g # h
        BY <3>1, <4>2
      <4> QED
        BY <1>7, <4>1, <4>2, <4>3
    <3> QED
      BY <3>3, <3>4
  <2>2. \A g \in Handlers, c \in CIDs : Carries(g, c)' => host'[c] = "compiling"
    BY <1>2, <1>7 DEF TalkInv, Heard
  <2>3. ASSUME NEW c \in CIDs, host'[c] = "asked", ~closed' PROVE Waits(active[c], c)'
    <3>1. Waits(active[c], c)
      BY <1>2, <2>3 DEF TalkInv, Heard
    <3>2. active'[c] = active[c] /\ \A j : Waits(j, c) => Waits(j, c)'
      BY <1>8, <3>1
    <3> QED
      BY <3>1, <3>2
  <2> QED
    BY <2>1, <2>2, <2>3 DEF Heard
<1>11. Spoken'
  <2>1. ASSUME NEW j \in Isolates, NEW c \in CIDs, Runs(j, c)'
        PROVE  \/ host'[c] = "compiling"
               \/ host'[c] = "asked" /\ (iso'[j] = "await" \/ GivesUp(j)')
    <3>1. Runs(j, c) /\ j # i /\ iso'[j] = iso[j]
      BY <1>2, <1>5, <1>6, <2>1 DEF Runs
    <3> QED
      BY <1>2, <3>1 DEF TalkInv, Spoken, GivesUp
  <2>2. ASSUME NEW j \in Isolates, drain'[j] = "forward"
        PROVE  /\ msg'[j].to = msg'[j].cid /\ host'[msg'[j].cid] = "compiling"
               /\ active'[msg'[j].cid] = j /\ isoCid'[j] = msg'[j].cid /\ iso'[j] \in Working
               /\ msg'[j].kind = "request" => iso'[j] = "await" \/ Failed(j)' \/ GivesUp(j)'
               /\ \A g \in Handlers : ~Carries(g, msg[j].cid)'
               /\ \A k \in Isolates : ~Completes(k, msg[j].cid)'
    <3>1. drain[j] = "forward" /\ msg' = msg /\ msg[j].cid \in CIDs
      BY <1>2, <2>2, MessageNames
    <3>2. active[msg[j].cid] = j /\ j # i
      BY <1>4, <3>1 DEF TalkInv, Spoken
    <3>3. msg[j].cid # cid /\ iso'[j] = iso[j]
      BY <1>2, <1>6, <3>2, DispatcherConstants
    <3>4. (Failed(j)' <=> Failed(j)) /\ (GivesUp(j)' <=> GivesUp(j))
      BY <1>2, <3>3 DEF Failed, GivesUp
    <3>5. \A k \in Isolates : ~Completes(k, msg[j].cid)'
      BY <1>2, <3>1 DEF TalkInv, Spoken, Completes
    <3>6. \A g \in Handlers : ~Carries(g, msg[j].cid)'
      BY <1>7, <3>1 DEF TalkInv, Spoken
    <3> QED
      BY <1>2, <1>4, <3>1, <3>2, <3>3, <3>4, <3>5, <3>6 DEF TalkInv, Spoken
  <2>3. ASSUME NEW j \in Isolates, drain'[j] \in {"finish", "release", "respond"}
        PROVE  /\ msg'[j].to = msg'[j].cid
               /\ \/ host'[msg'[j].cid] = "compiling"
                  \/ host'[msg'[j].cid] = "asked" /\ msg'[j].kind = "response" /\ j \in shut'
    BY <1>2, <2>3 DEF TalkInv, Spoken
  <2>4. msg' = msg
    BY <1>2
  <2> QED
    BY <2>1, <2>2, <2>3, <2>4 DEF Spoken
<1>12. Ending'
  BY <1>2, <1>6 DEF TalkInv, Ending, OwnershipInv, TypeInv, TypeOK
<1> QED
  BY <1>10, <1>11, <1>12 DEF TalkInv

(* Put and Take meet.                                                       *)
LEMMA DeliverTalk ==
    ASSUME OwnershipInv, TalkInv, NEW h \in Handlers, NEW i \in Isolates, Deliver(h, i)
    PROVE  TalkInv'
<1> USE DEF readerVars, processVars, handlerVars, poolVars, borrowVars, isoVars, drainVars
<1> DEFINE cid == pkt[h].cid
           kind == pkt[h].kind
<1>1. /\ pc[h] = "put" /\ i = found[h] /\ i \notin shut
      /\ pc' = [pc EXCEPT ![h] = "idle"]
      /\ pkt' = [pkt EXCEPT ![h] = NoPacket]
      /\ found' = [found EXCEPT ![h] = None]
      /\ UNCHANGED <<reader, closed, active, spawned, shut, out, drain, msg, host>>
  BY DEF Deliver, Free
<1>2. pc[h] \in Routing /\ pc[h] \in HasIsolate /\ cid \in CIDs
  BY <1>1 DEF Routing, HasIsolate, OwnershipInv, TypeInv, Routed
<1>3. /\ kind = "compile" => Carries(h, cid)
      /\ kind = "answer"  => Answers(h, cid)
  BY <1>2 DEF Carries, Answers
<1>4. /\ \A j \in Isolates : j # i => iso'[j] = iso[j] /\ isoCid'[j] = isoCid[j]
      /\ \/ /\ iso[i] = "take" /\ isoCid'[i] = cid
            /\ iso'[i] = IF kind = "compile" THEN "run" ELSE "fail"
         \/ /\ iso[i] = "await" /\ isoCid'[i] = isoCid[i]
            /\ iso'[i] = IF kind = "answer" THEN "run" ELSE "fail"
  BY DEF Deliver, OwnershipInv, TypeInv, TypeOK
<1>5. /\ \A g \in Handlers, c \in CIDs : /\ Carries(g, c)' => Carries(g, c)
                                         /\ Answers(g, c)' => Answers(g, c) /\ g # h
      /\ \A g \in Handlers : g # h => pc'[g] = pc[g] /\ found'[g] = found[g]
  <2>1. /\ \A g \in Handlers : g # h => pc'[g] = pc[g] /\ pkt'[g] = pkt[g] /\ found'[g] = found[g]
        /\ pc'[h] = "idle"
    BY <1>1 DEF OwnershipInv, TypeInv, TypeOK
  <2> QED
    BY <2>1 DEF Carries, Answers, Routing
(* An isolate that waits for an answer gets it, or fails.                   *)
<1>6. ASSUME iso[i] = "await"
      PROVE  /\ drain[i] \in {"idle", "forward"} /\ isoCid'[i] = isoCid[i] /\ isoCid[i] \in CIDs
             /\ Runs(i, isoCid[i])
             /\ \/ Doomed(i)' /\ iso'[i] = "fail"
                \/ /\ iso'[i] = "run" /\ drain[i] = "idle" /\ isoCid[i] = cid
                   /\ host[cid] = "compiling" /\ active[cid] = i
                   /\ \A g \in Handlers : Answers(g, cid) => g = h
  <2>1. /\ drain[i] \in {"idle", "forward"} /\ isoCid'[i] = isoCid[i] /\ isoCid[i] \in CIDs
        /\ Runs(i, isoCid[i])
    BY <1>4, <1>6 DEF TalkInv, Ending, OwnershipInv, TypeInv, Routed, Working, Runs
  <2>2. CASE iso'[i] = "fail"
    BY <1>1, <2>1, <2>2 DEF Doomed, Failed
  <2>3. CASE iso'[i] = "run"
    <3>1. Answers(h, cid)
      BY <1>3, <1>4, <1>6, <2>3
    <3>2. Meets(h, i, cid)
      BY <1>1, <1>2, <3>1 DEF TalkInv, Heard
    <3>3. ~Doomed(i)
      BY <1>6, <2>1 DEF Doomed, Failed
    <3> QED
      BY <2>1, <2>3, <3>2, <3>3 DEF Meets, Waits
  <2> QED
    BY <1>4, <1>6, <2>1, <2>2, <2>3
<1>7. /\ ~Failed(i) \/ drain[i] \in {"fatal", "exit"}
      /\ drain[i] = "forward" => iso[i] = "await" /\ Doomed(i)' /\ iso'[i] = "fail"
  BY <1>4, <1>6 DEF TalkInv, Spoken, Working, Failed
<1>8. ASSUME NEW c \in CIDs, NEW j, Waits(j, c)
      PROVE  /\ Doomed(j) => Doomed(j)'
             /\ \/ Waits(j, c)'
                \/ /\ j = i /\ c = cid /\ host[c] = "compiling"
                   /\ ~Doomed(j) /\ \A g \in Handlers : Answers(g, c) => g = h
  <2>1. j \in Isolates /\ active'[c] = j /\ active[c] = j
    BY <1>1, <1>8 DEF Waits
  <2>2. CASE j # i
    <3>1. Doomed(j)' <=> Doomed(j)
      BY <1>1, <1>4, <2>1, <2>2 DEF Doomed, Failed
    <3> QED
      BY <1>1, <1>4, <1>8, <2>1, <2>2, <3>1 DEF Waits
  <2>3. CASE j = i
    <3>1. CASE Doomed(i)
      <4>1. Doomed(i)'
        BY <1>1, <1>7, <3>1 DEF Doomed, Failed
      <4> QED
        BY <2>1, <2>3, <4>1 DEF Waits
    <3>2. CASE ~Doomed(i)
      <4>1. iso[i] = "await" /\ isoCid[i] = c
        BY <1>8, <2>3, <3>2 DEF Waits
      <4> QED
        BY <1>6, <2>1, <2>3, <3>2, <4>1 DEF Waits
    <3> QED
      BY <3>1, <3>2
  <2> QED
    BY <2>2, <2>3
<1>9. ASSUME NEW g \in Handlers, NEW c \in CIDs, NEW j, Meets(g, j, c), Answers(g, c)'
      PROVE  Meets(g, j, c)'
  <2>1. Waits(j, c) /\ Answers(g, c) /\ g # h
    BY <1>5, <1>9 DEF Meets
  <2>2. Waits(j, c)' /\ (Doomed(j) => Doomed(j)')
    BY <1>8, <2>1
  <2> QED
    BY <1>1, <1>5, <1>9, <2>2 DEF Meets
<1>10. Heard'
  <2>1. ASSUME NEW g \in Handlers, NEW c \in CIDs, Answers(g, c)'
        PROVE  /\ pc'[g] \in {"send", "put"} => found'[g] \in shut' \/ Meets(g, found[g], c)'
               /\ ~closed' => /\ Meets(g, active[c], c)'
                              /\ pc'[g] \in HasIsolate => found'[g] = active'[c]
    <3>1. /\ Answers(g, c) /\ pc'[g] = pc[g] /\ found'[g] = found[g]
          /\ UNCHANGED <<active, shut, closed>>
      BY <1>1, <1>5, <2>1
    <3>2. /\ pc[g] \in {"send", "put"} => found[g] \in shut \/ Meets(g, found[g], c)
          /\ ~closed => Meets(g, active[c], c) /\ (pc[g] \in HasIsolate => found[g] = active[c])
      BY <3>1 DEF TalkInv, Heard
    <3>3. \A j : Meets(g, j, c) => Meets(g, j, c)'
      BY <1>9, <2>1
    <3> QED
      BY <3>1, <3>2, <3>3
  <2>2. \A g \in Handlers, c \in CIDs : Carries(g, c)' => host'[c] = "compiling"
    BY <1>1, <1>5 DEF TalkInv, Heard
  <2>3. ASSUME NEW c \in CIDs, host'[c] = "asked", ~closed' PROVE Waits(active[c], c)'
    <3>1. Waits(active[c], c) /\ active' = active /\ host[c] = "asked"
      BY <1>1, <2>3 DEF TalkInv, Heard
    <3> QED
      BY <1>8, <3>1
  <2> QED
    BY <2>1, <2>2, <2>3 DEF Heard
<1>11. Spoken'
  <2>1. ASSUME NEW j \in Isolates, NEW c \in CIDs, Runs(j, c)'
        PROVE  \/ host'[c] = "compiling"
               \/ host'[c] = "asked" /\ (iso'[j] = "await" \/ GivesUp(j)')
    <3>1. CASE j # i
      <4>1. Runs(j, c) /\ iso'[j] = iso[j]
        BY <1>1, <1>4, <2>1, <3>1 DEF Runs
      <4> QED
        BY <1>1, <4>1 DEF TalkInv, Spoken, GivesUp
    <3>2. CASE j = i
      <4>1. iso'[i] = "run" /\ c = isoCid'[i]
        BY <1>4, <2>1, <3>2 DEF Runs
      <4>2. CASE iso[i] = "take"
        <5>1. c = cid /\ Carries(h, cid)
          BY <1>3, <1>4, <4>1, <4>2
        <5> QED
          BY <1>1, <1>2, <5>1 DEF TalkInv, Heard
      <4>3. CASE iso[i] = "await"
        BY <1>1, <1>6, <4>1, <4>3
      <4> QED
        BY <1>4, <4>2, <4>3
    <3> QED
      BY <3>1, <3>2
  <2>2. ASSUME NEW j \in Isolates, drain'[j] = "forward"
        PROVE  /\ msg'[j].to = msg'[j].cid /\ host'[msg'[j].cid] = "compiling"
               /\ active'[msg'[j].cid] = j /\ isoCid'[j] = msg'[j].cid /\ iso'[j] \in Working
               /\ msg'[j].kind = "request" => iso'[j] = "await" \/ Failed(j)' \/ GivesUp(j)'
               /\ \A g \in Handlers : ~Carries(g, msg[j].cid)'
               /\ \A k \in Isolates : ~Completes(k, msg[j].cid)'
    <3>1. drain[j] = "forward" /\ msg' = msg /\ msg[j].cid \in CIDs
      BY <1>1, <2>2, MessageNames
    <3>2. \A k \in Isolates : ~Completes(k, msg[j].cid)'
      BY <1>1, <3>1 DEF TalkInv, Spoken, Completes
    <3>3. \A g \in Handlers : ~Carries(g, msg[j].cid)'
      BY <1>5, <3>1 DEF TalkInv, Spoken
    <3>4. /\ isoCid'[j] = msg[j].cid /\ iso'[j] \in Working
          /\ msg[j].kind = "request" => iso'[j] = "await" \/ Failed(j)' \/ GivesUp(j)'
      <4>1. CASE j = i
        <5>1. iso'[i] = "fail" /\ isoCid'[i] = isoCid[i] /\ Failed(i)'
          BY <1>6, <1>7, <3>1, <4>1 DEF Doomed
        <5> QED
          BY <3>1, <4>1, <5>1 DEF TalkInv, Spoken, Working
      <4>2. CASE j # i
        <5>1. /\ iso'[j] = iso[j] /\ isoCid'[j] = isoCid[j]
              /\ Failed(j)' <=> Failed(j)
              /\ GivesUp(j)' <=> GivesUp(j)
          BY <1>1, <1>4, <4>2 DEF Failed, GivesUp
        <5> QED
          BY <3>1, <5>1 DEF TalkInv, Spoken
      <4> QED
        BY <4>1, <4>2
    <3> QED
      BY <1>1, <3>1, <3>2, <3>3, <3>4 DEF TalkInv, Spoken
  <2>3. ASSUME NEW j \in Isolates, drain'[j] \in {"finish", "release", "respond"}
        PROVE  /\ msg'[j].to = msg'[j].cid
               /\ \/ host'[msg'[j].cid] = "compiling"
                  \/ host'[msg'[j].cid] = "asked" /\ msg'[j].kind = "response" /\ j \in shut'
    BY <1>1, <2>3 DEF TalkInv, Spoken
  <2>4. msg' = msg
    BY <1>1
  <2> QED
    BY <2>1, <2>2, <2>3, <2>4 DEF Spoken
<1>12. Ending'
  BY <1>1, <1>4 DEF TalkInv, Ending, OwnershipInv, TypeInv, TypeOK
<1> QED
  BY <1>10, <1>11, <1>12 DEF TalkInv

LEMMA HandlerTalk ==
    ASSUME OwnershipInv, TalkInv, NEW h \in Handlers, HandlerStep(h)
    PROVE  TalkInv'
<1> USE DEF readerVars, processVars, handlerVars, poolVars, borrowVars, isoVars, drainVars
<1> USE DEF Free
<1>1. /\ pkt = [pkt EXCEPT ![h] = pkt[h]] /\ found = [found EXCEPT ![h] = found[h]]
      /\ pc = [pc EXCEPT ![h] = pc[h]]
      /\ h \in DOMAIN pc /\ h \in DOMAIN pkt /\ h \in DOMAIN found
  BY DEF OwnershipInv, TypeInv, TypeOK
<1>2. CASE LookUp(h) \/ LoseRace(h)
  <2>1. PICK x \in {"acquire", "check", "giveBack"} :
                 /\ pc' = [pc EXCEPT ![h] = x]
                 /\ found' = [found EXCEPT ![h] = active[pkt[h].cid]]
                 /\ pc[h] \in Routing
    BY <1>2 DEF LookUp, LoseRace, Routing
  <2>2. UNCHANGED <<pkt, reader, closed, active, spawned, shut, iso, isoCid, out, drain, msg, host>>
    BY <1>2 DEF LookUp, LoseRace
  <2> QED
    BY <1>1, <2>1, <2>2, HandlerGoes
<1>3. CASE AcquireToken(h) \/ GiveBack(h) \/ CheckBorrowed(h)
  <2>1. PICK x : /\ pc' = [pc EXCEPT ![h] = x]
                 /\ x \in HasIsolate => pc[h] \in HasIsolate
                 /\ x \in {"send", "put"} => pc[h] \in {"send", "put"}
                 /\ pc[h] \in Routing
    BY <1>3 DEF AcquireToken, GiveBack, CheckBorrowed, Routing, HasIsolate
  <2>2. UNCHANGED <<pkt, found, reader, closed, active, spawned, shut, iso, isoCid, out, drain,
                    msg, host>>
    BY <1>3 DEF AcquireToken, GiveBack, CheckBorrowed
  <2> QED
    BY <1>1, <2>1, <2>2, HandlerGoes
<1>4. CASE CheckClosed(h) /\ ~closed
  <2>1. pc[h] \in Routing /\ pc[h] \in HasIsolate
    BY <1>4 DEF CheckClosed, Routing, HasIsolate
  <2>2. /\ pc' = [pc EXCEPT ![h] = "send"]
        /\ UNCHANGED <<pkt, found, reader, closed, active, spawned, shut, iso, isoCid, out, drain,
                       msg, host>>
    BY <1>4 DEF CheckClosed
  <2> QED
    BY <1>1, <1>4, <2>1, <2>2, HandlerGoes
<1>5. CASE AnswerVersion(h) \/ ReportError(h) \/ (CheckClosed(h) /\ closed)
  <2>1. /\ pc' = [pc EXCEPT ![h] = "idle"]
        /\ pkt' = [pkt EXCEPT ![h] = NoPacket]
        /\ found' = [found EXCEPT ![h] = None]
        /\ UNCHANGED <<reader, closed, active, spawned, shut, iso, isoCid, out, drain, msg, host>>
    BY <1>5 DEF AnswerVersion, ReportError, CheckClosed
  <2>2. "idle" \notin Routing /\ "idle" \notin HasIsolate
    BY DEF Routing, HasIsolate
  <2> QED
    BY <1>1, <2>1, <2>2, HandlerGoes
<1>6. CASE PutPanics(h)
  <2>1. UNCHANGED <<pc, pkt, found, reader, closed, active, spawned, shut, iso, isoCid, out, drain,
                    msg, host>>
    BY <1>6 DEF PutPanics
  <2>2. pc' = pc /\ pkt' = pkt /\ found' = found /\ pc[h] = "put"
    BY <1>6 DEF PutPanics
  <2>3. /\ pc' = [pc EXCEPT ![h] = pc'[h]]
        /\ pkt' = [pkt EXCEPT ![h] = pkt'[h]]
        /\ found' = [found EXCEPT ![h] = found'[h]]
    BY <1>1, <2>2
  <2> QED
    BY <2>1, <2>2, <2>3, HandlerGoes
<1> QED
  BY <1>2, <1>3, <1>4, <1>5, <1>6, BorrowTalk, DeliverTalk DEF HandlerStep

(* What a compilation does between two messages.                            *)
LEMMA CompilationTalk ==
    ASSUME OwnershipInv, TalkInv, NEW i \in Isolates,
           \/ \E kind \in OutKinds : CompileEmits(i, kind)
           \/ CompileFails(i) \/ TakeClosed(i) \/ AwaitClosed(i)
    PROVE  TalkInv'
<1> USE DEF readerVars, processVars, handlerVars, poolVars, borrowVars, isoVars, drainVars
<1>1. /\ UNCHANGED <<reader, closed, pc, pkt, found, active, spawned, shut, isoCid, drain, msg,
                     host>>
      /\ \A j \in Isolates : j # i => iso'[j] = iso[j] /\ out'[j] = out[j]
      /\ \/ iso[i] = "run" /\ iso'[i] = "emit" /\ out'[i] # "error"
         \/ iso[i] = "fail" /\ iso'[i] = "emit" /\ out'[i] = "error"
         \/ iso[i] = "take" /\ iso'[i] = "exited" /\ i \in shut
         \/ iso[i] = "await" /\ iso'[i] = "emit" /\ i \in shut /\ out'[i] = "response"
  BY DEF CompileEmits, CompileFails, TakeClosed, AwaitClosed, OwnershipInv, TypeInv, TypeOK
<1>2. /\ \A j \in Isolates : Failed(j)' <=> Failed(j)
      /\ \A j \in Isolates : Doomed(j)' <=> Doomed(j)
      /\ \A j \in Isolates, c \in CIDs : Runs(j, c)' => Runs(j, c)
      /\ \A g \in Handlers, c \in CIDs : /\ Carries(g, c)' <=> Carries(g, c)
                                         /\ Answers(g, c)' <=> Answers(g, c)
  <2>1. \A j \in Isolates : Failed(j)' <=> Failed(j)
    BY <1>1 DEF Failed
  <2> QED
    BY <1>1, <2>1 DEF Doomed, Runs, Carries, Answers
(* Who waits still does, unless its mailbox is closed.                      *)
<1>3. ASSUME NEW j, NEW c \in CIDs, Waits(j, c) PROVE Waits(j, c)' \/ (j = i /\ i \in shut)
  <2>1. CASE j = i
    BY <1>1, <1>2, <1>3, <2>1 DEF Waits
  <2>2. CASE j # i
    BY <1>1, <1>2, <1>3, <2>2 DEF Waits
  <2> QED
    BY <2>1, <2>2
<1>4. ASSUME NEW g \in Handlers, NEW c \in CIDs, NEW j, Meets(g, j, c)
      PROVE  Meets(g, j, c)' \/ (j = i /\ i \in shut)
  <2>1. /\ Waits(j, c)' \/ (j = i /\ i \in shut)
        /\ j \in Isolates /\ host' = host
    BY <1>1, <1>3, <1>4 DEF Meets, Waits
  <2> QED
    BY <1>2, <1>4, <2>1 DEF Meets
<1>5. ~closed => shut = {}
  BY DEF TalkInv, Ending
<1>6. Heard'
  <2>1. ASSUME NEW g \in Handlers, NEW c \in CIDs, Answers(g, c)'
        PROVE  /\ pc'[g] \in {"send", "put"} => found'[g] \in shut' \/ Meets(g, found[g], c)'
               /\ ~closed' => /\ Meets(g, active[c], c)'
                              /\ pc'[g] \in HasIsolate => found'[g] = active'[c]
    <3>1. Answers(g, c) /\ UNCHANGED <<pc, found, active, shut, closed>>
      BY <1>1, <1>2, <2>1
    <3>2. /\ pc[g] \in {"send", "put"} => found[g] \in shut \/ Meets(g, found[g], c)
          /\ ~closed => Meets(g, active[c], c) /\ (pc[g] \in HasIsolate => found[g] = active[c])
      BY <3>1 DEF TalkInv, Heard
    <3>3. \A j : Meets(g, j, c) => Meets(g, j, c)' \/ (j = i /\ i \in shut)
      BY <1>4
    <3> QED
      BY <1>5, <3>1, <3>2, <3>3
  <2>2. \A g \in Handlers, c \in CIDs : Carries(g, c)' => host'[c] = "compiling"
    BY <1>1, <1>2 DEF TalkInv, Heard
  <2>3. ASSUME NEW c \in CIDs, host'[c] = "asked", ~closed' PROVE Waits(active[c], c)'
    <3>1. Waits(active[c], c) /\ active' = active /\ shut = {}
      BY <1>1, <1>5, <2>3 DEF TalkInv, Heard
    <3>2. Waits(active[c], c)' \/ (active[c] = i /\ i \in shut)
      BY <1>3, <3>1
    <3> QED
      BY <3>1, <3>2
  <2> QED
    BY <2>1, <2>2, <2>3 DEF Heard
<1>7. Spoken'
  <2>1. ASSUME NEW j \in Isolates, NEW c \in CIDs, Runs(j, c)'
        PROVE  \/ host'[c] = "compiling"
               \/ host'[c] = "asked" /\ (iso'[j] = "await" \/ GivesUp(j)')
    <3>1. Runs(j, c)
      BY <1>2, <2>1
    <3>2. \/ host[c] = "compiling"
          \/ host[c] = "asked" /\ (iso[j] = "await" \/ GivesUp(j))
      BY <3>1 DEF TalkInv, Spoken
    <3>3. (iso[j] = "await" \/ GivesUp(j)) => (iso'[j] = "await" \/ GivesUp(j)')
      BY <1>1 DEF GivesUp
    <3> QED
      BY <1>1, <3>2, <3>3
  <2>2. ASSUME NEW j \in Isolates, drain'[j] = "forward"
        PROVE  /\ msg'[j].to = msg'[j].cid /\ host'[msg'[j].cid] = "compiling"
               /\ active'[msg'[j].cid] = j /\ isoCid'[j] = msg'[j].cid /\ iso'[j] \in Working
               /\ msg'[j].kind = "request" => iso'[j] = "await" \/ Failed(j)' \/ GivesUp(j)'
               /\ \A g \in Handlers : ~Carries(g, msg[j].cid)'
               /\ \A k \in Isolates : ~Completes(k, msg[j].cid)'
    <3>1. drain[j] = "forward" /\ msg' = msg /\ msg[j].cid \in CIDs
      BY <1>1, <2>2, MessageNames
    <3>2. /\ \A k \in Isolates : ~Completes(k, msg[j].cid)'
          /\ \A g \in Handlers : ~Carries(g, msg[j].cid)'
      BY <1>1, <1>2, <3>1 DEF TalkInv, Spoken, Completes
    <3>3. iso'[j] \in Working
      <4>1. iso[j] \in Working
        BY <3>1 DEF TalkInv, Spoken
      <4> QED
        BY <1>1, <4>1 DEF Working
    <3>4. (iso[j] = "await" \/ GivesUp(j)) => (iso'[j] = "await" \/ GivesUp(j)')
      BY <1>1 DEF GivesUp
    <3> QED
      BY <1>1, <1>2, <3>1, <3>2, <3>3, <3>4 DEF TalkInv, Spoken
  <2>3. ASSUME NEW j \in Isolates, drain'[j] \in {"finish", "release", "respond"}
        PROVE  /\ msg'[j].to = msg'[j].cid
               /\ \/ host'[msg'[j].cid] = "compiling"
                  \/ host'[msg'[j].cid] = "asked" /\ msg'[j].kind = "response" /\ j \in shut'
    BY <1>1, <2>3 DEF TalkInv, Spoken
  <2>4. msg' = msg
    BY <1>1
  <2> QED
    BY <2>1, <2>2, <2>3, <2>4 DEF Spoken
<1>8. Ending'
  BY <1>1 DEF TalkInv, Ending, OwnershipInv, TypeInv, TypeOK
<1> QED
  BY <1>6, <1>7, <1>8 DEF TalkInv

(* A compilation's message meets its drain.                                 *)
LEMMA EmitTalk ==
    ASSUME OwnershipInv, TalkInv, NEW i \in Isolates, Emit(i)
    PROVE  TalkInv'
<1> USE DEF readerVars, processVars, handlerVars, poolVars, borrowVars, isoVars, drainVars
<1> DEFINE cid == isoCid[i]
<1>1. PICK d, s, to :
        /\ iso[i] = "emit" /\ drain[i] = "idle"
        /\ drain' = [drain EXCEPT ![i] = d]
        /\ msg' = [msg EXCEPT ![i] = [kind |-> out[i], cid |-> cid, to |-> to]]
        /\ iso' = [iso EXCEPT ![i] = s]
        /\ \/ out[i] = "log" /\ d = "forward" /\ s = "run"
           \/ out[i] = "request" /\ d = "forward" /\ s = "await"
           \/ out[i] = "response" /\ d = "finish" /\ s = "take"
           \/ out[i] = "error" /\ d = "fatal" /\ s = "take"
        /\ to = onData[i]
        /\ out' = [out EXCEPT ![i] = "none"]
        /\ UNCHANGED <<reader, closed, pc, pkt, found, active, spawned, shut, isoCid, host>>
  BY DEF Emit, OutKinds, Working, OwnershipInv, TypeInv, Routed
<1>2. cid \in CIDs
  BY <1>1 DEF Working, OwnershipInv, TypeInv, Routed
<1>3. ASSUME out[i] # "error"
      PROVE  /\ Runs(i, cid) /\ to = cid /\ active[cid] = i
             /\ \A h \in Handlers : ~Carries(h, cid)
             /\ \A j \in Isolates : ~Completes(j, cid)
             /\ \/ host[cid] = "compiling"
                \/ host[cid] = "asked" /\ i \in shut /\ out[i] = "response"
  <2>1. Runs(i, cid)
    BY <1>1, <1>3 DEF Runs
  <2> QED
    BY <1>1, <1>2, <2>1, RunningIs DEF TalkInv, Spoken, GivesUp
<1>4. /\ iso'[i] = s /\ drain'[i] = d /\ out'[i] = "none"
      /\ msg'[i] = [kind |-> out[i], cid |-> cid, to |-> to]
      /\ \A j \in Isolates : j # i => /\ iso'[j] = iso[j] /\ drain'[j] = drain[j]
                                      /\ msg'[j] = msg[j] /\ out'[j] = out[j]
  BY <1>1 DEF OwnershipInv, TypeInv, TypeOK
<1>5. /\ \A j \in Isolates : Failed(j)' <=> Failed(j)
      /\ \A j \in Isolates : Doomed(j)' <=> Doomed(j)
      /\ \A j \in Isolates, c \in CIDs : Runs(j, c)' => Runs(j, c)
      /\ Failed(i) => out[i] = "error"
      /\ \A g \in Handlers, c \in CIDs : /\ Carries(g, c)' <=> Carries(g, c)
                                         /\ Answers(g, c)' <=> Answers(g, c)
  <2>1. \A j \in Isolates : j # i => /\ Failed(j)' <=> Failed(j)
                                     /\ Doomed(j)' <=> Doomed(j)
    BY <1>4 DEF Failed, Doomed
  <2>2. Failed(i)' <=> Failed(i)
    BY <1>1, <1>4 DEF Failed
  <2>3. Doomed(i)' <=> Doomed(i)
    BY <1>1, <1>4, <2>2 DEF Doomed, Failed
  <2>4. Failed(i) => out[i] = "error"
    BY <1>1 DEF Failed
  <2>5. \A j \in Isolates, c \in CIDs : Runs(j, c)' => Runs(j, c)
    BY <1>1, <1>4 DEF Runs
  <2>6. \A g \in Handlers, c \in CIDs : /\ Carries(g, c)' <=> Carries(g, c)
                                        /\ Answers(g, c)' <=> Answers(g, c)
    BY <1>1 DEF Carries, Answers
  <2> QED
    BY <2>1, <2>2, <2>3, <2>4, <2>5, <2>6
<1>6. ASSUME NEW j, NEW c \in CIDs, Waits(j, c) PROVE Waits(j, c)'
  <2>1. j \in Isolates /\ active[c] = j
    BY <1>6 DEF Waits
  <2>2. CASE j = i
    <3>1. Doomed(i)
      BY <1>1, <1>6, <2>2 DEF Waits
    <3> QED
      BY <1>1, <1>5, <2>1, <2>2, <3>1 DEF Waits
  <2>3. CASE j # i
    BY <1>1, <1>4, <1>5, <1>6, <2>3 DEF Waits
  <2> QED
    BY <2>2, <2>3
<1>7. ASSUME NEW g \in Handlers, NEW c \in CIDs, NEW j, Meets(g, j, c) PROVE Meets(g, j, c)'
  <2>1. Waits(j, c)' /\ j \in Isolates /\ host' = host
    BY <1>1, <1>6, <1>7 DEF Meets, Waits
  <2> QED
    BY <1>5, <1>7, <2>1 DEF Meets
<1>8. Heard'
  <2>1. ASSUME NEW g \in Handlers, NEW c \in CIDs, Answers(g, c)'
        PROVE  /\ pc'[g] \in {"send", "put"} => found'[g] \in shut' \/ Meets(g, found[g], c)'
               /\ ~closed' => /\ Meets(g, active[c], c)'
                              /\ pc'[g] \in HasIsolate => found'[g] = active'[c]
    <3>1. Answers(g, c) /\ UNCHANGED <<pc, found, active, shut, closed>>
      BY <1>1, <1>5, <2>1
    <3>2. /\ pc[g] \in {"send", "put"} => found[g] \in shut \/ Meets(g, found[g], c)
          /\ ~closed => Meets(g, active[c], c) /\ (pc[g] \in HasIsolate => found[g] = active[c])
      BY <3>1 DEF TalkInv, Heard
    <3>3. \A j : Meets(g, j, c) => Meets(g, j, c)'
      BY <1>7
    <3> QED
      BY <3>1, <3>2, <3>3
  <2>2. \A g \in Handlers, c \in CIDs : Carries(g, c)' => host'[c] = "compiling"
    BY <1>1, <1>5 DEF TalkInv, Heard
  <2>3. ASSUME NEW c \in CIDs, host'[c] = "asked", ~closed' PROVE Waits(active[c], c)'
    <3>1. Waits(active[c], c) /\ active' = active
      BY <1>1, <2>3 DEF TalkInv, Heard
    <3> QED
      BY <1>6, <3>1
  <2> QED
    BY <2>1, <2>2, <2>3 DEF Heard
<1>9. Spoken'
  <2>1. ASSUME NEW j \in Isolates, NEW c \in CIDs, Runs(j, c)'
        PROVE  \/ host'[c] = "compiling"
               \/ host'[c] = "asked" /\ (iso'[j] = "await" \/ GivesUp(j)')
    <3>1. Runs(j, c)
      BY <1>5, <2>1
    <3>2. CASE j # i
      BY <1>1, <1>4, <3>1, <3>2 DEF TalkInv, Spoken, GivesUp
    <3>3. CASE j = i
      <4>1. out[i] \in {"log", "request"} /\ c = cid
        BY <1>1, <1>4, <2>1, <3>3 DEF Runs
      <4> QED
        BY <1>1, <1>3, <4>1
    <3> QED
      BY <3>2, <3>3
  <2>2. ASSUME NEW j \in Isolates, drain'[j] = "forward"
        PROVE  /\ msg'[j].to = msg'[j].cid /\ host'[msg'[j].cid] = "compiling"
               /\ active'[msg'[j].cid] = j /\ isoCid'[j] = msg'[j].cid /\ iso'[j] \in Working
               /\ msg'[j].kind = "request" => iso'[j] = "await" \/ Failed(j)' \/ GivesUp(j)'
               /\ \A g \in Handlers, c \in CIDs : c = msg'[j].cid => ~Carries(g, c)'
               /\ \A k \in Isolates, c \in CIDs : c = msg'[j].cid => ~Completes(k, c)'
    <3>1. CASE j = i
      <4>1. /\ out[i] \in {"log", "request"} /\ msg'[i].cid = cid /\ msg'[i].to = to
            /\ msg'[i].kind = out[i]
        BY <1>1, <1>4, <2>2, <3>1
      <4>2. \A k \in Isolates : ~Completes(k, cid)'
        BY <1>1, <1>3, <1>4, <4>1 DEF Completes
      <4>3. iso'[i] \in Working /\ (out[i] = "request" => iso'[i] = "await")
        BY <1>1, <1>4, <4>1 DEF Working
      <4> QED
        BY <1>1, <1>3, <1>5, <3>1, <4>1, <4>2, <4>3
    <3>2. CASE j # i
      <4>1. drain[j] = "forward" /\ msg'[j] = msg[j] /\ msg[j].cid \in CIDs /\ iso'[j] = iso[j]
        BY <1>4, <2>2, <3>2, MessageNames
      <4>2. GivesUp(j)' <=> GivesUp(j)
        BY <1>1, <1>4, <3>2 DEF GivesUp
      <4>3. \A g \in Handlers : ~Carries(g, msg[j].cid)
        BY <4>1 DEF TalkInv, Spoken
      <4>4. active[msg[j].cid] = j /\ \A k \in Isolates : ~Completes(k, msg[j].cid)
        BY <4>1 DEF TalkInv, Spoken
      <4>5. ASSUME NEW k \in Isolates, NEW c \in CIDs, c = msg[j].cid PROVE ~Completes(k, c)'
        <5>1. CASE k = i
          <6>1. Completes(i, c)' => out[i] = "response" /\ c = cid
            BY <1>1, <1>4 DEF Completes
          <6> QED
            BY <1>3, <3>2, <4>4, <4>5, <5>1, <6>1
        <5>2. CASE k # i
          BY <1>4, <4>4, <4>5, <5>2 DEF Completes
        <5> QED
          BY <5>1, <5>2
      <4> QED
        BY <1>1, <1>5, <4>1, <4>2, <4>3, <4>5 DEF TalkInv, Spoken
    <3> QED
      BY <3>1, <3>2
  <2>3. ASSUME NEW j \in Isolates, drain'[j] \in {"finish", "release", "respond"}
        PROVE  /\ msg'[j].to = msg'[j].cid
               /\ \/ host'[msg'[j].cid] = "compiling"
                  \/ host'[msg'[j].cid] = "asked" /\ msg'[j].kind = "response" /\ j \in shut'
    <3>1. CASE j = i
      BY <1>1, <1>3, <1>4, <2>3, <3>1
    <3>2. CASE j # i
      BY <1>1, <1>4, <2>3, <3>2 DEF TalkInv, Spoken
    <3> QED
      BY <3>1, <3>2
  <2>4. ASSUME NEW j \in Isolates, drain'[j] = "forward" PROVE msg'[j].cid \in CIDs
    <3>1. CASE j = i
      BY <1>2, <1>4, <3>1
    <3>2. CASE j # i
      BY <1>4, <2>4, <3>2, MessageNames
    <3> QED
      BY <3>1, <3>2
  <2>5. ASSUME NEW j \in Isolates, drain'[j] = "forward"
        PROVE  /\ \A g \in Handlers : ~Carries(g, msg[j].cid)'
               /\ \A k \in Isolates : ~Completes(k, msg[j].cid)'
    <3>1. PICK c \in CIDs : c = msg'[j].cid
      BY <2>4, <2>5
    <3>2. /\ \A g \in Handlers : ~Carries(g, c)'
          /\ \A k \in Isolates : ~Completes(k, c)'
      BY <2>2, <2>5, <3>1
    <3> QED
      BY <3>1, <3>2 DEF Carries, Completes
  <2> QED
    BY <2>1, <2>2, <2>3, <2>5 DEF Spoken
<1>10. Ending'
  BY <1>1, <1>4 DEF TalkInv, Ending, OwnershipInv, TypeInv, TypeOK
<1> QED
  BY <1>8, <1>9, <1>10 DEF TalkInv

(* A request is written, and the host asked; or a log event is.             *)
LEMMA ForwardTalk ==
    ASSUME OwnershipInv, TalkInv, NEW i \in Isolates, Forward(i)
    PROVE  TalkInv'
<1> USE DEF readerVars, processVars, handlerVars, poolVars, borrowVars, isoVars, drainVars
<1> DEFINE cid == msg[i].cid
<1>1. /\ drain[i] = "forward"
      /\ host' = IF msg[i].kind = "request" THEN [host EXCEPT ![cid] = "asked"] ELSE host
      /\ drain' = [drain EXCEPT ![i] = "idle"]
      /\ msg' = [msg EXCEPT ![i] = NoMessage]
      /\ UNCHANGED <<reader, closed, pc, pkt, found, active, spawned, shut, iso, isoCid, out>>
  BY DEF Forward, Drained
<1>2. /\ cid \in CIDs /\ active[cid] = i /\ host[cid] = "compiling" /\ isoCid[i] = cid
      /\ msg[i].kind = "request" => iso[i] = "await" \/ Failed(i) \/ GivesUp(i)
      /\ \A h \in Handlers : ~Carries(h, cid)
      /\ \A j \in Isolates : ~Completes(j, cid)
  BY <1>1, MessageNames DEF TalkInv, Spoken
<1>3. \A c \in CIDs : host'[c] = IF msg[i].kind = "request" /\ c = cid THEN "asked" ELSE host[c]
  BY <1>1, <1>2 DEF OwnershipInv, TypeInv, TypeOK
<1>4. /\ \A j \in Isolates : j # i => drain'[j] = drain[j] /\ msg'[j] = msg[j]
      /\ drain'[i] = "idle"
  BY <1>1 DEF OwnershipInv, TypeInv, TypeOK
<1>5. /\ \A j \in Isolates, c \in CIDs : /\ Runs(j, c)' <=> Runs(j, c)
                                         /\ Completes(j, c)' => Completes(j, c)
      /\ \A j \in Isolates : /\ Failed(j)' <=> Failed(j)
                             /\ Doomed(j)' <=> Doomed(j)
                             /\ GivesUp(j)' <=> GivesUp(j)
      /\ Doomed(i) <=> Failed(i)
      /\ \A h \in Handlers, c \in CIDs : /\ Carries(h, c)' <=> Carries(h, c)
                                         /\ Answers(h, c)' <=> Answers(h, c)
  BY <1>1, <1>4 DEF Runs, Failed, Carries, Answers, Completes, Doomed, GivesUp
<1>6. ASSUME NEW j, NEW c \in CIDs, Waits(j, c)
      PROVE  Waits(j, c)' /\ j \in Isolates /\ (c = cid => Doomed(j))
  <2>1. j \in Isolates /\ active[c] = j
    BY <1>6 DEF Waits
  <2>2. CASE j = i
    <3>1. Doomed(i)
      BY <1>1, <1>6, <2>2 DEF Waits
    <3> QED
      BY <1>1, <1>5, <2>1, <2>2, <3>1 DEF Waits
  <2>3. CASE j # i
    BY <1>1, <1>2, <1>4, <1>5, <1>6, <2>3 DEF Waits
  <2> QED
    BY <2>2, <2>3
<1>7. ASSUME NEW g \in Handlers, NEW c \in CIDs, NEW j, Meets(g, j, c) PROVE Meets(g, j, c)'
  <2>1. Waits(j, c)' /\ j \in Isolates /\ (c = cid => Doomed(j))
    BY <1>6, <1>7 DEF Meets
  <2> QED
    BY <1>3, <1>5, <1>7, <2>1 DEF Meets
<1>8. Heard'
  <2>1. ASSUME NEW g \in Handlers, NEW c \in CIDs, Answers(g, c)'
        PROVE  /\ pc'[g] \in {"send", "put"} => found'[g] \in shut' \/ Meets(g, found[g], c)'
               /\ ~closed' => /\ Meets(g, active[c], c)'
                              /\ pc'[g] \in HasIsolate => found'[g] = active'[c]
    <3>1. Answers(g, c) /\ UNCHANGED <<pc, found, active, shut, closed>>
      BY <1>1, <1>5, <2>1
    <3>2. /\ pc[g] \in {"send", "put"} => found[g] \in shut \/ Meets(g, found[g], c)
          /\ ~closed => Meets(g, active[c], c) /\ (pc[g] \in HasIsolate => found[g] = active[c])
      BY <3>1 DEF TalkInv, Heard
    <3>3. \A j : Meets(g, j, c) => Meets(g, j, c)'
      BY <1>7
    <3> QED
      BY <3>1, <3>2, <3>3
  <2>2. \A g \in Handlers, c \in CIDs : Carries(g, c)' => host'[c] = "compiling"
    BY <1>2, <1>3, <1>5 DEF TalkInv, Heard
  <2>3. ASSUME NEW c \in CIDs, host'[c] = "asked", ~closed' PROVE Waits(active[c], c)'
    <3>1. CASE c = cid
      <4>1. ~GivesUp(i)
        BY <1>1, <2>3 DEF TalkInv, Ending, GivesUp
      <4>2. iso[i] = "await" \/ Failed(i)
        BY <1>2, <1>3, <2>3, <3>1, <4>1
      <4> QED
        BY <1>1, <1>2, <1>4, <1>5, <3>1, <4>2 DEF Waits
    <3>2. CASE c # cid
      <4>1. Waits(active[c], c) /\ active' = active
        BY <1>1, <1>3, <2>3, <3>2 DEF TalkInv, Heard
      <4> QED
        BY <1>6, <4>1
    <3> QED
      BY <3>1, <3>2
  <2> QED
    BY <2>1, <2>2, <2>3 DEF Heard
<1>9. Spoken'
  <2>1. ASSUME NEW j \in Isolates, NEW c \in CIDs, Runs(j, c)'
        PROVE  \/ host'[c] = "compiling"
               \/ host'[c] = "asked" /\ (iso'[j] = "await" \/ GivesUp(j)')
    <3>1. Runs(j, c)
      BY <1>5, <2>1
    <3>2. CASE c = cid /\ msg[i].kind = "request"
      <4>1. j = i
        BY <1>2, <3>1, <3>2, RunningIs
      <4>2. ~Failed(i)
        BY <1>1, <3>1, <4>1 DEF Runs, Failed
      <4> QED
        BY <1>1, <1>2, <1>3, <1>5, <3>2, <4>1, <4>2
    <3>3. CASE ~(c = cid /\ msg[i].kind = "request")
      BY <1>1, <1>3, <1>5, <3>1, <3>3 DEF TalkInv, Spoken
    <3> QED
      BY <3>2, <3>3
  <2>2. ASSUME NEW j \in Isolates, drain'[j] = "forward"
        PROVE  /\ msg'[j].to = msg'[j].cid /\ host'[msg'[j].cid] = "compiling"
               /\ active'[msg'[j].cid] = j /\ isoCid'[j] = msg'[j].cid /\ iso'[j] \in Working
               /\ msg'[j].kind = "request" => iso'[j] = "await" \/ Failed(j)' \/ GivesUp(j)'
               /\ msg'[j] = msg[j] /\ msg[j].cid \in CIDs
               /\ \A g \in Handlers : ~Carries(g, msg[j].cid)
               /\ \A k \in Isolates : ~Completes(k, msg[j].cid)
    <3>1. j # i /\ drain[j] = "forward" /\ msg'[j] = msg[j] /\ msg[j].cid \in CIDs
      BY <1>4, <2>2, MessageNames
    <3>2. active[msg[j].cid] = j /\ msg[j].cid # cid
      BY <1>2, <3>1 DEF TalkInv, Spoken
    <3> QED
      BY <1>1, <1>3, <1>5, <3>1, <3>2 DEF TalkInv, Spoken
  <2>3. ASSUME NEW j \in Isolates, drain'[j] = "forward"
        PROVE  /\ \A g \in Handlers : ~Carries(g, msg[j].cid)'
               /\ \A k \in Isolates : ~Completes(k, msg[j].cid)'
    <3>1. PICK c \in CIDs : c = msg'[j].cid /\ c = msg[j].cid
      BY <2>2, <2>3
    <3>2. /\ \A g \in Handlers : ~Carries(g, c)'
          /\ \A k \in Isolates : ~Completes(k, c)'
      BY <1>5, <2>2, <2>3, <3>1
    <3> QED
      BY <3>1, <3>2 DEF Carries, Completes
  <2>4. ASSUME NEW j \in Isolates, drain'[j] \in {"finish", "release", "respond"}
        PROVE  /\ msg'[j].to = msg'[j].cid
               /\ \/ host'[msg'[j].cid] = "compiling"
                  \/ host'[msg'[j].cid] = "asked" /\ msg'[j].kind = "response" /\ j \in shut'
    <3>1. /\ j # i /\ drain[j] = drain'[j] /\ msg'[j] = msg[j] /\ msg[j].cid \in CIDs
      BY <1>4, <2>4, MessageNames
    <3>2. msg[j].cid # cid
      BY <1>2, <2>4, <3>1 DEF Completes
    <3> QED
      BY <1>1, <1>3, <2>4, <3>1, <3>2 DEF TalkInv, Spoken
  <2> QED
    BY <2>1, <2>2, <2>3, <2>4 DEF Spoken
<1>10. Ending'
  BY <1>1, <1>4 DEF TalkInv, Ending
<1> QED
  BY <1>8, <1>9, <1>10 DEF TalkInv

(* The completion: nobody waits for the isolate it frees.                   *)
LEMMA CompletionTalk ==
    ASSUME OwnershipInv, TalkInv, NEW i \in Isolates,
           Finish(i) \/ ReleaseToken(i) \/ Respond(i)
    PROVE  TalkInv'
<1> USE DEF readerVars, processVars, handlerVars, poolVars, borrowVars, isoVars, drainVars
<1> DEFINE cid == msg[i].cid
<1>1. /\ drain[i] \in {"finish", "release", "respond"}
      /\ drain[i] = "finish" <=> Finish(i)
      /\ drain[i] = "respond" <=> Respond(i)
      /\ UNCHANGED <<reader, closed, pc, pkt, found, spawned, shut, iso, isoCid, out>>
  BY DEF Finish, ReleaseToken, Respond
<1>2. /\ cid \in CIDs /\ msg[i].to = cid /\ Completes(i, cid)
      /\ drain[i] = "finish" => active[cid] = i
  <2>1. cid \in CIDs /\ msg[i].to = cid
    BY <1>1, MessageNames DEF TalkInv, Spoken
  <2> QED
    BY <1>1, <2>1 DEF OwnershipInv, Bound, Completes
<1>3. /\ \A h \in Handlers : ~Carries(h, cid)
      /\ \A j \in Isolates : ~Runs(j, cid) /\ (Completes(j, cid) => j = i)
  BY <1>2 DEF OwnershipInv, OneThread
<1>4. /\ \A c \in CIDs : active'[c] = IF c = cid /\ drain[i] = "finish" THEN None ELSE active[c]
      /\ \A c \in CIDs : host'[c] = IF c = cid /\ drain[i] = "respond" THEN "idle" ELSE host[c]
      /\ \A j \in Isolates : j # i => drain'[j] = drain[j] /\ msg'[j] = msg[j]
      /\ drain[i] # "respond" => drain'[i] \in {"release", "respond"} /\ msg'[i] = msg[i]
      /\ drain[i] = "respond" => drain'[i] = "idle"
  <2>1. CASE Finish(i)
    BY <1>1, <1>2, <2>1 DEF Finish, OwnershipInv, TypeInv, TypeOK
  <2>2. CASE ReleaseToken(i)
    BY <1>1, <1>2, <2>2 DEF ReleaseToken, OwnershipInv, TypeInv, TypeOK
  <2>3. CASE Respond(i)
    BY <1>1, <1>2, <2>3 DEF Respond, Drained, OwnershipInv, TypeInv, TypeOK
  <2> QED
    BY <2>1, <2>2, <2>3
<1>5. /\ \A j \in Isolates, c \in CIDs : /\ Runs(j, c)' <=> Runs(j, c)
                                         /\ Completes(j, c)' => Completes(j, c)
      /\ \A j \in Isolates : /\ j # i => (Failed(j)' <=> Failed(j)) /\ (Doomed(j)' <=> Doomed(j))
                             /\ GivesUp(j)' <=> GivesUp(j)
      /\ ~Doomed(i)
      /\ \A h \in Handlers, c \in CIDs : /\ Carries(h, c)' <=> Carries(h, c)
                                         /\ Answers(h, c)' <=> Answers(h, c)
  BY <1>1, <1>4 DEF Runs, Failed, Carries, Answers, Completes, Doomed, GivesUp
<1>6. ASSUME NEW j, NEW c \in CIDs, Waits(j, c)
      PROVE  /\ Waits(j, c)' /\ active'[c] = active[c] /\ j \in Isolates /\ j # i
             /\ c = cid => Doomed(j)
  <2>1. j \in Isolates /\ active[c] = j /\ j # i
    BY <1>1, <1>5, <1>6 DEF Waits
  <2>2. active'[c] = active[c]
    BY <1>2, <1>4, <2>1
  <2>3. c = cid => Doomed(j)
    BY <1>3, <1>6, <2>1 DEF Waits, Runs
  <2> QED
    BY <1>1, <1>4, <1>5, <1>6, <2>1, <2>2, <2>3 DEF Waits
<1>7. ASSUME NEW g \in Handlers, NEW c \in CIDs, NEW j, Meets(g, j, c)
      PROVE  Meets(g, j, c)' /\ active'[c] = active[c]
  <2>1. /\ Waits(j, c)' /\ active'[c] = active[c] /\ j \in Isolates /\ j # i
        /\ c = cid => Doomed(j)
    BY <1>6, <1>7 DEF Meets
  <2> QED
    BY <1>4, <1>5, <1>7, <2>1 DEF Meets
<1>8. Heard'
  <2>1. ASSUME NEW g \in Handlers, NEW c \in CIDs, Answers(g, c)'
        PROVE  /\ pc'[g] \in {"send", "put"} => found'[g] \in shut' \/ Meets(g, found[g], c)'
               /\ ~closed' => /\ Meets(g, active[c], c)'
                              /\ pc'[g] \in HasIsolate => found'[g] = active'[c]
    <3>1. Answers(g, c) /\ UNCHANGED <<pc, found, shut, closed>>
      BY <1>1, <1>5, <2>1
    <3>2. /\ pc[g] \in {"send", "put"} => found[g] \in shut \/ Meets(g, found[g], c)
          /\ ~closed => Meets(g, active[c], c) /\ (pc[g] \in HasIsolate => found[g] = active[c])
      BY <3>1 DEF TalkInv, Heard
    <3>3. \A j : Meets(g, j, c) => Meets(g, j, c)' /\ active'[c] = active[c]
      BY <1>7
    <3> QED
      BY <3>1, <3>2, <3>3
  <2>2. \A g \in Handlers, c \in CIDs : Carries(g, c)' => host'[c] = "compiling"
    BY <1>3, <1>4, <1>5 DEF TalkInv, Heard
  <2>3. ASSUME NEW c \in CIDs, host'[c] = "asked", ~closed' PROVE Waits(active[c], c)'
    <3>1. Waits(active[c], c)
      BY <1>1, <1>4, <2>3 DEF TalkInv, Heard
    <3>2. \A j : Waits(j, c) => Waits(j, c)' /\ active'[c] = active[c]
      BY <1>6
    <3> QED
      BY <3>1, <3>2
  <2> QED
    BY <2>1, <2>2, <2>3 DEF Heard
<1>9. Spoken'
  <2>1. ASSUME NEW j \in Isolates, NEW c \in CIDs, Runs(j, c)'
        PROVE  \/ host'[c] = "compiling"
               \/ host'[c] = "asked" /\ (iso'[j] = "await" \/ GivesUp(j)')
    <3>1. Runs(j, c) /\ c # cid
      BY <1>3, <1>5, <2>1
    <3> QED
      BY <1>1, <1>4, <1>5, <3>1 DEF TalkInv, Spoken
  <2>2. ASSUME NEW j \in Isolates, drain'[j] = "forward"
        PROVE  /\ msg'[j].to = msg'[j].cid /\ host'[msg'[j].cid] = "compiling"
               /\ active'[msg'[j].cid] = j /\ isoCid'[j] = msg'[j].cid /\ iso'[j] \in Working
               /\ msg'[j].kind = "request" => iso'[j] = "await" \/ Failed(j)' \/ GivesUp(j)'
               /\ msg'[j] = msg[j] /\ msg[j].cid \in CIDs
               /\ \A g \in Handlers : ~Carries(g, msg[j].cid)
               /\ \A k \in Isolates : ~Completes(k, msg[j].cid)
    <3>1. j # i /\ drain[j] = "forward" /\ msg'[j] = msg[j] /\ msg[j].cid \in CIDs
      BY <1>4, <2>2, MessageNames
    <3>2. msg[j].cid # cid
      BY <1>2, <3>1 DEF TalkInv, Spoken
    <3> QED
      BY <1>1, <1>4, <1>5, <3>1, <3>2 DEF TalkInv, Spoken
  <2>3. ASSUME NEW j \in Isolates, drain'[j] = "forward"
        PROVE  /\ \A g \in Handlers : ~Carries(g, msg[j].cid)'
               /\ \A k \in Isolates : ~Completes(k, msg[j].cid)'
    <3>1. PICK c \in CIDs : c = msg'[j].cid /\ c = msg[j].cid
      BY <2>2, <2>3
    <3>2. /\ \A g \in Handlers : ~Carries(g, c)'
          /\ \A k \in Isolates : ~Completes(k, c)'
      BY <1>5, <2>2, <2>3, <3>1
    <3> QED
      BY <3>1, <3>2 DEF Carries, Completes
  <2>4. ASSUME NEW j \in Isolates, drain'[j] \in {"finish", "release", "respond"}
        PROVE  /\ msg'[j].to = msg'[j].cid
               /\ \/ host'[msg'[j].cid] = "compiling"
                  \/ host'[msg'[j].cid] = "asked" /\ msg'[j].kind = "response" /\ j \in shut'
    <3>1. drain[j] \in {"finish", "release", "respond"} /\ msg'[j] = msg[j] /\ shut' = shut
      BY <1>1, <1>4, <2>4
    <3>2. msg[j].cid \in CIDs /\ Completes(j, msg[j].cid)
      BY <3>1, MessageNames DEF Completes
    <3>3. host'[msg[j].cid] = host[msg[j].cid]
      BY <1>3, <1>4, <2>4, <3>2
    <3> QED
      BY <3>1, <3>3 DEF TalkInv, Spoken
  <2> QED
    BY <2>1, <2>2, <2>3, <2>4 DEF Spoken
<1>10. Ending'
  BY <1>1, <1>4 DEF TalkInv, Ending
<1> QED
  BY <1>8, <1>9, <1>10 DEF TalkInv

LEMMA FatalTalk ==
    ASSUME OwnershipInv, TalkInv, NEW i \in Isolates, WriteFatal(i) \/ ExitFatal(i)
    PROVE  TalkInv'
<1> USE DEF readerVars, processVars, handlerVars, poolVars, borrowVars, isoVars, drainVars
<1>1. /\ UNCHANGED <<reader, closed, pc, pkt, found, active, spawned, shut, iso, isoCid, out, msg,
                     host>>
      /\ \A j \in Isolates : j # i => drain'[j] = drain[j]
      /\ drain[i] \in {"fatal", "exit"} /\ drain'[i] = "exit"
  BY DEF WriteFatal, ExitFatal, OwnershipInv, TypeInv, TypeOK
<1>2. /\ \A j \in Isolates, c \in CIDs : /\ Runs(j, c)' <=> Runs(j, c)
                                         /\ Completes(j, c)' <=> Completes(j, c)
      /\ \A j \in Isolates : /\ Failed(j)' <=> Failed(j)
                             /\ Doomed(j)' <=> Doomed(j)
                             /\ GivesUp(j)' <=> GivesUp(j)
      /\ \A h \in Handlers, c \in CIDs : /\ Carries(h, c)' <=> Carries(h, c)
                                         /\ Answers(h, c)' <=> Answers(h, c)
  BY <1>1 DEF Runs, Failed, Carries, Answers, Completes, Doomed, GivesUp
<1>3. ASSUME NEW j, NEW c \in CIDs, Waits(j, c) PROVE Waits(j, c)' /\ j \in Isolates
  <2>1. CASE j = i
    <3>1. Doomed(i)
      BY <1>1 DEF Doomed, Failed
    <3> QED
      BY <1>1, <1>2, <1>3, <2>1, <3>1 DEF Waits
  <2>2. CASE j # i
    BY <1>1, <1>2, <1>3, <2>2 DEF Waits
  <2> QED
    BY <2>1, <2>2
<1>4. ASSUME NEW g \in Handlers, NEW c \in CIDs, NEW j, Meets(g, j, c) PROVE Meets(g, j, c)'
  <2>1. Waits(j, c)' /\ j \in Isolates /\ host' = host
    BY <1>1, <1>3, <1>4 DEF Meets
  <2> QED
    BY <1>2, <1>4, <2>1 DEF Meets
<1>5. Heard'
  <2>1. ASSUME NEW g \in Handlers, NEW c \in CIDs, Answers(g, c)'
        PROVE  /\ pc'[g] \in {"send", "put"} => found'[g] \in shut' \/ Meets(g, found[g], c)'
               /\ ~closed' => /\ Meets(g, active[c], c)'
                              /\ pc'[g] \in HasIsolate => found'[g] = active'[c]
    <3>1. Answers(g, c) /\ UNCHANGED <<pc, found, active, shut, closed>>
      BY <1>1, <1>2, <2>1
    <3>2. /\ pc[g] \in {"send", "put"} => found[g] \in shut \/ Meets(g, found[g], c)
          /\ ~closed => Meets(g, active[c], c) /\ (pc[g] \in HasIsolate => found[g] = active[c])
      BY <3>1 DEF TalkInv, Heard
    <3>3. \A j : Meets(g, j, c) => Meets(g, j, c)'
      BY <1>4
    <3> QED
      BY <3>1, <3>2, <3>3
  <2>2. \A g \in Handlers, c \in CIDs : Carries(g, c)' => host'[c] = "compiling"
    BY <1>1, <1>2 DEF TalkInv, Heard
  <2>3. ASSUME NEW c \in CIDs, host'[c] = "asked", ~closed' PROVE Waits(active[c], c)'
    <3>1. Waits(active[c], c) /\ active' = active
      BY <1>1, <2>3 DEF TalkInv, Heard
    <3> QED
      BY <1>3, <3>1
  <2> QED
    BY <2>1, <2>2, <2>3 DEF Heard
<1>6. Spoken'
  <2>1. ASSUME NEW j \in Isolates, NEW c \in CIDs, Runs(j, c)'
        PROVE  \/ host'[c] = "compiling"
               \/ host'[c] = "asked" /\ (iso'[j] = "await" \/ GivesUp(j)')
    BY <1>1, <1>2, <2>1 DEF TalkInv, Spoken
  <2>2. ASSUME NEW j \in Isolates, drain'[j] = "forward"
        PROVE  /\ msg'[j].to = msg'[j].cid /\ host'[msg'[j].cid] = "compiling"
               /\ active'[msg'[j].cid] = j /\ isoCid'[j] = msg'[j].cid /\ iso'[j] \in Working
               /\ msg'[j].kind = "request" => iso'[j] = "await" \/ Failed(j)' \/ GivesUp(j)'
               /\ \A g \in Handlers : ~Carries(g, msg[j].cid)'
               /\ \A k \in Isolates : ~Completes(k, msg[j].cid)'
    <3>1. drain[j] = "forward" /\ msg' = msg /\ msg[j].cid \in CIDs
      BY <1>1, <2>2, MessageNames
    <3>2. /\ \A k \in Isolates : ~Completes(k, msg[j].cid)'
          /\ \A g \in Handlers : ~Carries(g, msg[j].cid)'
      BY <1>2, <3>1 DEF TalkInv, Spoken
    <3> QED
      BY <1>1, <1>2, <3>1, <3>2 DEF TalkInv, Spoken
  <2>3. ASSUME NEW j \in Isolates, drain'[j] \in {"finish", "release", "respond"}
        PROVE  /\ msg'[j].to = msg'[j].cid
               /\ \/ host'[msg'[j].cid] = "compiling"
                  \/ host'[msg'[j].cid] = "asked" /\ msg'[j].kind = "response" /\ j \in shut'
    BY <1>1, <2>3 DEF TalkInv, Spoken
  <2>4. msg' = msg
    BY <1>1
  <2> QED
    BY <2>1, <2>2, <2>3, <2>4 DEF Spoken
<1>7. Ending'
  BY <1>1 DEF TalkInv, Ending
<1> QED
  BY <1>5, <1>6, <1>7 DEF TalkInv

LEMMA NextTalk ==
    ASSUME InTurn, OwnershipInv, TalkInv, [Next]_vars
    PROVE  TalkInv'
<1>1. ASSUME UNCHANGED vars PROVE TalkInv'
  <2> USE DEF vars, readerVars, handlerVars, poolVars, isoVars, drainVars
  <2>1. Heard'
    BY <1>1 DEF TalkInv, Heard, Meets, Waits, Doomed, Failed, Carries, Answers
  <2>2. Spoken'
    BY <1>1 DEF TalkInv, Spoken, Runs, Completes, Carries, GivesUp, Failed
  <2>3. Ending'
    BY <1>1 DEF TalkInv, Ending
  <2> QED
    BY <2>1, <2>2, <2>3 DEF TalkInv
<1>2. ASSUME NEW i \in Isolates, IsolateStep(i) PROVE TalkInv'
  BY <1>2, CompilationTalk, EmitTalk DEF IsolateStep
<1>3. ASSUME NEW i \in Isolates, DrainStep(i) PROVE TalkInv'
  BY <1>3, ForwardTalk, CompletionTalk, FatalTalk DEF DrainStep
<1> QED
  BY <1>1, <1>2, <1>3, ReaderTalk, HandlerTalk DEF Next, Ended

LEMMA TalkInductive == InTurn => (Spec => [](OwnershipInv /\ TalkInv))
<1> SUFFICES ASSUME InTurn PROVE Spec => [](OwnershipInv /\ TalkInv)
  OBVIOUS
<1>1. OwnershipInv /\ TalkInv /\ [Next]_vars => TalkInv'
  BY NextTalk
<1>2. Spec => []OwnershipInv
  BY InTurnIsDistinct, OwnershipInductive
<1> QED
  BY <1>1, <1>2, InitTalk, PTL DEF Spec

-----------------------------------------------------------------------------
(* A packet waiting in isolate.Send meets its own compilation, at the point  *)
(* of its conversation with the host it belongs to.                          *)
THEOREM PacketsMeet == InTurn => (Spec => []SingleInFlight)
<1>1. OwnershipInv /\ TalkInv => SingleInFlight
  <2> SUFFICES ASSUME OwnershipInv, TalkInv, NEW h \in Handlers, pc[h] = "put",
                      pkt[h].kind # "bad", found[h] \notin shut, ~Failed(found[h])
               PROVE  /\ active[pkt[h].cid] = found[h]
                      /\ \/ pkt[h].kind = "compile" /\ iso[found[h]] = "take"
                         \/ /\ pkt[h].kind = "answer" /\ iso[found[h]] = "await"
                            /\ isoCid[found[h]] = pkt[h].cid
    BY DEF SingleInFlight
  <2> DEFINE i == found[h]
             c == pkt[h].cid
  <2>1. pc[h] \in Routing /\ pc[h] \in HasIsolate /\ c \in CIDs /\ i \in Isolates
    BY DEF Routing, HasIsolate, OwnershipInv, TypeInv, Routed
  <2>2. pkt[h].kind \in {"compile", "answer"}
    BY <2>1, DispatcherConstants DEF OwnershipInv, TypeInv, TypeOK, Packets, NoPacket
  <2>3. CASE pkt[h].kind = "compile"
    <3>1. Carries(h, c) /\ active[c] = i
      BY <2>1, <2>3 DEF Carries, OwnershipInv, Bound
    <3>2. i \in spawned
      BY <2>1, <3>1, DispatcherConstants DEF OwnershipInv, Owned
    <3>3. iso[i] # "unspawned" /\ iso[i] # "exited"
      BY <2>1, <3>2 DEF TalkInv, Ending
    <3>4. iso[i] \notin Working
      <4> SUFFICES ASSUME iso[i] \in Working PROVE FALSE
        OBVIOUS
      <4>1. isoCid[i] \in CIDs /\ Runs(i, isoCid[i])
        BY <2>1 DEF Failed, Runs, Working, OwnershipInv, TypeInv, Routed
      <4>2. active[isoCid[i]] = i /\ \A g \in Handlers : ~Carries(g, isoCid[i])
        BY <2>1, <4>1, RunningIs
      <4>3. isoCid[i] = c
        BY <2>1, <3>1, <4>1, <4>2, OneServed
      <4> QED
        BY <3>1, <4>2, <4>3
    <3> QED
      BY <2>1, <2>3, <3>1, <3>3, <3>4 DEF Working, OwnershipInv, TypeInv, TypeOK
  <2>4. CASE pkt[h].kind = "answer"
    <3>1. Answers(h, c)
      BY <2>1, <2>4 DEF Answers
    <3>2. Meets(h, i, c)
      BY <2>1, <3>1 DEF TalkInv, Heard
    <3> QED
      BY <2>4, <3>2 DEF Meets, Waits, Doomed
  <2> QED
    BY <2>2, <2>3, <2>4
<1> QED
  BY <1>1, TalkInductive, PTL

(* What a drain is about to write is what the host waits for: no event of a  *)
(* compilation that has been answered, no second request before the answer   *)
(* to the first, one response.                                               *)
THEOREM WritesExpected == InTurn => (Spec => []OutboundProtocol)
<1>1. OwnershipInv /\ TalkInv => OutboundProtocol
  BY DEF TalkInv, Spoken, OutboundProtocol
<1> QED
  BY <1>1, TalkInductive, PTL

-----------------------------------------------------------------------------
(* A host that keeps to the protocol                                        *)

(* Version requests, packets no one can read and a broken stream may come   *)
(* in between.                                                              *)
OrderlyHost ==
    /\ HostSends \subseteq {"version", "malformed", "truncated"}
    /\ EofWhen # "any"

-----------------------------------------------------------------------------
(* What the two invariants say together                                     *)

LEMMA WorkingRuns ==
    ASSUME OwnershipInv, ConversationInv, NEW i \in Isolates, iso[i] \in Working
    PROVE  isoCid[i] \in CIDs /\ Runs(i, isoCid[i]) /\ iso[i] # "fail"
<1>1. isoCid[i] \in CIDs
  BY DEF OwnershipInv, TypeInv, Routed
<1>2. ~Failed(i)
  BY DEF ConversationInv, Faultless
<1> QED
  BY <1>1, <1>2 DEF Failed, Runs, Working

LEMMA RoutingIs ==
    ASSUME OwnershipInv, ConversationInv, NEW h \in Handlers, pc[h] \in Routing
    PROVE  /\ pkt[h].cid \in CIDs
           /\ Carries(h, pkt[h].cid) \/ Answers(h, pkt[h].cid)
           /\ pkt[h].kind = "compile" <=> Carries(h, pkt[h].cid)
           /\ host[pkt[h].cid] = "compiling" /\ closed = FALSE /\ shut = {}
<1>1. pkt[h].cid \in CIDs /\ pkt[h].kind \in {"compile", "answer"}
  BY DEF OwnershipInv, TypeInv, Routed, ConversationInv, Faultless
<1>2. /\ Carries(h, pkt[h].cid) \/ Answers(h, pkt[h].cid)
      /\ pkt[h].kind = "compile" <=> Carries(h, pkt[h].cid)
  BY <1>1 DEF Carries, Answers
<1>3. host[pkt[h].cid] = "compiling"
  BY <1>1, <1>2 DEF ConversationInv, Inbound
<1>4. ~Quiet
  BY <1>1, <1>3 DEF Quiet
<1>5. closed = FALSE /\ shut = {}
  BY <1>4 DEF ConversationInv, Lifetime, OwnershipInv, TypeInv, TypeOK
<1> QED
  BY <1>1, <1>2, <1>3, <1>5

LEMMA AwaitedIs ==
    ASSUME OwnershipInv, ConversationInv, NEW c \in CIDs, Awaited(c)
    PROVE  /\ active[c] \in Isolates /\ Runs(active[c], c)
           /\ iso[active[c]] = "await" /\ isoCid[active[c]] = c /\ drain[active[c]] = "idle"
BY DEF Awaited, OwnershipInv, TypeInv, TypeOK, Runs

LEMMA AnswersIs ==
    ASSUME OwnershipInv, ConversationInv, NEW h \in Handlers, NEW c \in CIDs, Answers(h, c)
    PROVE  /\ host[c] = "compiling" /\ Awaited(c)
           /\ pc[h] \in HasIsolate => found[h] = active[c]
           /\ \A g \in Handlers : Answers(g, c) => g = h
BY DEF ConversationInv, Inbound

(* A compile request on its way finds its isolate between compilations.     *)
LEMMA BoundTakes ==
    ASSUME OwnershipInv, ConversationInv, NEW h \in Handlers, NEW c \in CIDs,
           Carries(h, c), pc[h] \in HasIsolate
    PROVE  found[h] \in Isolates /\ active[c] = found[h] /\ iso[found[h]] = "take"
<1> DEFINE i == found[h]
<1>1. i \in Isolates /\ active[c] = i /\ i # None /\ pkt[h].cid = c /\ pc[h] \in Routing
  BY DispatcherConstants DEF OwnershipInv, TypeInv, Routed, Bound, Carries
<1>2. borrowed[i] /\ onData[i] = c
  BY <1>1 DEF OwnershipInv, Owned
<1>3. i \in spawned
  BY <1>1, <1>2 DEF OwnershipInv, Owned
<1>4. iso[i] # "unspawned" /\ iso[i] # "exited"
  BY <1>1, <1>3, RoutingIs DEF ConversationInv, Lifetime
<1>5. iso[i] \notin Working
  <2> SUFFICES ASSUME iso[i] \in Working PROVE FALSE
    OBVIOUS
  <2>1. isoCid[i] \in CIDs /\ Runs(i, isoCid[i])
    BY <1>1, WorkingRuns
  <2>2. onData[i] = isoCid[i]
    BY <1>1, <2>1, RunningIs
  <2> QED
    BY <1>1, <1>2, <2>1, <2>2, RunningIs
<1> QED
  BY <1>1, <1>4, <1>5 DEF Working, OwnershipInv, TypeInv, TypeOK

-----------------------------------------------------------------------------
(* The steps                                                                *)

LEMMA InitConversation == Init => ConversationInv
<1> SUFFICES ASSUME Init PROVE ConversationInv
  OBVIOUS
<1>1. Faultless
  BY DEF Init, Faultless, Failed, Routing
<1>2. Inbound
  BY DEF Init, Inbound, Carries, Answers, Routing
<1>3. Outbound
  BY DEF Init, Outbound, Runs
<1>4. Lifetime
  BY DEF Init, Lifetime
<1> QED
  BY <1>1, <1>2, <1>3, <1>4 DEF ConversationInv

(* What a step that touches no isolate, no drain and no binding keeps.      *)
LEMMA OutboundKept ==
    ASSUME Outbound, UNCHANGED <<active, iso, isoCid, out, drain, msg, host>>
    PROVE  Outbound'
BY DEF Outbound, Awaited, Runs

LEMMA ReadConversation ==
    ASSUME OrderlyHost, OwnershipInv, ConversationInv,
           NEW h \in Handlers, NEW p \in Packets, ReadPacket(h, p)
    PROVE  ConversationInv'
<1> USE DEF readerVars, processVars, handlerVars, poolVars, borrowVars, isoVars, drainVars
<1>1. /\ reader = "reading" /\ pc[h] = "idle"
      /\ pkt' = [pkt EXCEPT ![h] = p]
      /\ pc' = [pc EXCEPT ![h] = CASE p.kind = "malformed" -> "error"
                                   [] p.kind = "version"   -> "version"
                                   [] OTHER                -> "lookup"]
      /\ host' = IF Expected(p) THEN [host EXCEPT ![p.cid] = "compiling"] ELSE host
      /\ UNCHANGED <<reader, closed, found, active, spawned, shut, iso, isoCid, out, drain, msg>>
  BY DEF ReadPacket
<1>2. \/ p.kind \in {"version", "malformed"}
      \/ p.kind = "compile" /\ p.cid \in CIDs /\ host[p.cid] = "idle"
      \/ p.kind = "answer" /\ p.cid \in CIDs /\ host[p.cid] = "asked"
  BY DEF ReadPacket, HostPackets, MaySend, OrderlyHost, Packets
<1>3. ASSUME NEW g \in Handlers, g # h
      PROVE  /\ pc'[g] = pc[g] /\ pkt'[g] = pkt[g]
             /\ \A c \in CIDs : /\ Carries(g, c)' <=> Carries(g, c)
                                /\ Answers(g, c)' <=> Answers(g, c)
  BY <1>1, <1>3 DEF OwnershipInv, TypeInv, TypeOK, Carries, Answers
<1>4. /\ pkt'[h] = p /\ pc'[h] \notin HasIsolate
      /\ pc'[h] \in Routing <=> p.kind \in {"compile", "answer"}
      /\ \A c \in CIDs : /\ Carries(h, c)' <=> p.kind = "compile" /\ p.cid = c
                         /\ Answers(h, c)' <=> p.kind = "answer" /\ p.cid = c
  BY <1>1, <1>2 DEF OwnershipInv, TypeInv, TypeOK, Carries, Answers, Routing, HasIsolate
<1>5. /\ \A c \in CIDs : Awaited(c)' <=> Awaited(c)
      /\ \A i \in Isolates, c \in CIDs : Runs(i, c)' <=> Runs(i, c)
      /\ \A i \in Isolates : Failed(i)' <=> Failed(i)
  BY <1>1 DEF Awaited, Runs, Failed
<1>6. Faultless'
  BY <1>2, <1>3, <1>4, <1>5 DEF ConversationInv, Faultless
<1>7. ASSUME p.kind \in {"compile", "answer"}
      PROVE  /\ p.cid \in CIDs /\ host' = [host EXCEPT ![p.cid] = "compiling"]
             /\ host[p.cid] # "compiling"
  BY <1>1, <1>2, <1>7 DEF Expected
<1>8. /\ p.kind \notin {"compile", "answer"} => host' = host
      /\ \A c \in CIDs : host'[c] = host[c] \/ (host'[c] = "compiling" /\ c = p.cid)
      /\ p.kind \in {"compile", "answer"} => host'[p.cid] = "compiling"
  <2>1. p.kind \notin {"compile", "answer"} => host' = host
    BY <1>1 DEF Expected
  <2> QED
    BY <1>7, <2>1 DEF OwnershipInv, TypeInv, TypeOK
<1>9. Inbound'
  <2>1. ASSUME NEW g \in Handlers, NEW c \in CIDs, Carries(g, c)' PROVE host'[c] = "compiling"
    BY <1>3, <1>4, <1>8, <2>1 DEF ConversationInv, Inbound
  <2>2. ASSUME NEW g \in Handlers, NEW c \in CIDs, Answers(g, c)'
        PROVE  /\ host'[c] = "compiling" /\ Awaited(c)'
               /\ pc'[g] \in HasIsolate => found'[g] = active'[c]
               /\ \A f \in Handlers : Answers(f, c)' => f = g
    <3>1. CASE g = h
      <4>1. p.kind = "answer" /\ p.cid = c /\ host[c] = "asked"
        BY <1>2, <1>4, <2>2, <3>1
      <4>2. Awaited(c) /\ host'[c] = "compiling"
        BY <1>8, <4>1 DEF ConversationInv, Outbound
      <4>3. \A f \in Handlers : ~Answers(f, c)
        BY <4>1, AnswersIs
      <4> QED
        BY <1>3, <1>4, <1>5, <3>1, <4>2, <4>3
    <3>2. CASE g # h
      <4>1. Answers(g, c)
        BY <1>3, <2>2, <3>2
      <4>2. host[c] = "compiling" /\ host'[c] = "compiling" /\ ~Answers(h, c)'
        BY <1>2, <1>4, <1>8, <4>1, AnswersIs
      <4> QED
        BY <1>1, <1>3, <1>5, <3>2, <4>1, <4>2, AnswersIs
    <3> QED
      BY <3>1, <3>2
  <2> QED
    BY <2>1, <2>2 DEF Inbound
<1>10. Outbound'
  <2>1. \A c \in CIDs : host'[c] = "asked" => Awaited(c)'
    BY <1>5, <1>8 DEF ConversationInv, Outbound
  <2>2. \A i \in Isolates, c \in CIDs : Runs(i, c)' /\ iso'[i] # "await" => host'[c] = "compiling"
    BY <1>1, <1>5, <1>8 DEF ConversationInv, Outbound
  <2>3. \A i \in Isolates : drain[i] # "idle" => msg[i].cid \in CIDs
    BY DEF OwnershipInv, TypeInv, Routed, Messages
  <2>4. \A i \in Isolates : drain'[i] = "forward" =>
          /\ host'[msg'[i].cid] = "compiling" /\ msg'[i].to = msg'[i].cid
          /\ Runs(i, msg[i].cid)'
          /\ msg'[i].kind = "request" => iso'[i] = "await"
    BY <1>1, <1>5, <1>8, <2>3 DEF ConversationInv, Outbound
  <2>5. \A i \in Isolates : drain'[i] \in {"finish", "release", "respond"} =>
          /\ host'[msg'[i].cid] = "compiling" /\ msg'[i].to = msg'[i].cid
          /\ drain'[i] # "finish" => active'[msg'[i].cid] = None
    BY <1>1, <1>8, <2>3 DEF ConversationInv, Outbound
  <2>6. \A c \in CIDs : active'[c] # None => host'[c] # "idle"
    BY <1>1, <1>8 DEF ConversationInv, Outbound
  <2>7. msg' = msg
    BY <1>1
  <2> QED
    BY <2>1, <2>2, <2>4, <2>5, <2>6, <2>7 DEF Outbound
<1>11. Lifetime'
  BY <1>1 DEF ConversationInv, Lifetime
<1> QED
  BY <1>6, <1>9, <1>10, <1>11 DEF ConversationInv

LEMMA ReaderConversation ==
    ASSUME OrderlyHost, OwnershipInv, ConversationInv, ReaderStep
    PROVE  ConversationInv'
<1> USE DEF readerVars, processVars, handlerVars, poolVars, borrowVars, isoVars, drainVars
<1>1. CASE \E h \in Handlers, p \in Packets : ReadPacket(h, p)
  BY <1>1, ReadConversation
<1>2. CASE \/ ReadEof \/ RangeIsolates \/ (\E i \in Isolates : Kill(i)) \/ WaitHandlers
           \/ ReturnFromRun \/ ReadFails \/ ExitOnReadError
  <2>1. UNCHANGED <<pc, pkt, found, active, spawned, iso, isoCid, out, drain, msg, host>>
    BY <1>2 DEF ReadEof, RangeIsolates, Kill, WaitHandlers, ReturnFromRun, ReadFails,
       ExitOnReadError
  <2>2. Faultless'
    BY <2>1 DEF ConversationInv, Faultless, Failed
  <2>3. Inbound'
    BY <2>1 DEF ConversationInv, Inbound, Carries, Answers, Awaited
  <2>4. Outbound'
    BY <2>1, OutboundKept DEF ConversationInv
  <2>5. Lifetime'
    <3>1. Quiet' <=> Quiet
      BY <2>1 DEF Quiet
    <3>2. CASE ReadEof
      <4>1. reader' = "closing" /\ Quiet
        BY <3>2 DEF ReadEof, EofPossible, OrderlyHost, Quiet
      <4> QED
        BY <2>1, <3>1, <3>2, <4>1 DEF ReadEof, ConversationInv, Lifetime
    <3>3. CASE \/ RangeIsolates \/ (\E i \in Isolates : Kill(i)) \/ WaitHandlers
               \/ ReturnFromRun \/ ReadFails \/ ExitOnReadError
      BY <2>1, <3>1, <3>3 DEF RangeIsolates, Kill, WaitHandlers, ReturnFromRun, ReadFails,
         ExitOnReadError, ConversationInv, Lifetime
    <3> QED
      BY <1>2, <3>2, <3>3
  <2> QED
    BY <2>2, <2>3, <2>4, <2>5 DEF ConversationInv
<1> QED
  BY <1>1, <1>2 DEF ReaderStep

(* A step of a handler that leaves the pool alone.                          *)
LEMMA HandlerTalks ==
    ASSUME OwnershipInv, ConversationInv, NEW h \in Handlers,
           pc' = [pc EXCEPT ![h] = pc'[h]],
           pkt' = [pkt EXCEPT ![h] = pkt'[h]],
           found' = [found EXCEPT ![h] = found'[h]],
           pc'[h] \in Routing => pc[h] \in Routing /\ pkt'[h] = pkt[h],
           pc'[h] \in HasIsolate => \/ found'[h] = active[pkt[h].cid]
                                    \/ pc[h] \in HasIsolate /\ found'[h] = found[h],
           UNCHANGED <<reader, closed, active, spawned, shut, iso, isoCid, out, drain, msg, host>>
    PROVE  ConversationInv'
<1>1. \A g \in Handlers : g # h => pc'[g] = pc[g] /\ pkt'[g] = pkt[g] /\ found'[g] = found[g]
  BY DEF OwnershipInv, TypeInv, TypeOK
<1>2. /\ \A g \in Handlers, c \in CIDs : Carries(g, c)' => Carries(g, c)
      /\ \A g \in Handlers, c \in CIDs : Answers(g, c)' => Answers(g, c)
  BY <1>1 DEF Carries, Answers
<1>3. /\ \A c \in CIDs : Awaited(c)' <=> Awaited(c)
      /\ \A i \in Isolates : Failed(i)' <=> Failed(i)
  BY DEF Awaited, Failed
<1>4. Faultless'
  BY <1>1, <1>3 DEF ConversationInv, Faultless
<1>5. Inbound'
  <2>1. ASSUME NEW g \in Handlers, NEW c \in CIDs, Answers(g, c)', pc'[g] \in HasIsolate
        PROVE  found'[g] = active'[c]
    <3>1. Answers(g, c) /\ pkt[g].cid = c
      BY <1>2, <2>1 DEF Answers
    <3> QED
      BY <1>1, <2>1, <3>1, AnswersIs
  <2>2. \A g \in Handlers, c \in CIDs : Answers(g, c)' =>
          /\ host'[c] = "compiling" /\ Awaited(c)'
          /\ \A f \in Handlers : Answers(f, c)' => f = g
    BY <1>2, <1>3, AnswersIs
  <2>3. \A g \in Handlers, c \in CIDs : Carries(g, c)' => host'[c] = "compiling"
    BY <1>2 DEF ConversationInv, Inbound
  <2> QED
    BY <2>1, <2>2, <2>3 DEF Inbound
<1>6. Outbound'
  BY OutboundKept DEF ConversationInv
<1>7. Lifetime'
  BY DEF ConversationInv, Lifetime, Quiet
<1> QED
  BY <1>4, <1>5, <1>6, <1>7 DEF ConversationInv

(* getIsolate binds a compilation that has just been asked for to an        *)
(* isolate that serves none.                                                *)
LEMMA BorrowConversation ==
    ASSUME OwnershipInv, ConversationInv, NEW h \in Handlers, NEW i \in Isolates,
           BorrowIsolate(h, i)
    PROVE  ConversationInv'
<1> USE DEF readerVars, processVars, handlerVars, poolVars, borrowVars, isoVars, drainVars
<1> DEFINE cid == pkt[h].cid
<1>1. ~borrowed[i]
  BY FreeIsolate DEF BorrowIsolate
<1>2. /\ pc[h] = "borrow" /\ active[cid] = None
      /\ pc' = [pc EXCEPT ![h] = "check"]
      /\ active' = [active EXCEPT ![cid] = i]
      /\ found' = [found EXCEPT ![h] = i]
      /\ UNCHANGED <<reader, closed, pkt, shut, isoCid, out, drain, msg, host>>
  BY <1>1 DEF BorrowIsolate
<1>3. pc[h] \in Routing
  BY <1>2 DEF Routing
<1>4. /\ cid \in CIDs /\ Carries(h, cid) /\ host[cid] = "compiling"
      /\ \A g \in Handlers : ~Answers(g, cid)
  <2>1. cid \in CIDs /\ (Carries(h, cid) \/ Answers(h, cid)) /\ host[cid] = "compiling"
    BY <1>3, RoutingIs
  <2>2. \A g \in Handlers : ~Answers(g, cid)
    BY <1>2, <2>1, AnswersIs DEF Awaited
  <2> QED
    BY <2>1, <2>2
<1>5. \A j \in Isolates : ~Runs(j, cid) /\ ~Completes(j, cid)
  BY <1>4 DEF OwnershipInv, OneThread
<1>6. /\ \A c \in CIDs : active'[c] = IF c = cid THEN i ELSE active[c]
      /\ i # None /\ \A c \in CIDs : active[c] # i
  <2>1. \A c \in CIDs : active'[c] = IF c = cid THEN i ELSE active[c]
    BY <1>2, <1>4 DEF OwnershipInv, TypeInv, TypeOK
  <2> QED
    BY <1>1, <2>1, DispatcherConstants DEF OwnershipInv, Owned
<1>7. \A c \in CIDs : ~Runs(i, c)
  BY <1>6, RunningIs
<1>8. /\ \A j \in Isolates : j # i => iso'[j] = iso[j]
      /\ iso'[i] = iso[i] \/ iso'[i] = "take"
      /\ \A j \in spawned' : j \in spawned \/ (j = i /\ iso'[i] = "take")
  <2>1. CASE Reuse(i)
    BY <2>1 DEF Reuse
  <2>2. CASE Spawn(i)
    BY <2>2 DEF Spawn, OwnershipInv, TypeInv, TypeOK
  <2> QED
    BY <2>1, <2>2 DEF BorrowIsolate
<1>9. /\ \A j \in Isolates, c \in CIDs : Runs(j, c)' => Runs(j, c) /\ iso'[j] = iso[j]
      /\ \A j \in Isolates, c \in CIDs : Runs(j, c) => Runs(j, c)' /\ iso'[j] = iso[j]
      /\ \A c \in CIDs : Awaited(c) => Awaited(c)'
  <2>1. \A j \in Isolates, c \in CIDs : Runs(j, c)' => Runs(j, c) /\ iso'[j] = iso[j]
    BY <1>2, <1>7, <1>8 DEF Runs
  <2>2. \A j \in Isolates, c \in CIDs : Runs(j, c) => Runs(j, c)' /\ iso'[j] = iso[j]
    BY <1>2, <1>7, <1>8 DEF Runs
  <2>3. ASSUME NEW c \in CIDs, Awaited(c) PROVE Awaited(c)'
    <3>1. c # cid /\ active[c] # i /\ active[c] \in Isolates
      BY <1>2, <1>6, <2>3, AwaitedIs DEF Awaited
    <3> QED
      BY <1>2, <1>6, <1>8, <2>3, <3>1 DEF Awaited
  <2> QED
    BY <2>1, <2>2, <2>3
<1>10. \A g \in Handlers, c \in CIDs : /\ Carries(g, c)' => Carries(g, c)
                                       /\ Answers(g, c)' => Answers(g, c) /\ g # h /\ c # cid
                                                              /\ pc'[g] = pc[g] /\ found'[g] = found[g]
  <2>1. \A g \in Handlers : g # h => pc'[g] = pc[g] /\ found'[g] = found[g]
    BY <1>2 DEF OwnershipInv, TypeInv, TypeOK
  <2>2. pkt[h].kind = "compile"
    BY <1>4 DEF Carries
  <2> QED
    BY <1>2, <1>3, <1>4, <2>1, <2>2 DEF Carries, Answers
<1>11. Faultless'
  <2>1. \A g \in Handlers : pc'[g] \in Routing => pc[g] \in Routing
    BY <1>2, <1>3 DEF OwnershipInv, TypeInv, TypeOK
  <2>2. \A j \in Isolates : Failed(j)' => Failed(j)
    BY <1>2, <1>8 DEF Failed
  <2> QED
    BY <1>2, <2>1, <2>2 DEF ConversationInv, Faultless
<1>12. Inbound'
  <2>1. \A g \in Handlers, c \in CIDs : Carries(g, c)' => host'[c] = "compiling"
    BY <1>2, <1>10 DEF ConversationInv, Inbound
  <2>2. ASSUME NEW g \in Handlers, NEW c \in CIDs, Answers(g, c)'
        PROVE  /\ host'[c] = "compiling" /\ Awaited(c)'
               /\ pc'[g] \in HasIsolate => found'[g] = active'[c]
               /\ \A f \in Handlers : Answers(f, c)' => f = g
    BY <1>2, <1>6, <1>9, <1>10, <2>2, AnswersIs
  <2> QED
    BY <2>1, <2>2 DEF Inbound
<1>13. Outbound'
  <2>1. \A j \in Isolates : drain[j] # "idle" => msg[j].cid \in CIDs
    BY DEF OwnershipInv, TypeInv, Routed, Messages
  <2>2. /\ \A c \in CIDs : host'[c] = "asked" => Awaited(c)'
        /\ \A j \in Isolates, c \in CIDs : Runs(j, c)' /\ iso'[j] # "await" => host'[c] = "compiling"
    BY <1>2, <1>9 DEF ConversationInv, Outbound
  <2>3. ASSUME NEW j \in Isolates, drain'[j] = "forward"
        PROVE  /\ host'[msg'[j].cid] = "compiling" /\ msg'[j].to = msg'[j].cid
               /\ Runs(j, msg[j].cid)'
               /\ msg'[j].kind = "request" => iso'[j] = "await"
    BY <1>2, <1>9, <2>1, <2>3 DEF ConversationInv, Outbound
  <2>4. ASSUME NEW j \in Isolates, drain'[j] \in {"finish", "release", "respond"}
        PROVE  /\ host'[msg'[j].cid] = "compiling" /\ msg'[j].to = msg'[j].cid
               /\ drain'[j] # "finish" => active'[msg'[j].cid] = None
    <3>1. Completes(j, msg[j].cid) /\ msg[j].cid \in CIDs
      BY <1>2, <2>1, <2>4 DEF Completes
    <3>2. msg[j].cid # cid
      BY <1>5, <3>1
    <3> QED
      BY <1>2, <1>6, <2>4, <3>1, <3>2 DEF ConversationInv, Outbound
  <2>5. \A c \in CIDs : active'[c] # None => host'[c] # "idle"
    BY <1>2, <1>4, <1>6 DEF ConversationInv, Outbound
  <2>6. msg' = msg
    BY <1>2
  <2> QED
    BY <2>2, <2>3, <2>4, <2>5, <2>6 DEF Outbound
<1>14. Lifetime'
  <2>1. Quiet' <=> Quiet
    BY <1>2 DEF Quiet
  <2> QED
    BY <1>2, <1>8, <2>1 DEF ConversationInv, Lifetime, OwnershipInv, TypeInv, TypeOK
<1> QED
  BY <1>11, <1>12, <1>13, <1>14 DEF ConversationInv

(* Put and Take meet: a compile request finds an isolate between            *)
(* compilations, an answer the callback that asked.                         *)
LEMMA DeliverConversation ==
    ASSUME OwnershipInv, ConversationInv, NEW h \in Handlers, NEW i \in Isolates, Deliver(h, i)
    PROVE  ConversationInv'
<1> USE DEF readerVars, processVars, handlerVars, poolVars, borrowVars, isoVars, drainVars
<1> DEFINE cid == pkt[h].cid
<1>1. /\ pc[h] = "put" /\ i = found[h]
      /\ pc' = [pc EXCEPT ![h] = "idle"]
      /\ pkt' = [pkt EXCEPT ![h] = NoPacket]
      /\ found' = [found EXCEPT ![h] = None]
      /\ UNCHANGED <<reader, closed, active, spawned, shut, out, drain, msg, host>>
  BY DEF Deliver, Free
<1>2. pc[h] \in Routing /\ pc[h] \in HasIsolate
  BY <1>1 DEF Routing, HasIsolate
<1>3. cid \in CIDs /\ host[cid] = "compiling" /\ active[cid] = i /\ i # None
  <2>1. cid \in CIDs /\ host[cid] = "compiling" /\ (Carries(h, cid) \/ Answers(h, cid))
    BY <1>2, RoutingIs
  <2>2. active[cid] = i
    BY <1>1, <1>2, <2>1, BoundTakes, AnswersIs
  <2> QED
    BY <2>1, <2>2, DispatcherConstants
<1>4. /\ iso' = [iso EXCEPT ![i] = "run"]
      /\ isoCid' = [isoCid EXCEPT ![i] = cid]
      /\ drain[i] = "forward" => FALSE
      /\ \A c \in CIDs : Awaited(c) /\ active[c] = i => c = cid /\ Answers(h, cid)
  <2>1. CASE Carries(h, cid)
    <3>1. pkt[h].kind = "compile" /\ iso[i] = "take"
      BY <1>1, <1>2, <1>3, <2>1, BoundTakes DEF Carries
    <3>2. \A c \in CIDs : ~Runs(i, c)
      BY <3>1 DEF Runs
    <3>3. drain[i] # "forward"
      BY <3>2 DEF ConversationInv, Outbound, OwnershipInv, TypeInv, Routed, Messages
    <3> QED
      BY <3>1, <3>3 DEF Deliver, Awaited
  <2>2. CASE Answers(h, cid)
    <3>1. /\ pkt[h].kind = "answer" /\ iso[i] = "await" /\ isoCid[i] = cid /\ drain[i] = "idle"
      BY <1>3, <2>2, AnswersIs, AwaitedIs DEF Answers
    <3>2. iso' = [iso EXCEPT ![i] = "run"] /\ isoCid' = [isoCid EXCEPT ![i] = cid]
      BY <1>3, <3>1 DEF Deliver, OwnershipInv, TypeInv, TypeOK
    <3> QED
      BY <2>2, <3>1, <3>2 DEF Awaited
  <2> QED
    BY <1>2, <2>1, <2>2, RoutingIs
<1>5. /\ \A j \in Isolates : j # i => iso'[j] = iso[j] /\ isoCid'[j] = isoCid[j]
      /\ iso'[i] = "run" /\ isoCid'[i] = cid
  BY <1>4 DEF OwnershipInv, TypeInv, TypeOK
<1>6. /\ \A j \in Isolates, c \in CIDs : j # i => (Runs(j, c)' <=> Runs(j, c))
      /\ \A c \in CIDs : Runs(i, c)' <=> c = cid
      /\ \A c \in CIDs : Awaited(c) /\ active[c] # i => Awaited(c)'
      /\ \A j \in Isolates : Failed(j)' => Failed(j)
  <2>1. \A j \in Isolates, c \in CIDs : j # i => (Runs(j, c)' <=> Runs(j, c))
    BY <1>1, <1>5 DEF Runs
  <2>2. \A c \in CIDs : Runs(i, c)' <=> c = cid
    BY <1>5 DEF Runs
  <2>3. ASSUME NEW c \in CIDs, Awaited(c), active[c] # i PROVE Awaited(c)'
    <3>1. active[c] \in Isolates
      BY <2>3, AwaitedIs
    <3> QED
      BY <1>1, <1>5, <2>3, <3>1 DEF Awaited
  <2>4. \A j \in Isolates : Failed(j)' => Failed(j)
    BY <1>1, <1>5 DEF Failed
  <2> QED
    BY <2>1, <2>2, <2>3, <2>4
<1>7. \A g \in Handlers, c \in CIDs : /\ Carries(g, c)' => Carries(g, c)
                                      /\ Answers(g, c)' => Answers(g, c) /\ g # h
                                                             /\ pc'[g] = pc[g] /\ found'[g] = found[g]
  <2>1. /\ \A g \in Handlers : g # h => pc'[g] = pc[g] /\ pkt'[g] = pkt[g] /\ found'[g] = found[g]
        /\ pc'[h] = "idle"
    BY <1>1 DEF OwnershipInv, TypeInv, TypeOK
  <2> QED
    BY <2>1 DEF Carries, Answers, Routing
<1>8. Faultless'
  <2>1. \A g \in Handlers : pc'[g] \in Routing => pc[g] \in Routing /\ pkt'[g] = pkt[g]
    BY <1>1 DEF OwnershipInv, TypeInv, TypeOK, Routing
  <2> QED
    BY <1>6, <2>1 DEF ConversationInv, Faultless
<1>9. Inbound'
  <2>1. \A g \in Handlers, c \in CIDs : Carries(g, c)' => host'[c] = "compiling"
    BY <1>1, <1>7 DEF ConversationInv, Inbound
  <2>2. ASSUME NEW g \in Handlers, NEW c \in CIDs, Answers(g, c)'
        PROVE  /\ host'[c] = "compiling" /\ Awaited(c)'
               /\ pc'[g] \in HasIsolate => found'[g] = active'[c]
               /\ \A f \in Handlers : Answers(f, c)' => f = g
    <3>1. Answers(g, c) /\ g # h
      BY <1>7, <2>2
    <3>2. /\ host[c] = "compiling" /\ Awaited(c)
          /\ pc[g] \in HasIsolate => found[g] = active[c]
          /\ \A f \in Handlers : Answers(f, c) => f = g
      BY <3>1, AnswersIs
    <3>3. active[c] # i
      BY <1>4, <3>1, <3>2
    <3> QED
      BY <1>1, <1>6, <1>7, <2>2, <3>2, <3>3
  <2> QED
    BY <2>1, <2>2 DEF Inbound
<1>10. Outbound'
  <2>1. ASSUME NEW c \in CIDs, host'[c] = "asked" PROVE Awaited(c)'
    <3>1. Awaited(c) /\ c # cid
      BY <1>1, <1>3, <2>1 DEF ConversationInv, Outbound
    <3> QED
      BY <1>4, <1>6, <3>1
  <2>2. \A j \in Isolates, c \in CIDs : Runs(j, c)' /\ iso'[j] # "await" => host'[c] = "compiling"
    BY <1>1, <1>3, <1>5, <1>6 DEF ConversationInv, Outbound
  <2>3. \A j \in Isolates : drain[j] # "idle" => msg[j].cid \in CIDs
    BY DEF OwnershipInv, TypeInv, Routed, Messages
  <2>4. ASSUME NEW j \in Isolates, drain'[j] = "forward"
        PROVE  /\ host'[msg'[j].cid] = "compiling" /\ msg'[j].to = msg'[j].cid
               /\ Runs(j, msg[j].cid)'
               /\ msg'[j].kind = "request" => iso'[j] = "await"
    <3>1. j # i /\ drain[j] = "forward"
      BY <1>1, <1>4, <2>4
    <3>2. msg' = msg /\ msg[j].cid \in CIDs
      BY <1>1, <2>3, <3>1
    <3> QED
      BY <1>1, <1>5, <1>6, <3>1, <3>2 DEF ConversationInv, Outbound
  <2>5. msg' = msg
    BY <1>1
  <2> QED
    BY <1>1, <2>1, <2>2, <2>4, <2>5 DEF ConversationInv, Outbound
<1>11. Lifetime'
  <2>1. Quiet' <=> Quiet
    BY <1>1 DEF Quiet
  <2> QED
    BY <1>1, <1>5, <2>1 DEF ConversationInv, Lifetime, OwnershipInv, TypeInv, TypeOK
<1> QED
  BY <1>8, <1>9, <1>10, <1>11 DEF ConversationInv

LEMMA HandlerConversation ==
    ASSUME OwnershipInv, ConversationInv, NEW h \in Handlers, HandlerStep(h)
    PROVE  ConversationInv'
<1> USE DEF readerVars, processVars, handlerVars, poolVars, borrowVars, isoVars, drainVars
<1> USE DEF Free
<1>1. /\ pkt = [pkt EXCEPT ![h] = pkt[h]] /\ found = [found EXCEPT ![h] = found[h]]
      /\ h \in DOMAIN pc /\ h \in DOMAIN pkt /\ h \in DOMAIN found
  BY DEF OwnershipInv, TypeInv, TypeOK
<1>2. CASE LookUp(h) \/ LoseRace(h)
  <2>1. PICK x : /\ pc' = [pc EXCEPT ![h] = x]
                 /\ found' = [found EXCEPT ![h] = active[pkt[h].cid]]
                 /\ pc[h] \in Routing
    BY <1>2 DEF LookUp, LoseRace, Routing
  <2>2. UNCHANGED <<pkt, reader, closed, active, spawned, shut, iso, isoCid, out, drain, msg, host>>
    BY <1>2 DEF LookUp, LoseRace
  <2> QED
    BY <1>1, <2>1, <2>2, HandlerTalks
<1>3. CASE AcquireToken(h) \/ GiveBack(h) \/ CheckBorrowed(h)
  <2>1. PICK x : /\ pc' = [pc EXCEPT ![h] = x]
                 /\ x \in HasIsolate => pc[h] \in HasIsolate
                 /\ pc[h] \in Routing
    BY <1>3 DEF AcquireToken, GiveBack, CheckBorrowed, Routing, HasIsolate
  <2>2. UNCHANGED <<pkt, found, reader, closed, active, spawned, shut, iso, isoCid, out, drain,
                    msg, host>>
    BY <1>3 DEF AcquireToken, GiveBack, CheckBorrowed
  <2> QED
    BY <1>1, <2>1, <2>2, HandlerTalks
<1>4. CASE CheckClosed(h)
  <2>1. pc[h] \in Routing /\ pc[h] \in HasIsolate
    BY <1>4 DEF CheckClosed, Routing, HasIsolate
  <2>2. closed = FALSE
    BY <2>1, RoutingIs
  <2>3. /\ pc' = [pc EXCEPT ![h] = "send"]
        /\ UNCHANGED <<pkt, found, reader, closed, active, spawned, shut, iso, isoCid, out, drain,
                       msg, host>>
    BY <1>4, <2>2 DEF CheckClosed
  <2> QED
    BY <1>1, <2>1, <2>3, HandlerTalks
<1>5. CASE AnswerVersion(h) \/ ReportError(h)
  <2>1. /\ pc' = [pc EXCEPT ![h] = "idle"]
        /\ pkt' = [pkt EXCEPT ![h] = NoPacket]
        /\ found' = [found EXCEPT ![h] = None]
        /\ UNCHANGED <<reader, closed, active, spawned, shut, iso, isoCid, out, drain, msg, host>>
    BY <1>5 DEF AnswerVersion, ReportError
  <2>2. "idle" \notin Routing /\ "idle" \notin HasIsolate
    BY DEF Routing, HasIsolate
  <2> QED
    BY <1>1, <2>1, <2>2, HandlerTalks
<1>6. CASE PutPanics(h)
  <2>1. pc[h] \in Routing /\ shut # {}
    BY <1>6 DEF PutPanics, Routing
  <2> QED
    BY <2>1, RoutingIs
<1> QED
  BY <1>2, <1>3, <1>4, <1>5, <1>6, BorrowConversation, DeliverConversation DEF HandlerStep

(* What a compilation writes meets its drain, which learns from the         *)
(* subscribed callback whom it is for.                                      *)
LEMMA EmitConversation ==
    ASSUME OwnershipInv, ConversationInv, NEW i \in Isolates, Emit(i)
    PROVE  ConversationInv'
<1> USE DEF readerVars, processVars, handlerVars, poolVars, borrowVars, isoVars, drainVars
<1> DEFINE cid == isoCid[i]
<1>1. iso[i] = "emit" /\ drain[i] = "idle" /\ iso[i] \in Working
  BY DEF Emit, Working
<1>2. cid \in CIDs /\ Runs(i, cid) /\ onData[i] = cid /\ out[i] \in {"log", "request", "response"}
  <2>1. cid \in CIDs /\ Runs(i, cid)
    BY <1>1, WorkingRuns
  <2>2. out[i] \in OutKinds /\ out[i] # "error"
    BY <1>1, <2>1 DEF OwnershipInv, TypeInv, Routed, Runs
  <2> QED
    BY <2>1, <2>2, RunningIs DEF OutKinds
<1>3. host[cid] = "compiling" /\ active[cid] = i /\ \A c \in CIDs : Runs(i, c) => c = cid
  BY <1>1, <1>2, RunningIs DEF ConversationInv, Outbound
<1>4. PICK d, s :
        /\ drain' = [drain EXCEPT ![i] = d]
        /\ msg' = [msg EXCEPT ![i] = [kind |-> out[i], cid |-> cid, to |-> cid]]
        /\ iso' = [iso EXCEPT ![i] = s]
        /\ \/ out[i] = "log" /\ d = "forward" /\ s = "run"
           \/ out[i] = "request" /\ d = "forward" /\ s = "await"
           \/ out[i] = "response" /\ d = "finish" /\ s = "take"
        /\ out' = [out EXCEPT ![i] = "none"]
        /\ UNCHANGED <<reader, closed, pc, pkt, found, active, spawned, shut, isoCid, host>>
  BY <1>2 DEF Emit
<1>5. /\ iso'[i] = s /\ drain'[i] = d
      /\ msg'[i] = [kind |-> out[i], cid |-> cid, to |-> cid]
      /\ \A j \in Isolates : j # i => /\ iso'[j] = iso[j] /\ drain'[j] = drain[j]
                                      /\ msg'[j] = msg[j] /\ out'[j] = out[j]
  BY <1>4 DEF OwnershipInv, TypeInv, TypeOK
<1>6. /\ \A j \in Isolates, c \in CIDs : j # i => (Runs(j, c)' <=> Runs(j, c))
      /\ \A c \in CIDs : Runs(i, c)' => c = cid
      /\ d = "forward" => Runs(i, cid)'
      /\ \A j \in Isolates : Failed(j)' => Failed(j)
  <2>1. \A j \in Isolates, c \in CIDs : j # i => (Runs(j, c)' <=> Runs(j, c))
    BY <1>4, <1>5 DEF Runs
  <2>2. /\ \A c \in CIDs : Runs(i, c)' => c = cid
        /\ d = "forward" => Runs(i, cid)'
    BY <1>4, <1>5 DEF Runs
  <2>3. \A j \in Isolates : Failed(j)' => Failed(j)
    BY <1>4, <1>5 DEF Failed
  <2> QED
    BY <2>1, <2>2, <2>3
<1>7. ASSUME NEW c \in CIDs, Awaited(c) PROVE Awaited(c)' /\ c # cid
  <2>1. active[c] \in Isolates /\ active[c] # i /\ c # cid
    BY <1>1, <1>3, <1>7, AwaitedIs
  <2> QED
    BY <1>4, <1>5, <1>7, <2>1 DEF Awaited
<1>8. Faultless'
  BY <1>4, <1>6 DEF ConversationInv, Faultless
<1>9. Inbound'
  <2>1. \A h \in Handlers, c \in CIDs : /\ Carries(h, c)' <=> Carries(h, c)
                                        /\ Answers(h, c)' <=> Answers(h, c)
    BY <1>4 DEF Carries, Answers
  <2> QED
    BY <1>4, <1>7, <2>1 DEF ConversationInv, Inbound
<1>10. Outbound'
  <2>1. \A c \in CIDs : host'[c] = "asked" => Awaited(c)'
    BY <1>4, <1>7 DEF ConversationInv, Outbound
  <2>2. \A j \in Isolates, c \in CIDs : Runs(j, c)' /\ iso'[j] # "await" => host'[c] = "compiling"
    BY <1>3, <1>4, <1>5, <1>6 DEF ConversationInv, Outbound
  <2>3. \A j \in Isolates : drain[j] # "idle" => msg[j].cid \in CIDs
    BY DEF OwnershipInv, TypeInv, Routed, Messages
  <2>4. ASSUME NEW j \in Isolates, drain'[j] = "forward"
        PROVE  /\ host'[msg'[j].cid] = "compiling" /\ msg'[j].to = msg'[j].cid
               /\ Runs(j, msg[j].cid)'
               /\ msg'[j].kind = "request" => iso'[j] = "await"
    <3>1. CASE j = i
      BY <1>3, <1>4, <1>5, <1>6, <2>4, <3>1
    <3>2. CASE j # i
      <4>1. drain[j] = "forward" /\ msg[j].cid \in CIDs
        BY <1>5, <2>3, <2>4, <3>2
      <4> QED
        BY <1>4, <1>5, <1>6, <3>2, <4>1 DEF ConversationInv, Outbound
    <3> QED
      BY <3>1, <3>2
  <2>5. ASSUME NEW j \in Isolates, drain'[j] \in {"finish", "release", "respond"}
        PROVE  /\ host'[msg'[j].cid] = "compiling" /\ msg'[j].to = msg'[j].cid
               /\ drain'[j] # "finish" => active'[msg'[j].cid] = None
    BY <1>3, <1>4, <1>5, <2>5 DEF ConversationInv, Outbound
  <2>6. \A c \in CIDs : active'[c] # None => host'[c] # "idle"
    BY <1>4 DEF ConversationInv, Outbound
  <2> QED
    BY <2>1, <2>2, <2>4, <2>5, <2>6 DEF Outbound
<1>11. Lifetime'
  <2>1. Quiet' <=> Quiet
    BY <1>4 DEF Quiet
  <2> QED
    BY <1>4, <1>5, <2>1 DEF ConversationInv, Lifetime, OwnershipInv, TypeInv, TypeOK
<1> QED
  BY <1>8, <1>9, <1>10, <1>11 DEF ConversationInv

LEMMA CompilationConversation ==
    ASSUME OwnershipInv, ConversationInv, NEW i \in Isolates, IsolateStep(i)
    PROVE  ConversationInv'
<1> USE DEF readerVars, processVars, handlerVars, poolVars, borrowVars, isoVars, drainVars
<1>1. CASE CompileFails(i)
  BY <1>1 DEF CompileFails, ConversationInv, Faultless, Failed
<1>2. CASE AwaitClosed(i)
  <2>1. iso[i] \in Working /\ shut # {}
    BY <1>2 DEF AwaitClosed, Working
  <2>2. isoCid[i] \in CIDs /\ host[isoCid[i]] # "idle"
    BY <2>1, WorkingRuns, RunningIs
  <2> QED
    BY <2>1, <2>2 DEF ConversationInv, Lifetime, Quiet
<1>3. CASE (\E kind \in OutKinds : CompileEmits(i, kind)) \/ TakeClosed(i)
  <2>1. /\ UNCHANGED <<reader, closed, pc, pkt, found, active, spawned, shut, isoCid, drain, msg,
                       host>>
        /\ \A j \in Isolates : j # i => iso'[j] = iso[j] /\ out'[j] = out[j]
        /\ \/ iso[i] = "run" /\ iso'[i] = "emit" /\ out'[i] # "error"
           \/ iso[i] = "take" /\ iso'[i] = "exited" /\ i \in shut
    BY <1>3 DEF CompileEmits, TakeClosed, OwnershipInv, TypeInv, TypeOK
  <2>2. /\ \A j \in Isolates, c \in CIDs : Runs(j, c)' <=> Runs(j, c)
        /\ \A j \in Isolates : Failed(j)' => Failed(j)
        /\ \A j \in Isolates : iso[j] = "await" <=> iso'[j] = "await"
    BY <2>1 DEF Runs, Failed
  <2>3. ASSUME NEW c \in CIDs, Awaited(c) PROVE Awaited(c)'
    BY <2>1, <2>2, <2>3, AwaitedIs DEF Awaited
  <2>4. \A j \in Isolates : drain[j] # "idle" => msg[j].cid \in CIDs
    BY DEF OwnershipInv, TypeInv, Routed, Messages
  <2>5. Faultless'
    BY <2>1, <2>2 DEF ConversationInv, Faultless
  <2>6. Inbound'
    <3>1. \A h \in Handlers, c \in CIDs : /\ Carries(h, c)' <=> Carries(h, c)
                                          /\ Answers(h, c)' <=> Answers(h, c)
      BY <2>1 DEF Carries, Answers
    <3> QED
      BY <2>1, <2>3, <3>1 DEF ConversationInv, Inbound
  <2>7. Outbound'
    <3>1. ASSUME NEW j \in Isolates, drain'[j] = "forward"
          PROVE  /\ host'[msg'[j].cid] = "compiling" /\ msg'[j].to = msg'[j].cid
                 /\ Runs(j, msg[j].cid)'
                 /\ msg'[j].kind = "request" => iso'[j] = "await"
      <4>1. drain[j] = "forward" /\ msg[j].cid \in CIDs /\ msg' = msg /\ host' = host
        BY <2>1, <2>4, <3>1
      <4> QED
        BY <2>2, <4>1 DEF ConversationInv, Outbound
    <3>2. \A c \in CIDs : host'[c] = "asked" => Awaited(c)'
      BY <2>1, <2>3 DEF ConversationInv, Outbound
    <3>3. \A j \in Isolates, c \in CIDs : Runs(j, c)' /\ iso'[j] # "await" => host'[c] = "compiling"
      BY <2>1, <2>2 DEF ConversationInv, Outbound
    <3> QED
      BY <2>1, <3>1, <3>2, <3>3 DEF ConversationInv, Outbound
  <2>8. Lifetime'
    <3>1. Quiet' <=> Quiet
      BY <2>1 DEF Quiet
    <3> QED
      BY <2>1, <3>1 DEF ConversationInv, Lifetime, OwnershipInv, TypeInv, TypeOK
  <2> QED
    BY <2>5, <2>6, <2>7, <2>8 DEF ConversationInv
<1> QED
  BY <1>1, <1>2, <1>3, EmitConversation DEF IsolateStep

(* A request is written, and the host asked; or a log event is.             *)
LEMMA ForwardConversation ==
    ASSUME OwnershipInv, ConversationInv, NEW i \in Isolates, Forward(i)
    PROVE  ConversationInv'
<1> USE DEF readerVars, processVars, handlerVars, poolVars, borrowVars, isoVars, drainVars
<1> DEFINE cid == msg[i].cid
<1>1. /\ drain[i] = "forward"
      /\ host' = IF msg[i].kind = "request" THEN [host EXCEPT ![cid] = "asked"] ELSE host
      /\ drain' = [drain EXCEPT ![i] = "idle"]
      /\ msg' = [msg EXCEPT ![i] = NoMessage]
      /\ UNCHANGED <<reader, closed, pc, pkt, found, active, spawned, shut, iso, isoCid, out>>
  BY DEF Forward, Drained
<1>2. /\ cid \in CIDs /\ Runs(i, cid) /\ active[cid] = i /\ host[cid] = "compiling" /\ i # None
      /\ isoCid[i] = cid
      /\ msg[i].kind = "request" => iso[i] = "await"
      /\ \A h \in Handlers : ~Carries(h, cid)
      /\ \A j \in Isolates : ~Completes(j, cid) /\ (Runs(j, cid) => j = i)
  <2>1. cid \in CIDs
    BY <1>1 DEF OwnershipInv, TypeInv, Routed, Messages
  <2>2. /\ host[cid] = "compiling" /\ Runs(i, cid)
        /\ msg[i].kind = "request" => iso[i] = "await"
    BY <1>1 DEF ConversationInv, Outbound
  <2> QED
    BY <2>1, <2>2, RunningIs
<1>3. \A c \in CIDs : host'[c] = IF msg[i].kind = "request" /\ c = cid THEN "asked" ELSE host[c]
  BY <1>1, <1>2 DEF OwnershipInv, TypeInv, TypeOK
<1>4. /\ \A j \in Isolates : j # i => drain'[j] = drain[j] /\ msg'[j] = msg[j]
      /\ drain'[i] = "idle"
  BY <1>1 DEF OwnershipInv, TypeInv, TypeOK
<1>5. /\ \A j \in Isolates, c \in CIDs : Runs(j, c)' <=> Runs(j, c)
      /\ \A j \in Isolates : Failed(j)' => Failed(j)
      /\ \A h \in Handlers, c \in CIDs : /\ Carries(h, c)' <=> Carries(h, c)
                                         /\ Answers(h, c)' <=> Answers(h, c)
  BY <1>1, <1>4 DEF Runs, Failed, Carries, Answers
<1>6. \A c \in CIDs : Awaited(c) => Awaited(c)' /\ c # cid
  BY <1>1, <1>2, <1>4, AwaitedIs DEF Awaited
<1>7. ASSUME NEW c \in CIDs, c = cid, msg[i].kind = "request" PROVE Awaited(c)'
  BY <1>1, <1>2, <1>4, <1>7 DEF Awaited
<1>8. Faultless'
  BY <1>1, <1>5 DEF ConversationInv, Faultless
<1>9. Inbound'
  BY <1>1, <1>2, <1>3, <1>5, <1>6 DEF ConversationInv, Inbound
<1>10. Outbound'
  <2>1. \A j \in Isolates : drain[j] # "idle" => msg[j].cid \in CIDs
    BY DEF OwnershipInv, TypeInv, Routed, Messages
  <2>2. \A c \in CIDs : host'[c] = "asked" => Awaited(c)'
    BY <1>3, <1>6, <1>7 DEF ConversationInv, Outbound
  <2>3. \A j \in Isolates, c \in CIDs : Runs(j, c)' /\ iso'[j] # "await" => host'[c] = "compiling"
    BY <1>1, <1>2, <1>3, <1>5 DEF ConversationInv, Outbound
  <2>4. ASSUME NEW j \in Isolates, drain'[j] = "forward"
        PROVE  /\ host'[msg'[j].cid] = "compiling" /\ msg'[j].to = msg'[j].cid
               /\ Runs(j, msg[j].cid)'
               /\ msg'[j].kind = "request" => iso'[j] = "await"
    <3>1. j # i /\ drain[j] = "forward" /\ msg[j].cid \in CIDs /\ msg'[j] = msg[j]
      BY <1>4, <2>1, <2>4
    <3>2. Runs(j, msg[j].cid) /\ msg[j].cid # cid
      BY <1>2, <3>1 DEF ConversationInv, Outbound
    <3>3. Runs(j, msg[j].cid)'
      BY <1>1, <3>1, <3>2 DEF Runs
    <3> QED
      BY <1>1, <1>3, <3>1, <3>2, <3>3 DEF ConversationInv, Outbound
  <2>5. ASSUME NEW j \in Isolates, drain'[j] \in {"finish", "release", "respond"}
        PROVE  /\ host'[msg'[j].cid] = "compiling" /\ msg'[j].to = msg'[j].cid
               /\ drain'[j] # "finish" => active'[msg'[j].cid] = None
    <3>1. /\ j # i /\ drain[j] = drain'[j] /\ msg[j].cid \in CIDs /\ msg'[j] = msg[j]
      BY <1>4, <2>1, <2>5
    <3>2. msg[j].cid # cid
      BY <1>2, <2>5, <3>1 DEF Completes
    <3> QED
      BY <1>1, <1>3, <2>5, <3>1, <3>2 DEF ConversationInv, Outbound
  <2>6. \A c \in CIDs : active'[c] # None => host'[c] # "idle"
    BY <1>1, <1>3 DEF ConversationInv, Outbound
  <2> QED
    BY <2>2, <2>3, <2>4, <2>5, <2>6 DEF Outbound
<1>11. Lifetime'
  <2>1. ~Quiet
    BY <1>2 DEF Quiet
  <2> QED
    BY <1>1, <2>1 DEF ConversationInv, Lifetime
<1> QED
  BY <1>8, <1>9, <1>10, <1>11 DEF ConversationInv

(* The completion takes the compilation off activeIsolates, returns the     *)
(* token and writes the response, in this order.                            *)
LEMMA CompletionConversation ==
    ASSUME OwnershipInv, ConversationInv, NEW i \in Isolates,
           Finish(i) \/ ReleaseToken(i) \/ Respond(i)
    PROVE  ConversationInv'
<1> USE DEF readerVars, processVars, handlerVars, poolVars, borrowVars, isoVars, drainVars
<1> DEFINE cid == msg[i].cid
<1>1. /\ drain[i] \in {"finish", "release", "respond"}
      /\ drain[i] = "finish" <=> Finish(i)
      /\ drain[i] = "respond" <=> Respond(i)
      /\ UNCHANGED <<reader, closed, pc, pkt, found, spawned, shut, iso, isoCid, out>>
  BY DEF Finish, ReleaseToken, Respond
<1>2. /\ cid \in CIDs /\ msg[i].to = cid /\ host[cid] = "compiling" /\ Completes(i, cid)
      /\ drain[i] = "finish" => active[cid] = i
      /\ drain[i] # "finish" => active[cid] = None
  <2>1. cid \in CIDs
    BY <1>1 DEF OwnershipInv, TypeInv, Routed, Messages
  <2>2. /\ msg[i].to = cid /\ host[cid] = "compiling"
        /\ drain[i] # "finish" => active[cid] = None
    BY <1>1 DEF ConversationInv, Outbound
  <2> QED
    BY <1>1, <2>1, <2>2 DEF OwnershipInv, Bound, Completes
<1>3. /\ \A h \in Handlers : ~Carries(h, cid)
      /\ \A j \in Isolates : ~Runs(j, cid) /\ (Completes(j, cid) => j = i)
  BY <1>2 DEF OwnershipInv, OneThread
<1>4. \A c \in CIDs : Awaited(c) => c # cid /\ active[c] # i
  <2>1. ~Awaited(cid)
    BY <1>2, <1>3, AwaitedIs
  <2> QED
    BY <1>1, <2>1, AwaitedIs
<1>5. \A h \in Handlers : ~Answers(h, cid)
  BY <1>2, <1>4, AnswersIs
<1>6. /\ \A c \in CIDs : active'[c] = IF c = cid THEN None ELSE active[c]
      /\ \A c \in CIDs : host'[c] = IF c = cid /\ drain[i] = "respond" THEN "idle" ELSE host[c]
      /\ \A j \in Isolates : j # i => drain'[j] = drain[j] /\ msg'[j] = msg[j]
      /\ drain[i] # "respond" => drain'[i] \in {"release", "respond"} /\ msg'[i] = msg[i]
      /\ drain[i] = "respond" => drain'[i] = "idle"
  <2>1. CASE Finish(i)
    BY <1>1, <1>2, <2>1 DEF Finish, OwnershipInv, TypeInv, TypeOK
  <2>2. CASE ReleaseToken(i)
    BY <1>1, <1>2, <2>2 DEF ReleaseToken, OwnershipInv, TypeInv, TypeOK
  <2>3. CASE Respond(i)
    BY <1>1, <1>2, <2>3 DEF Respond, Drained, OwnershipInv, TypeInv, TypeOK
  <2> QED
    BY <2>1, <2>2, <2>3
<1>7. /\ \A j \in Isolates, c \in CIDs : Runs(j, c)' <=> Runs(j, c)
      /\ \A j \in Isolates : Failed(j)' => Failed(j)
      /\ \A h \in Handlers, c \in CIDs : /\ Carries(h, c)' <=> Carries(h, c)
                                         /\ Answers(h, c)' <=> Answers(h, c)
  BY <1>1, <1>6 DEF Runs, Failed, Carries, Answers
<1>8. ASSUME NEW c \in CIDs, Awaited(c) PROVE Awaited(c)' /\ active'[c] = active[c]
  <2>1. c # cid /\ active[c] # i /\ active[c] \in Isolates
    BY <1>4, <1>8, AwaitedIs
  <2> QED
    BY <1>1, <1>6, <1>8, <2>1 DEF Awaited
<1>9. Faultless'
  BY <1>1, <1>7 DEF ConversationInv, Faultless
<1>10. Inbound'
  <2>1. \A h \in Handlers, c \in CIDs : Carries(h, c)' => host'[c] = "compiling"
    BY <1>3, <1>6, <1>7 DEF ConversationInv, Inbound
  <2>2. ASSUME NEW g \in Handlers, NEW c \in CIDs, Answers(g, c)'
        PROVE  /\ host'[c] = "compiling" /\ Awaited(c)'
               /\ pc'[g] \in HasIsolate => found'[g] = active'[c]
               /\ \A f \in Handlers : Answers(f, c)' => f = g
    <3>1. Answers(g, c) /\ c # cid
      BY <1>5, <1>7, <2>2
    <3> QED
      BY <1>1, <1>6, <1>7, <1>8, <3>1, AnswersIs
  <2> QED
    BY <2>1, <2>2 DEF Inbound
<1>11. Outbound'
  <2>1. \A j \in Isolates : drain[j] # "idle" => msg[j].cid \in CIDs
    BY DEF OwnershipInv, TypeInv, Routed, Messages
  <2>2. \A c \in CIDs : host'[c] = "asked" => Awaited(c)'
    BY <1>6, <1>8 DEF ConversationInv, Outbound
  <2>3. \A j \in Isolates, c \in CIDs : Runs(j, c)' /\ iso'[j] # "await" => host'[c] = "compiling"
    BY <1>1, <1>3, <1>6, <1>7 DEF ConversationInv, Outbound
  <2>4. ASSUME NEW j \in Isolates, drain'[j] = "forward"
        PROVE  /\ host'[msg'[j].cid] = "compiling" /\ msg'[j].to = msg'[j].cid
               /\ Runs(j, msg[j].cid)'
               /\ msg'[j].kind = "request" => iso'[j] = "await"
    <3>1. j # i /\ drain[j] = "forward" /\ msg[j].cid \in CIDs /\ msg'[j] = msg[j]
      BY <1>6, <2>1, <2>4
    <3>2. Runs(j, msg[j].cid) /\ msg[j].cid # cid
      BY <1>3, <3>1 DEF ConversationInv, Outbound
    <3>3. Runs(j, msg[j].cid)'
      BY <1>1, <3>1, <3>2 DEF Runs
    <3> QED
      BY <1>1, <1>6, <3>1, <3>2, <3>3 DEF ConversationInv, Outbound
  <2>5. ASSUME NEW j \in Isolates, drain'[j] \in {"finish", "release", "respond"}
        PROVE  /\ host'[msg'[j].cid] = "compiling" /\ msg'[j].to = msg'[j].cid
               /\ drain'[j] # "finish" => active'[msg'[j].cid] = None
    <3>1. CASE j = i
      BY <1>2, <1>6, <2>5, <3>1
    <3>2. CASE j # i
      <4>1. drain[j] = drain'[j] /\ msg[j].cid \in CIDs /\ msg'[j] = msg[j]
        BY <1>1, <1>6, <2>1, <2>5, <3>2
      <4>2. Completes(j, msg[j].cid)
        BY <2>5, <4>1 DEF Completes
      <4>3. msg[j].cid # cid
        BY <1>3, <3>2, <4>2
      <4> QED
        BY <1>6, <2>5, <4>1, <4>3 DEF ConversationInv, Outbound
    <3> QED
      BY <3>1, <3>2
  <2>6. \A c \in CIDs : active'[c] # None => host'[c] # "idle"
    BY <1>6 DEF ConversationInv, Outbound
  <2> QED
    BY <2>2, <2>3, <2>4, <2>5, <2>6 DEF Outbound
<1>12. Lifetime'
  <2>1. ~Quiet
    BY <1>2 DEF Quiet
  <2> QED
    BY <1>1, <2>1 DEF ConversationInv, Lifetime
<1> QED
  BY <1>9, <1>10, <1>11, <1>12 DEF ConversationInv

LEMMA DrainConversation ==
    ASSUME OwnershipInv, ConversationInv, NEW i \in Isolates, DrainStep(i)
    PROVE  ConversationInv'
<1>1. ~WriteFatal(i) /\ ~ExitFatal(i)
  BY DEF WriteFatal, ExitFatal, ConversationInv, Faultless, Failed
<1> QED
  BY <1>1, ForwardConversation, CompletionConversation DEF DrainStep

LEMMA NextConversation ==
    ASSUME OrderlyHost, OwnershipInv, ConversationInv, [Next]_vars
    PROVE  ConversationInv'
<1>1. ASSUME UNCHANGED vars PROVE ConversationInv'
  <2> USE DEF vars, readerVars, handlerVars, poolVars, isoVars, drainVars
  <2>1. Faultless'
    BY <1>1 DEF ConversationInv, Faultless, Failed
  <2>2. Inbound'
    BY <1>1 DEF ConversationInv, Inbound, Carries, Answers, Awaited
  <2>3. Outbound'
    BY <1>1, OutboundKept DEF ConversationInv
  <2>4. Lifetime'
    BY <1>1 DEF ConversationInv, Lifetime, Quiet
  <2> QED
    BY <2>1, <2>2, <2>3, <2>4 DEF ConversationInv
<1> QED
  BY <1>1, ReaderConversation, HandlerConversation, CompilationConversation, DrainConversation
     DEF Next, Ended

LEMMA OrderlyIsDistinct == OrderlyHost => NoDuplicates
BY DEF OrderlyHost, NoDuplicates

LEMMA ServiceInductive ==
    OrderlyHost => (Spec => [](OwnershipInv /\ PoolInv /\ ConversationInv))
<1> SUFFICES ASSUME OrderlyHost PROVE Spec => [](OwnershipInv /\ PoolInv /\ ConversationInv)
  OBVIOUS
<1>1. NoDuplicates
  BY OrderlyIsDistinct
<1>2. OwnershipInv /\ ConversationInv /\ [Next]_vars => ConversationInv'
  BY NextConversation
<1>3. Spec => [](OwnershipInv /\ PoolInv)
  BY <1>1, PoolInductive
<1> QED
  BY <1>2, <1>3, InitConversation, PTL DEF Spec

-----------------------------------------------------------------------------
(* The compilations as the host sees them                                   *)

PhaseOf(c) == IF host[c] = "idle" THEN "idle"
              ELSE IF Completing(c) THEN "finishing"
              ELSE IF active[c] = None THEN "queued"
              ELSE IF host[c] = "asked" THEN "asked"
              ELSE "running"

LEMMA PhaseIs == phase = [c \in CIDs |-> PhaseOf(c)]
BY DEF phase, PhaseOf

LEMMA PhaseIsNext == phase' = [c \in CIDs |-> PhaseOf(c)']
BY DEF phase, PhaseOf

(* A step that changes what the host sees of one compilation.               *)
LEMMA PhaseGoes ==
    ASSUME NEW c \in CIDs, \A d \in CIDs : d # c => PhaseOf(d)' = PhaseOf(d)
    PROVE  /\ phase' = [phase EXCEPT ![c] = PhaseOf(c)']
           /\ phase[c] = PhaseOf(c)
<1> DEFINE Now(d)  == PhaseOf(d)
           Then(d) == PhaseOf(d)'
<1>1. phase = [d \in CIDs |-> Now(d)] /\ phase' = [d \in CIDs |-> Then(d)]
  BY PhaseIs, PhaseIsNext
<1>2. \A d \in CIDs : d # c => Then(d) = Now(d)
  OBVIOUS
<1> HIDE DEF Now, Then
<1>3. phase' = [phase EXCEPT ![c] = Then(c)] /\ phase[c] = Now(c)
  BY <1>1, <1>2
<1> QED
  BY <1>3 DEF Now, Then

LEMMA PhaseStays ==
    ASSUME \A c \in CIDs : PhaseOf(c)' = PhaseOf(c)
    PROVE  phase' = phase
<1> DEFINE Now(d)  == PhaseOf(d)
           Then(d) == PhaseOf(d)'
<1>1. phase = [d \in CIDs |-> Now(d)] /\ phase' = [d \in CIDs |-> Then(d)]
  BY PhaseIs, PhaseIsNext
<1>2. \A d \in CIDs : Then(d) = Now(d)
  OBVIOUS
<1> HIDE DEF Now, Then
<1> QED
  BY <1>1, <1>2

LEMMA PhaseKept ==
    ASSUME NEW c \in CIDs, host'[c] = host[c], active'[c] = active[c],
           Completing(c)' <=> Completing(c)
    PROVE  PhaseOf(c)' = PhaseOf(c)
BY DEF PhaseOf

LEMMA CompletingIs ==
    ASSUME OwnershipInv, NEW c \in CIDs
    PROVE  Completing(c) <=> \E i \in Isolates : drain[i] # "finish" /\ Completes(i, c)
BY DEF Completing, Completes

LEMMA Requested ==
    ASSUME OrderlyHost, OwnershipInv, ConversationInv,
           NEW h \in Handlers, NEW p \in Packets, ReadPacket(h, p)
    PROVE  [Service!Next]_phase
<1> USE DEF drainVars, poolVars
<1>1. /\ host' = IF Expected(p) THEN [host EXCEPT ![p.cid] = "compiling"] ELSE host
      /\ UNCHANGED <<active, drain, msg>>
  BY DEF ReadPacket
<1>2. \A c \in CIDs : Completing(c)' <=> Completing(c)
  BY <1>1 DEF Completing
<1>3. CASE ~Expected(p)
  BY <1>1, <1>2, <1>3, PhaseKept, PhaseStays
<1>4. CASE Expected(p)
  <2>1. PICK c \in CIDs : /\ c = p.cid
                          /\ \/ p.kind = "compile" /\ host[c] = "idle"
                             \/ p.kind = "answer" /\ host[c] = "asked"
    BY <1>4 DEF Expected, Packets
  <2>2. host' = [host EXCEPT ![c] = "compiling"] /\ host'[c] = "compiling"
    BY <1>1, <1>4, <2>1 DEF OwnershipInv, TypeInv, TypeOK
  <2>3. \A d \in CIDs : d # c => host'[d] = host[d]
    BY <2>2 DEF OwnershipInv, TypeInv, TypeOK
  <2>4. phase' = [phase EXCEPT ![c] = PhaseOf(c)'] /\ phase[c] = PhaseOf(c)
    BY <1>1, <1>2, <2>3, PhaseKept, PhaseGoes
  <2>5. CASE host[c] = "idle"
    <3>1. active[c] = None
      BY <2>5 DEF ConversationInv, Outbound
    <3>2. ~Completing(c)
      BY <2>5, CompletingIs DEF OwnershipInv, OneThread
    <3>3. PhaseOf(c) = "idle" /\ PhaseOf(c)' = "queued"
      BY <1>1, <1>2, <2>2, <2>5, <3>1, <3>2 DEF PhaseOf
    <3> QED
      BY <2>4, <3>3 DEF Service!Next, Service!Request, Service!Goes
  <2>6. CASE host[c] = "asked"
    <3>1. Awaited(c)
      BY <2>6 DEF ConversationInv, Outbound
    <3>2. active[c] # None /\ Runs(active[c], c) /\ active[c] \in Isolates
      BY <3>1, AwaitedIs DEF Awaited
    <3>3. ~Completing(c)
      BY <3>2, RunningIs, CompletingIs
    <3>4. PhaseOf(c) = "asked" /\ PhaseOf(c)' = "running"
      BY <1>1, <1>2, <2>2, <2>6, <3>2, <3>3 DEF PhaseOf
    <3> QED
      BY <2>4, <3>4 DEF Service!Next, Service!Answer, Service!Goes
  <2> QED
    BY <2>1, <2>5, <2>6
<1> QED
  BY <1>3, <1>4

(* A handler that has its token finds room: those that run have the others. *)
LEMMA RoomToStart ==
    ASSUME OwnershipInv, PoolInv, NEW h \in Handlers, pc[h] = "borrow"
    PROVE  Cardinality(Service!Running) < MaxConcurrent
<1> DEFINE others == TokenHolders \ {<<"handler", h>>}
           holder == [c \in Service!Running |-> <<"compilation", c>>]
<1>1. /\ <<"handler", h>> \in TokenHolders
      /\ IsFiniteSet(TokenHolders) /\ pool = Cardinality(TokenHolders)
      /\ pool \in 0..MaxConcurrent
  BY DEF TokenHolders, PoolInv, PoolAccounting, OwnershipInv, TypeInv, TypeOK
<1>2. IsFiniteSet(others) /\ Cardinality(others) = pool - 1
  BY <1>1, FS_RemoveElement
<1>3. \A c \in Service!Running : c \in CIDs /\ active[c] # None
  BY PhaseIs DEF Service!Running, PhaseOf
<1>4. \A c \in Service!Running : holder[c] \in others
  BY <1>3 DEF TokenHolders
<1>5. \A c, d \in Service!Running : holder[c] = holder[d] => c = d
  OBVIOUS
<1>6. holder \in Injection(Service!Running, others)
  BY <1>4, <1>5 DEF Injection, IsInjective
<1>7. IsFiniteSet(Service!Running) /\ Cardinality(Service!Running) <= Cardinality(others)
  BY <1>2, <1>6, FS_Injection
<1>8. Cardinality(Service!Running) \in Nat /\ MaxConcurrent \in Nat
  BY <1>7, FS_CardinalityType, DispatcherConstants
<1> QED
  BY <1>1, <1>2, <1>7, <1>8

LEMMA Started ==
    ASSUME OwnershipInv, PoolInv, ConversationInv, NEW h \in Handlers, NEW i \in Isolates,
           BorrowIsolate(h, i)
    PROVE  [Service!Next]_phase
<1> USE DEF drainVars
<1>1. ~borrowed[i]
  BY FreeIsolate DEF BorrowIsolate
<1>2. /\ pc[h] = "borrow" /\ active[pkt[h].cid] = None
      /\ active' = [active EXCEPT ![pkt[h].cid] = i]
      /\ UNCHANGED <<drain, msg, host>>
  BY <1>1 DEF BorrowIsolate
<1>3. PICK c \in CIDs : /\ c = pkt[h].cid /\ host[c] = "compiling"
                        /\ Carries(h, c) \/ Answers(h, c)
  BY <1>2, RoutingIs DEF Routing
<1>4. Carries(h, c)
  BY <1>2, <1>3, AnswersIs DEF Awaited
<1>5. /\ \A d \in CIDs : Completing(d)' <=> Completing(d)
      /\ ~Completing(c)
  BY <1>2, <1>4, CompletingIs DEF Completing, OwnershipInv, OneThread
<1>6. /\ active'[c] = i /\ i # None
      /\ \A d \in CIDs : d # c => active'[d] = active[d]
  BY <1>2, <1>3, DispatcherConstants DEF OwnershipInv, TypeInv, TypeOK
<1>7. phase' = [phase EXCEPT ![c] = PhaseOf(c)'] /\ phase[c] = PhaseOf(c)
  BY <1>2, <1>5, <1>6, PhaseKept, PhaseGoes
<1>8. PhaseOf(c) = "queued" /\ PhaseOf(c)' = "running"
  BY <1>2, <1>3, <1>5, <1>6 DEF PhaseOf
<1>9. Cardinality(Service!Running) < MaxConcurrent
  BY <1>2, RoomToStart
<1>10. Service!Goes(c, "queued", "running")
  BY <1>7, <1>8 DEF Service!Goes
<1>11. Service!Start(c)
  BY <1>9, <1>10 DEF Service!Start, Service!Cardinality, Cardinality, Service!IsFiniteSet, IsFiniteSet
<1> QED
  BY <1>11 DEF Service!Next

LEMMA Written ==
    ASSUME OwnershipInv, ConversationInv, NEW i \in Isolates,
           Forward(i) \/ Finish(i) \/ Respond(i)
    PROVE  [Service!Next]_phase
<1> USE DEF poolVars
<1>1. CASE Forward(i)
  <2>1. /\ drain[i] = "forward"
        /\ host' = IF msg[i].kind = "request" THEN [host EXCEPT ![msg[i].cid] = "asked"] ELSE host
        /\ drain' = [drain EXCEPT ![i] = "idle"] /\ msg' = [msg EXCEPT ![i] = NoMessage]
        /\ UNCHANGED active
    BY <1>1 DEF Forward, Drained
  <2>2. \A d \in CIDs : Completing(d)' <=> Completing(d)
    BY <2>1 DEF Completing, OwnershipInv, TypeInv, TypeOK
  <2>3. CASE msg[i].kind # "request"
    BY <2>1, <2>2, <2>3, PhaseKept, PhaseStays
  <2>4. CASE msg[i].kind = "request"
    <3>1. PICK c \in CIDs : c = msg[i].cid
      BY <2>1 DEF OwnershipInv, TypeInv, Routed, Messages
    <3>2. Runs(i, c) /\ host[c] = "compiling"
      BY <2>1, <3>1 DEF ConversationInv, Outbound
    <3>3. active[c] # None /\ ~Completing(c)
      BY <3>2, RunningIs, CompletingIs
    <3>4. host'[c] = "asked" /\ \A d \in CIDs : d # c => host'[d] = host[d]
      BY <2>1, <2>4, <3>1 DEF OwnershipInv, TypeInv, TypeOK
    <3>5. phase' = [phase EXCEPT ![c] = PhaseOf(c)'] /\ phase[c] = PhaseOf(c)
      BY <2>1, <2>2, <3>4, PhaseKept, PhaseGoes
    <3>6. PhaseOf(c) = "running" /\ PhaseOf(c)' = "asked"
      BY <2>1, <2>2, <3>2, <3>3, <3>4 DEF PhaseOf
    <3> QED
      BY <3>5, <3>6 DEF Service!Next, Service!Ask, Service!Goes
  <2> QED
    BY <2>3, <2>4
<1>2. CASE Finish(i)
  <2>1. PICK c \in CIDs : c = msg[i].cid
    BY <1>2 DEF Finish, OwnershipInv, TypeInv, Routed, Messages
  <2>2. /\ drain[i] = "finish" /\ drain' = [drain EXCEPT ![i] = "release"]
        /\ active' = [active EXCEPT ![msg[i].to] = None]
        /\ UNCHANGED <<msg, host>>
    BY <1>2 DEF Finish
  <2>3. /\ msg[i].to = c /\ active[c] = i /\ i # None /\ host[c] = "compiling" /\ Completes(i, c)
    BY <2>1, <2>2, DispatcherConstants DEF ConversationInv, Outbound, OwnershipInv, Bound, Completes
  <2>4. ~Completing(c)
    BY <2>2, <2>3, CompletingIs DEF OwnershipInv, OneThread
  <2>5. /\ Completing(c)'
        /\ \A d \in CIDs : d # c => (Completing(d)' <=> Completing(d))
        /\ \A d \in CIDs : d # c => active'[d] = active[d]
    BY <2>1, <2>2, <2>3 DEF Completing, OwnershipInv, TypeInv, TypeOK
  <2>6. phase' = [phase EXCEPT ![c] = PhaseOf(c)'] /\ phase[c] = PhaseOf(c)
    BY <2>2, <2>5, PhaseKept, PhaseGoes
  <2>7. PhaseOf(c) = "running" /\ PhaseOf(c)' = "finishing"
    BY <2>2, <2>3, <2>4, <2>5 DEF PhaseOf
  <2> QED
    BY <2>6, <2>7 DEF Service!Next, Service!Complete, Service!Goes
<1>3. CASE Respond(i)
  <2>1. PICK c \in CIDs : c = msg[i].cid
    BY <1>3 DEF Respond, OwnershipInv, TypeInv, Routed, Messages
  <2>2. /\ drain[i] = "respond" /\ host' = [host EXCEPT ![c] = "idle"]
        /\ drain' = [drain EXCEPT ![i] = "idle"] /\ msg' = [msg EXCEPT ![i] = NoMessage]
        /\ UNCHANGED active
    BY <1>3, <2>1 DEF Respond, Drained
  <2>3. Completing(c) /\ host[c] = "compiling"
    BY <2>1, <2>2 DEF Completing, ConversationInv, Outbound
  <2>4. /\ host'[c] = "idle" /\ \A d \in CIDs : d # c => host'[d] = host[d]
        /\ \A d \in CIDs : d # c => (Completing(d)' <=> Completing(d))
    BY <2>1, <2>2 DEF Completing, OwnershipInv, TypeInv, TypeOK
  <2>5. phase' = [phase EXCEPT ![c] = PhaseOf(c)'] /\ phase[c] = PhaseOf(c)
    BY <2>2, <2>4, PhaseKept, PhaseGoes
  <2>6. PhaseOf(c) = "finishing" /\ PhaseOf(c)' = "idle"
    BY <2>3, <2>4 DEF PhaseOf
  <2> QED
    BY <2>5, <2>6 DEF Service!Next, Service!Respond, Service!Goes
<1> QED
  BY <1>1, <1>2, <1>3

(* All the rest the host does not see.                                      *)
LEMMA Unseen ==
    ASSUME OwnershipInv,
           \/ \E i \in Isolates : IsolateStep(i)
           \/ \E i \in Isolates : ReleaseToken(i) \/ WriteFatal(i) \/ ExitFatal(i)
           \/ \E h \in Handlers : \/ LookUp(h) \/ AcquireToken(h) \/ LoseRace(h) \/ GiveBack(h)
                                  \/ CheckClosed(h) \/ CheckBorrowed(h)
                                  \/ (\E i \in Isolates : Deliver(h, i))
                                  \/ PutPanics(h) \/ AnswerVersion(h) \/ ReportError(h)
           \/ ReadEof \/ RangeIsolates \/ (\E i \in Isolates : Kill(i)) \/ WaitHandlers
           \/ ReturnFromRun \/ ReadFails \/ ExitOnReadError
           \/ UNCHANGED vars
    PROVE  phase' = phase
<1> USE DEF readerVars, processVars, handlerVars, poolVars, borrowVars, isoVars, drainVars
<1>1. UNCHANGED <<active, host>>
  BY DEF IsolateStep, CompileEmits, CompileFails, Emit, TakeClosed, AwaitClosed, ReleaseToken,
     WriteFatal, ExitFatal, LookUp, AcquireToken, LoseRace, GiveBack, CheckClosed, CheckBorrowed,
     Deliver, PutPanics, AnswerVersion, ReportError, ReadEof, RangeIsolates, Kill, WaitHandlers,
     ReturnFromRun, ReadFails, ExitOnReadError, vars
<1>2. \A c \in CIDs : Completing(c)' <=> Completing(c)
  <2>1. CASE \E i \in Isolates : Emit(i)
    BY <2>1 DEF Emit, Completing, OwnershipInv, TypeInv, TypeOK
  <2>2. CASE \E i \in Isolates : ReleaseToken(i) \/ WriteFatal(i)
    BY <2>2 DEF ReleaseToken, WriteFatal, Completing, OwnershipInv, TypeInv, TypeOK
  <2>3. CASE UNCHANGED <<drain, msg>>
    BY <2>3 DEF Completing
  <2> QED
    BY <2>1, <2>2, <2>3
       DEF IsolateStep, CompileEmits, CompileFails, TakeClosed, AwaitClosed, ExitFatal, LookUp,
       AcquireToken, LoseRace, GiveBack, CheckClosed, CheckBorrowed, Deliver, PutPanics,
       AnswerVersion, ReportError, ReadEof, RangeIsolates, Kill, WaitHandlers, ReturnFromRun,
       ReadFails, ExitOnReadError, vars
<1> QED
  BY <1>1, <1>2, PhaseKept, PhaseStays

LEMMA StepOfService ==
    ASSUME OrderlyHost, OwnershipInv, PoolInv, ConversationInv, [Next]_vars
    PROVE  [Service!Next]_phase
<1>1. CASE ReaderStep
  BY <1>1, Requested, Unseen DEF ReaderStep
<1>2. ASSUME NEW h \in Handlers, HandlerStep(h) PROVE [Service!Next]_phase
  BY <1>2, Started, Unseen DEF HandlerStep
<1>3. ASSUME NEW i \in Isolates, IsolateStep(i) \/ DrainStep(i) PROVE [Service!Next]_phase
  BY <1>3, Written, Unseen DEF DrainStep
<1>4. CASE Ended \/ UNCHANGED vars
  BY <1>4, Unseen DEF Ended
<1> QED
  BY <1>1, <1>2, <1>3, <1>4 DEF Next

-----------------------------------------------------------------------------
(* The pool, the mailboxes, the isolates and the drains together are the     *)
(* service of docs/ref/embedded.md: what the host sees of them are steps of  *)
(* CompileService.                                                           *)
THEOREM ServiceImplemented == OrderlyHost => (Spec => Service!Spec)
<1> SUFFICES ASSUME OrderlyHost PROVE Spec => Service!Spec
  OBVIOUS
<1>1. Init => Service!Init
  <2> SUFFICES ASSUME Init PROVE phase = [c \in CIDs |-> "idle"]
    BY DEF Service!Init
  <2> QED
    BY DEF Init, phase
<1>2. OwnershipInv /\ PoolInv /\ ConversationInv /\ [Next]_vars => [Service!Next]_phase
  BY StepOfService
<1> QED
  BY <1>1, <1>2, ServiceInductive, PTL DEF Spec, Service!Spec
=============================================================================
