---------------------------- MODULE PacketStream ----------------------------
(***************************************************************************)
(* Length-delimited packets on a byte stream: the goroutines that write    *)
(* through concurrentPacketWriter (embedded/packet_writer.go) and the      *)
(* reader of ReadPacket (embedded/length_delimited_transformer.go) at the  *)
(* other end.  A packet is two writes, its length and its payload; each    *)
(* write reaches the stream in chunks of any size, and the writing process *)
(* may end between any two of them.                                        *)
(***************************************************************************)
EXTENDS Varint, FiniteSets

CONSTANTS
    Writers,    \* goroutines that write packets
    Payloads,   \* the packets they write: sequences of bytes
    MaxPackets, \* a bound: packets written in a behavior
    WordBits,   \* the width of the length EncodeVarint takes (32 in the code)
    MaxLength   \* the bits ReadPacket accepts in a length (53 in the code)

NoWriter == "none"

ASSUME StreamConstants ==
    /\ NoWriter \notin Writers
    /\ Payloads \subseteq Seq(Byte)
    /\ MaxPackets \in Nat
    /\ WordBits \in Nat \ {0} /\ MaxLength \in Nat \ {0} /\ WordBits <= MaxLength
    /\ \A p \in Payloads : Len(p) < 2^WordBits

VARIABLES
    muHolder, \* the writer that holds cw.mu, if any
    todo,     \* what WritePacket has still to write: the buffers of its calls
    stream,   \* the bytes written and not yet read
    open,     \* FALSE when the writing process has ended
    builder,  \* ReadPacket's packetLengthBuilder
    packet,   \* the payload bytes ReadPacket has
    missing,  \* the payload bytes it waits for
    outcome,  \* what ended the sequence of ReadPacket calls
    written,  \* history: the packets whose writing began, in order
    received  \* history: the packets ReadPacket returned, in order

writeVars == <<muHolder, todo, written>>
readVars  == <<builder, packet, missing, outcome, received>>
vars == <<writeVars, stream, open, readVars>>

Init ==
    /\ muHolder = NoWriter /\ todo = <<>> /\ written = <<>>
    /\ stream = <<>> /\ open = TRUE
    /\ builder = NewVarintBuilder /\ packet = <<>> /\ missing = 0
    /\ outcome = "reading" /\ received = <<>>

-----------------------------------------------------------------------------
(* WritePacket, under the writer's mutex *)

(* Mutant: a writer does not wait for the mutex. *)
BeginWriteUnlocked(w, p) ==
    /\ open
    /\ Len(written) < MaxPackets
    /\ muHolder' = w
    /\ todo' = <<EncodeVarint(Len(p) % 2^WordBits), p>>
    /\ written' = Append(written, p)
    /\ UNCHANGED <<stream, open, readVars>>

BeginWrite(w, p) ==
    /\ open
    /\ muHolder = NoWriter
    /\ Len(written) < MaxPackets
    /\ muHolder' = w
    /\ todo' = <<EncodeVarint(Len(p) % 2^WordBits), p>>
    /\ written' = Append(written, p)
    /\ UNCHANGED <<stream, open, readVars>>

(* The next k bytes of the current Write call. *)
WriteChunk(w, k) ==
    /\ open
    /\ muHolder = w
    /\ todo # <<>>
    /\ k \in 1..Len(Head(todo))
    /\ stream' = stream \o SubSeq(Head(todo), 1, k)
    /\ todo' = [todo EXCEPT ![1] = SubSeq(@, k + 1, Len(@))]
    /\ UNCHANGED <<muHolder, written, open, readVars>>

(* Mutant: the payload is not written. *)
WriteReturnsEarly(w) ==
    /\ open
    /\ muHolder = w
    /\ todo # <<>> /\ Head(todo) = <<>>
    /\ todo' = <<>>
    /\ UNCHANGED <<muHolder, written, stream, open, readVars>>

(* The Write call returns. *)
WriteReturns(w) ==
    /\ open
    /\ muHolder = w
    /\ todo # <<>> /\ Head(todo) = <<>>
    /\ todo' = Tail(todo)
    /\ UNCHANGED <<muHolder, written, stream, open, readVars>>

EndWrite(w) ==
    /\ open
    /\ muHolder = w
    /\ todo = <<>>
    /\ muHolder' = NoWriter
    /\ UNCHANGED <<todo, written, stream, open, readVars>>

(* The writing process ends, wherever its goroutines are. *)
WriterEnds ==
    /\ open
    /\ open' = FALSE
    /\ UNCHANGED <<writeVars, stream, readVars>>

-----------------------------------------------------------------------------
(* ReadPacket *)

(* One byte of the length. *)
ReadLengthByte ==
    /\ outcome = "reading" /\ ~builder.done
    /\ stream # <<>>
    /\ stream' = Tail(stream)
    /\ LET v == Add(builder, Head(stream), MaxLength) IN
         /\ builder' = v
         /\ missing' = IF v.verdict = "value" THEN v.value ELSE 0
         /\ outcome' = IF v.verdict = "error" THEN "badLength" ELSE "reading"
    /\ UNCHANGED <<writeVars, open, packet, received>>

(* io.ReadFull takes what is there. *)
ReadChunk(k) ==
    /\ outcome = "reading" /\ builder.done
    /\ k \in 1..missing /\ k <= Len(stream)
    /\ packet' = packet \o SubSeq(stream, 1, k)
    /\ missing' = missing - k
    /\ stream' = SubSeq(stream, k + 1, Len(stream))
    /\ UNCHANGED <<writeVars, open, builder, outcome, received>>

ReadReturns ==
    /\ outcome = "reading" /\ builder.done
    /\ missing = 0
    /\ received' = Append(received, packet)
    /\ packet' = <<>>
    /\ builder' = NewVarintBuilder
    /\ UNCHANGED <<writeVars, stream, open, missing, outcome>>

(* Mutant: every end of the stream is an orderly one. *)
ReadEndsOrderly ==
    /\ outcome = "reading" /\ (~builder.done \/ missing > 0)
    /\ stream = <<>> /\ ~open
    /\ outcome' = "eof"
    /\ UNCHANGED <<writeVars, stream, open, builder, packet, missing, received>>

(* The stream has ended: io.ReadFull returns io.EOF when it has read no     *)
(* byte of its buffer and io.ErrUnexpectedEOF otherwise.                    *)
ReadEnds ==
    /\ outcome = "reading" /\ (~builder.done \/ missing > 0)
    /\ stream = <<>> /\ ~open
    /\ outcome' = IF packet = <<>> THEN "eof" ELSE "unexpectedEof"
    /\ UNCHANGED <<writeVars, stream, open, builder, packet, missing, received>>

-----------------------------------------------------------------------------
Write(w) ==
    \/ \E p \in Payloads : BeginWrite(w, p)
    \/ todo # <<>> /\ \E k \in 1..Len(Head(todo)) : WriteChunk(w, k)
    \/ WriteReturns(w)
    \/ EndWrite(w)

Read ==
    \/ ReadLengthByte
    \/ \E k \in 1..missing : ReadChunk(k)
    \/ ReadReturns
    \/ ReadEnds

Next == (\E w \in Writers : Write(w)) \/ WriterEnds \/ Read

Spec == Init /\ [][Next]_vars

(* The reader and the writer that holds the mutex run; nobody has to begin  *)
(* a packet, and nobody has to end the process.                             *)
FairSpec ==
    /\ Spec
    /\ WF_vars(Read)
    /\ WF_vars(\E w \in Writers : muHolder = w /\ Write(w))

-----------------------------------------------------------------------------
(* Properties *)

(* Whatever the interleaving of the writers and however the bytes are cut,  *)
(* the reader gets the packets whole, in the order their writing began.     *)
PacketsWhole == received = SubSeq(written, 1, Len(received))

(* A stream this writer produced is never refused, and when its end is      *)
(* taken for an orderly one at most the packet being written is missing,    *)
(* of which no payload byte has arrived.                                    *)
EndIsOrderly ==
    /\ outcome # "badLength"
    /\ outcome \in {"eof", "unexpectedEof"} =>
         /\ Len(written) - Len(received) <= 1
         /\ muHolder = NoWriter => Len(written) = Len(received) /\ outcome = "eof"
    /\ outcome = "eof" => packet = <<>>

(* A packet that was begun arrives unless the process ends. *)
PacketsArrive == \A n \in 1..MaxPackets :
    Len(written) >= n ~> (Len(received) >= n \/ ~open)
=============================================================================
