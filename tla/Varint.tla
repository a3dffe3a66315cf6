------------------------------- MODULE Varint -------------------------------
(***************************************************************************)
(* The varints of the embedded protocol: EncodeVarint                      *)
(* (embedded/length_delimited_transformer.go), VarintBuilder               *)
(* (embedded/varint_builder.go), and serializePacket and parsePacket       *)
(* (embedded/utils.go), which put a compilation ID before a message.       *)
(*                                                                         *)
(* A byte has PayloadBits payload bits (7 in the code) and a continuation  *)
(* bit above them, so that TLC can exhaust a small alphabet.               *)
(***************************************************************************)
EXTENDS Integers, Sequences

CONSTANT PayloadBits

ASSUME PayloadBitsPositive == PayloadBits \in Nat \ {0}

Radix == 2^PayloadBits          \* 0x80
Byte  == 0..(2 * Radix - 1)
Continues(b) == b >= Radix

-----------------------------------------------------------------------------
(* EncodeVarint *)

BitLength(v) == CHOOSE k \in 0..v : 2^k > v /\ \A j \in 0..(k - 1) : 2^j <= v

(* Mutant: one byte too many when the bits fill the bytes exactly. *)
EncodeVarintRoundsUp(v) ==
    IF v = 0 THEN <<0>>
    ELSE [k \in 1..(BitLength(v) \div PayloadBits + 1) |->
            LET rest == v \div 2^(PayloadBits * (k - 1)) IN
            (rest % Radix) + (IF rest >= Radix THEN Radix ELSE 0)]

EncodeVarint(v) ==
    IF v = 0 THEN <<0>>
    ELSE LET lengthInBytes == (BitLength(v) + PayloadBits - 1) \div PayloadBits
         IN  [k \in 1..lengthInBytes |->
                LET rest == v \div 2^(PayloadBits * (k - 1)) IN
                (rest % Radix) + (IF rest >= Radix THEN Radix ELSE 0)]

-----------------------------------------------------------------------------
(* VarintBuilder: value, bits and done are the struct's fields; verdict is *)
(* what the last Add returned.                                             *)

NewVarintBuilder == [value |-> 0, bits |-> 0, done |-> FALSE, verdict |-> "more"]

(* Mutant: the bits of the last byte are not checked. *)
AddUnchecked(v, b, maxLength) ==
    LET value == v.value + (b % Radix) * 2^v.bits
        bits  == v.bits + PayloadBits
    IN  IF v.done THEN [v EXCEPT !.verdict = "error"]
        ELSE IF Continues(b)
        THEN [value |-> value, bits |-> bits, done |-> bits >= maxLength,
              verdict |-> IF bits >= maxLength THEN "error" ELSE "more"]
        ELSE [value |-> value, bits |-> bits, done |-> TRUE,
              verdict |-> "value"]

Add(v, b, maxLength) ==
    LET value == v.value + (b % Radix) * 2^v.bits
        bits  == v.bits + PayloadBits
    IN  IF v.done THEN [v EXCEPT !.verdict = "error"]
        ELSE IF Continues(b)
        THEN [value |-> value, bits |-> bits, done |-> bits >= maxLength,
              verdict |-> IF bits >= maxLength THEN "error" ELSE "more"]
        ELSE [value |-> value, bits |-> bits, done |-> TRUE,
              verdict |-> IF bits > maxLength /\ value >= 2^maxLength
                          THEN "error" ELSE "value"]

(* The builder after the bytes of s. *)
Feed(s, maxLength) ==
    LET fed[k \in 0..Len(s)] == IF k = 0 THEN NewVarintBuilder
                                ELSE Add(fed[k - 1], s[k], maxLength)
    IN  fed[Len(s)]

-----------------------------------------------------------------------------
(* serializePacket and parsePacket *)

serializePacket(id, message) == EncodeVarint(id) \o message

(* The first byte that ends the varint, or breaks it, ends the loop.  "ok" *)
(* is false for every parse error.                                         *)
parsePacket(packet, maxLength) ==
    LET done(k) == Feed(SubSeq(packet, 1, k), maxLength).done
        ends    == {k \in 1..Len(packet) : done(k) /\ \A j \in 1..(k - 1) : ~done(j)}
        last    == CHOOSE k \in ends : TRUE
        v       == Feed(SubSeq(packet, 1, last), maxLength)
    IN  IF ends = {} \/ v.verdict = "error"
        THEN [ok |-> FALSE, id |-> 0, message |-> <<>>]
        ELSE [ok |-> TRUE, id |-> v.value, message |-> SubSeq(packet, last + 1, Len(packet))]
=============================================================================
