--------------------------- MODULE PacketStreamMC ---------------------------
(* An instance of PacketStream for TLC: two payload bits to a byte and      *)
(* lengths of at most five bits, so that a length takes up to three bytes.  *)
EXTENDS PacketStream

SmallPayloads == {<<>>, <<1>>, <<7, 0, 5, 4, 2>>}
=============================================================================
