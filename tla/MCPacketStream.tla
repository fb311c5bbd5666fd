-------------------------- MODULE MCPacketStream --------------------------
(* Payloads of different lengths, shorter and longer than a chunk. *)
EXTENDS PacketStream

FourPackets ==
  <<<<"a">>, <<"b", "b", "c", "c", "a">>, <<"c", "a">>, <<"b">>>>
=============================================================================
