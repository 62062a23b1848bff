-------------------------- MODULE MCUdpTransmitter --------------------------
(* UdpTransmitter with a queue of two packets and at most MaxOffers calls  *)
(* of try_send, start and stop at any time between them.                   *)
EXTENDS UdpTransmitter

Packets == 1 .. MaxOffers
=============================================================================
