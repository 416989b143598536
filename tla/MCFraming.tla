----------------------------- MODULE MCFraming ------------------------------
(* Framing.tla for TLC: no payload, some payload, more than fits.          *)
EXTENDS Framing

PacketLengths == {3, 5}
=============================================================================
