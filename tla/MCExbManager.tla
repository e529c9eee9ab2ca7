--------------------------- MODULE MCExbManager ----------------------------
(* Two EXBs for the single buffers of three rings, flits of two packets.    *)
EXTENDS ExbManager
MCBuffer == 0..2
MCPacket == {1, 2}
=============================================================================
