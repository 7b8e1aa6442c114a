--------------------------- MODULE MCPcapCapture ----------------------------
(* Model-checking instance of PcapCapture: three packets, so that a        *)
(* Borrowed packet can be overtaken twice, and a consumer keeping two.    *)
EXTENDS PcapCapture

MCMaxPackets == 3
MCMaxHeld == 2
=============================================================================
