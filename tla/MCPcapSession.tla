---------------------------- MODULE MCPcapSession ---------------------------
(* Model-checking instance of PcapSession: two handles, so that the        *)
(* session may run on a builder-made or a Pcap::new-made one while the     *)
(* other is created and dropped, one program slot, two packets.            *)
EXTENDS PcapSession

CONSTANTS h1, h2, f1

MCHandles == {h1, h2}
MCFilters == {f1}
MCMaxPackets == 2
MCMaxHeld == 2
MCMaxBorrows == 3
=============================================================================
