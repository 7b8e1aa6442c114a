---------------------------- MODULE MCPcapHandle ----------------------------
(* Model-checking instance of PcapHandle: two native handles, so that a    *)
(* builder-made and a Pcap::new-made handle coexist, two program slots and *)
(* two simultaneous borrows per handle.                                   *)
EXTENDS PcapHandle

CONSTANTS h1, h2, f1, f2

MCHandles == {h1, h2}
MCFilters == {f1, f2}
MCMaxBorrows == 2
=============================================================================
