--------------------------- MODULE MCPcapDevices ----------------------------
(* Model-checking instance of PcapDevices: two nodes of two addresses,     *)
(* one address of each family, so that a skipped address can sit before   *)
(* or after a known one and a failing node before or after a good one.     *)
EXTENDS PcapDevices

CONSTANTS n1, n2, a4, a6, m1, u1

MCNames == {n1, n2}
MCMaxNodes == 2
MCMaxAddrs == 2
=============================================================================
