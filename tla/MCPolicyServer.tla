--------------------------- MODULE MCPolicyServer ---------------------------
(***************************************************************************)
(* Small instances of PolicyServer: two clients; three engines that stand  *)
(* for the three kinds controld has: 1 nftables (kernel state, atomic,     *)
(* always runs nft under ctx), 2 suricata (child process), 3 frr (files of *)
(* a system service).                                                      *)
(***************************************************************************)
EXTENDS PolicyServerInv, TLC

Nftables == {1}
Suricata == {2}
Frr == {3}
NoEngines == {}

Symmetry == Permutations(Clients)
=============================================================================
