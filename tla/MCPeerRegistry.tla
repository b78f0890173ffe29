--------------------------- MODULE MCPeerRegistry ---------------------------
(* Two peers, two connections to each, and two starts of the daemon. *)
EXTENDS PeerRegistry, TLC

CONSTANTS alice, bob

MCPeers    == {alice, bob}
MCSymmetry == Permutations(MCPeers)
=============================================================================
