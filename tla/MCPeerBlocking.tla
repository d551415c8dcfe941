--------------------------- MODULE MCPeerBlocking ---------------------------
(* PeerBlocking for TLC: specs and goroutines are interchangeable. *)
EXTENDS PeerBlocking, TLC

Symmetry == Permutations(Specs) \cup Permutations(Workers)
=============================================================================
