--------------------------- MODULE MCStoreCommand ---------------------------
(***************************************************************************)
(* StoreCommand for TLC: interchangeable peers.                            *)
(***************************************************************************)
EXTENDS StoreCommand

PeerSymmetry == Permutations(Peers)
=============================================================================
