---------------------------- MODULE MCPeerEvents ----------------------------
(***************************************************************************)
(* PeerEvents for TLC: two connections of one peer, one of another.        *)
(***************************************************************************)
EXTENDS PeerEvents, TLC

CONSTANTS p, q, c1, c2, c3

RemoteOf == c1 :> p @@ c2 :> p @@ c3 :> q
=============================================================================
