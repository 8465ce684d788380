----------------------------- MODULE PeerConns ------------------------------
(***************************************************************************)
(* The peers and the connections to them, for PeerRegistry and PeerEvents. *)
(***************************************************************************)

CONSTANTS
    Peers,          \* the remote nodes that support the storage protocol
    Conns,          \* bound: the connections there will ever be
    Remote,         \* Remote[c]: the peer at the other end
    Free            \* nobody holds peerLock

ASSUME ConnsAssumption == Remote \in [Conns -> Peers] /\ Free \notin Conns
=============================================================================
