---------------------------- MODULE PeerRegistry ----------------------------
(***************************************************************************)
(* What the table of storage peers promises, whatever carries the events   *)
(* to it: OnPeerConnect and OnPeerDisconnect of                            *)
(* internal/fileserver/fileserver.go.  ListPeers is the value of "peers".  *)
(*                                                                         *)
(* A connection c is between this node and Remote[c].  Its two events go   *)
(* to two goroutines, so they may be handled in either order, and each may *)
(* be handled any time later.  PeerEvents adds the event bus and the locks *)
(* that the events go through, and implements this specification.          *)
(***************************************************************************)
EXTENDS PeerConns

VARIABLES
    conn,           \* conn[c]: the connection itself
    identified,     \* the peers whose protocols are in the peerstore
    joining,        \* joining[c]: OnPeerConnect for c
    leaving,        \* leaving[c]: OnPeerDisconnect for c
    peers,          \* FileServer.peers
    peerLock        \* the connection whose OnPeerDisconnect holds peerLock

vars == <<conn, identified, joining, leaving, peers, peerLock>>

TypeOK ==
    /\ conn \in [Conns -> {"none", "up", "down"}]
    /\ identified \subseteq Peers
    /\ joining \in [Conns -> {"none", "notified", "sleeping", "checked", "listed", "skipped"}]
    /\ leaving \in [Conns -> {"none", "notified", "removing", "done"}]
    /\ peers \subseteq Peers
    /\ peerLock \in Conns \cup {Free}

Init ==
    /\ conn = [c \in Conns |-> "none"]
    /\ identified = {}
    /\ joining = [c \in Conns |-> "none"]
    /\ leaving = [c \in Conns |-> "none"]
    /\ peers = {}
    /\ peerLock = Free

\* Network().Connectedness is Connected or Limited.
Connected(p) == \E c \in Conns : Remote[c] = p /\ conn[c] = "up"

-----------------------------------------------------------------------------
(* Connections *)

\* A connection is up, whoever dialed it; Notifier.Connected publishes
\* PeerConnected.
ConnUp(c) ==
    /\ conn[c] = "none"
    /\ conn' = [conn EXCEPT ![c] = "up"]
    /\ joining' = [joining EXCEPT ![c] = "notified"]
    /\ UNCHANGED <<identified, leaving, peers, peerLock>>

\* libp2p's identify has exchanged the protocols.
Identify(p) ==
    /\ Connected(p)
    /\ p \notin identified
    /\ identified' = identified \cup {p}
    /\ UNCHANGED <<conn, joining, leaving, peers, peerLock>>

\* A connection is lost or closed; Notifier.Disconnected publishes
\* PeerDisconnected.
ConnDown(c) ==
    /\ conn[c] = "up"
    /\ conn' = [conn EXCEPT ![c] = "down"]
    /\ leaving' = [leaving EXCEPT ![c] = "notified"]
    /\ UNCHANGED <<identified, joining, peers, peerLock>>

-----------------------------------------------------------------------------
(* OnPeerConnect *)

\* The listener's goroutine starts another one, which sleeps for 500 ms.
StartJoin(c) ==
    /\ joining[c] = "notified"
    /\ joining' = [joining EXCEPT ![c] = "sleeping"]
    /\ UNCHANGED <<conn, identified, leaving, peers, peerLock>>

\* Connectedness and GetProtocols, without peerLock.
CheckPeer(c) ==
    /\ joining[c] = "sleeping"
    /\ joining' = [joining EXCEPT ![c] =
            IF Connected(Remote[c]) /\ Remote[c] \in identified
            THEN "checked" ELSE "skipped"]
    /\ UNCHANGED <<conn, identified, leaving, peers, peerLock>>

\* Under peerLock: the peer is added unless it is there.
Register(c) ==
    /\ joining[c] = "checked"
    /\ peerLock = Free
    /\ joining' = [joining EXCEPT ![c] = "listed"]
    /\ peers' = peers \cup {Remote[c]}
    /\ UNCHANGED <<conn, identified, leaving, peerLock>>

-----------------------------------------------------------------------------
(* OnPeerDisconnect, which holds peerLock from its first line to its last *)

\* It returns if the peer is still connected, or is not in the table.
CheckGone(c) ==
    /\ leaving[c] = "notified"
    /\ peerLock = Free
    /\ IF Connected(Remote[c]) \/ Remote[c] \notin peers
       THEN leaving' = [leaving EXCEPT ![c] = "done"] /\ UNCHANGED peerLock
       ELSE leaving' = [leaving EXCEPT ![c] = "removing"] /\ peerLock' = c
    /\ UNCHANGED <<conn, identified, joining, peers>>

\* Otherwise the peer is removed.
Unregister(c) ==
    /\ leaving[c] = "removing"
    /\ leaving' = [leaving EXCEPT ![c] = "done"]
    /\ peers' = peers \ {Remote[c]}
    /\ peerLock' = Free
    /\ UNCHANGED <<conn, identified, joining>>

-----------------------------------------------------------------------------
JoinStep(c) == StartJoin(c) \/ CheckPeer(c) \/ Register(c)
LeaveStep(c) == CheckGone(c) \/ Unregister(c)

Next ==
    \/ \E c \in Conns :
        \/ ConnUp(c) \/ ConnDown(c)
        \/ JoinStep(c) \/ LeaveStep(c)
    \/ \E p \in Peers : Identify(p)

Spec == Init /\ [][Next]_vars

-----------------------------------------------------------------------------
\* A peer is in the table as long as a connection to it is up whose
\* OnPeerConnect has come to its end: the late handling of an older
\* connection's end never takes a connected peer out of the table.
Listed == \A c \in Conns : conn[c] = "up" /\ joining[c] = "listed" => Remote[c] \in peers
=============================================================================
