----------------------------- MODULE PeerEvents -----------------------------
(***************************************************************************)
(* How the events of connections come to the table of storage peers: the   *)
(* notifier of internal/network/notifier.go publishes them on the bus      *)
(* (internal/event/event.go), the two listeners of FileServer.Start read   *)
(* them, and OnPeerConnect and OnPeerDisconnect                            *)
(* (internal/fileserver/fileserver.go) change the table under peerLock and *)
(* publish again, with peerLock held.                                      *)
(*                                                                         *)
(* Of the bus this module has what EventBus has for these goroutines: each *)
(* of PeerConnected and PeerDisconnected has one subscriber, the StoragePeer*)
(* events have none, so that their Publish only needs Bus.mu, and the      *)
(* commands of the process call Subscribe and Unsubscribe at any time.     *)
(* Publish calls of other types are left out: one that waits for room in a *)
(* command's channel would hold the bus, too (see EventBus).               *)
(* libp2p calls Connected and Disconnected of one connection one after the *)
(* other, and those of different connections concurrently.                 *)
(***************************************************************************)
EXTENDS PeerConns, Naturals, Sequences

CONSTANTS
    Cap,            \* the capacity of a channel (10 in Subscribe)
    MaxCalls        \* bound: the commands' calls of Subscribe and Unsubscribe

ASSUME EventsAssumption == Cap \in Nat \ {0} /\ MaxCalls \in Nat

VARIABLES
    conn,           \* conn[c]: the connection itself
    identified,     \* the peers whose protocols are in the peerstore
    notify,         \* notify[c]: the notifier's calls for c
    connectCh,      \* peerConnectCh of FileServer.Start
    disconnectCh,   \* peerDisconnectCh of FileServer.Start
    locking,        \* a command has called Bus.mu.Lock and not unlocked it yet
    calls,          \* the calls of Subscribe and Unsubscribe so far
    joining,        \* joining[c]: OnPeerConnect for c
    leaving,        \* leaving[c]: OnPeerDisconnect for c
    peers,          \* FileServer.peers
    peerLock,       \* the connection whose handler holds peerLock
    late            \* history: c's peer was not connected when c was registered

network == <<conn, identified>>
bus == <<notify, connectCh, disconnectCh, locking, calls>>
table == <<joining, leaving, peers, peerLock, late>>
vars == <<network, bus, table>>

NotifyStates == {"none", "connected", "sendingUp", "between", "sendingDown", "returned"}
JoinStates == {"none", "sleeping", "checked", "registering", "listed", "skipped"}
LeaveStates == {"none", "waiting", "removing", "announcing", "done"}

TypeOK ==
    /\ conn \in [Conns -> {"none", "up", "down"}]
    /\ identified \subseteq Peers
    /\ notify \in [Conns -> NotifyStates]
    /\ connectCh \in Seq(Conns) /\ Len(connectCh) <= Cap
    /\ disconnectCh \in Seq(Conns) /\ Len(disconnectCh) <= Cap
    /\ locking \in BOOLEAN
    /\ calls \in 0..MaxCalls
    /\ joining \in [Conns -> JoinStates]
    /\ leaving \in [Conns -> LeaveStates]
    /\ peers \subseteq Peers
    /\ peerLock \in Conns \cup {Free}
    /\ late \subseteq Conns

Init ==
    /\ conn = [c \in Conns |-> "none"]
    /\ identified = {}
    /\ notify = [c \in Conns |-> "none"]
    /\ connectCh = <<>>
    /\ disconnectCh = <<>>
    /\ locking = FALSE
    /\ calls = 0
    /\ joining = [c \in Conns |-> "none"]
    /\ leaving = [c \in Conns |-> "none"]
    /\ peers = {}
    /\ peerLock = Free
    /\ late = {}

\* Network().Connectedness is Connected or Limited.
Connected(p) == \E c \in Conns : Remote[c] = p /\ conn[c] = "up"

-----------------------------------------------------------------------------
(* Connections *)

\* A connection is up, whoever dialed it (Delivery has the dials of
\* Manager.connect): the swarm calls Notifier.Connected.
ConnUp(c) ==
    /\ conn[c] = "none"
    /\ conn' = [conn EXCEPT ![c] = "up"]
    /\ notify' = [notify EXCEPT ![c] = "connected"]
    /\ UNCHANGED <<identified, connectCh, disconnectCh, locking, calls, table>>

\* libp2p's identify has exchanged the protocols.
Identify(p) ==
    /\ Connected(p)
    /\ p \notin identified
    /\ identified' = identified \cup {p}
    /\ UNCHANGED <<conn, bus, table>>

\* A connection is lost or closed.
ConnDown(c) ==
    /\ conn[c] = "up"
    /\ conn' = [conn EXCEPT ![c] = "down"]
    /\ UNCHANGED <<identified, bus, table>>

-----------------------------------------------------------------------------
(* The bus *)

\* The Publish calls that hold Bus.mu.RLock.
Readers == {c \in Conns : notify[c] \in {"sendingUp", "sendingDown"}}

\* Publish of Notifier.Connected: RLock, which a command that waits keeps out.
PublishConnected(c) ==
    /\ notify[c] = "connected"
    /\ ~locking
    /\ notify' = [notify EXCEPT ![c] = "sendingUp"]
    /\ UNCHANGED <<network, connectCh, disconnectCh, locking, calls, table>>

\* The send, which waits for room, and RUnlock.
SendConnected(c) ==
    /\ notify[c] = "sendingUp"
    /\ Len(connectCh) < Cap
    /\ connectCh' = Append(connectCh, c)
    /\ notify' = [notify EXCEPT ![c] = "between"]
    /\ UNCHANGED <<network, disconnectCh, locking, calls, table>>

\* Publish of Notifier.Disconnected.
PublishDisconnected(c) ==
    /\ notify[c] = "between"
    /\ conn[c] = "down"
    /\ ~locking
    /\ notify' = [notify EXCEPT ![c] = "sendingDown"]
    /\ UNCHANGED <<network, connectCh, disconnectCh, locking, calls, table>>

\* Mutant: the send does not wait for room.
SendDisconnectedAnyway(c) ==
    /\ notify[c] = "sendingDown"
    /\ disconnectCh' = Append(disconnectCh, c)
    /\ notify' = [notify EXCEPT ![c] = "returned"]
    /\ UNCHANGED <<network, connectCh, locking, calls, table>>

\* Mutant: an event that finds no room is dropped.
SendDisconnectedOrDrop(c) ==
    /\ notify[c] = "sendingDown"
    /\ disconnectCh' = IF Len(disconnectCh) < Cap THEN Append(disconnectCh, c) ELSE disconnectCh
    /\ notify' = [notify EXCEPT ![c] = "returned"]
    /\ UNCHANGED <<network, connectCh, locking, calls, table>>

SendDisconnected(c) ==
    /\ notify[c] = "sendingDown"
    /\ Len(disconnectCh) < Cap
    /\ disconnectCh' = Append(disconnectCh, c)
    /\ notify' = [notify EXCEPT ![c] = "returned"]
    /\ UNCHANGED <<network, connectCh, locking, calls, table>>

\* A command calls Subscribe or Unsubscribe ...
CommandLocks ==
    /\ ~locking
    /\ calls < MaxCalls
    /\ locking' = TRUE
    /\ calls' = calls + 1
    /\ UNCHANGED <<network, notify, connectCh, disconnectCh, table>>

\* ... and has the lock, and is done with it, when the readers are gone.
CommandUnlocks ==
    /\ locking
    /\ Readers = {}
    /\ locking' = FALSE
    /\ UNCHANGED <<network, notify, connectCh, disconnectCh, calls, table>>

-----------------------------------------------------------------------------
(* OnPeerConnect *)

\* The listener's goroutine starts another one, which sleeps for 500 ms.
StartJoin(c) ==
    /\ connectCh # <<>>
    /\ c = Head(connectCh)
    /\ connectCh' = Tail(connectCh)
    /\ joining' = [joining EXCEPT ![c] = "sleeping"]
    /\ UNCHANGED <<network, notify, disconnectCh, locking, calls, leaving, peers, peerLock, late>>

\* Connectedness and GetProtocols, without peerLock.
CheckPeer(c) ==
    /\ joining[c] = "sleeping"
    /\ joining' = [joining EXCEPT ![c] =
            IF Connected(Remote[c]) /\ Remote[c] \in identified
            THEN "checked" ELSE "skipped"]
    /\ UNCHANGED <<network, bus, leaving, peers, peerLock, late>>

\* Under peerLock: a peer that is in the table is left as it is.
FindPeer(c) ==
    /\ joining[c] = "checked"
    /\ peerLock = Free
    /\ Remote[c] \in peers
    /\ joining' = [joining EXCEPT ![c] = "listed"]
    /\ UNCHANGED <<network, bus, leaving, peers, peerLock, late>>

\* Otherwise it is added, and its event published with peerLock held.
AddPeer(c) ==
    /\ joining[c] = "checked"
    /\ peerLock = Free
    /\ Remote[c] \notin peers
    /\ peerLock' = c
    /\ peers' = peers \cup {Remote[c]}
    /\ joining' = [joining EXCEPT ![c] = "registering"]
    /\ late' = IF Connected(Remote[c]) THEN late ELSE late \cup {c}
    /\ UNCHANGED <<network, bus, leaving>>

\* Publish of StoragePeerRegistered, and the deferred unlock.
AnnounceAdd(c) ==
    /\ joining[c] = "registering"
    /\ ~locking
    /\ peerLock' = Free
    /\ joining' = [joining EXCEPT ![c] = "listed"]
    /\ UNCHANGED <<network, bus, leaving, peers, late>>

-----------------------------------------------------------------------------
(* OnPeerDisconnect, in the listener's goroutine: one event at a time *)

Busy == \E d \in Conns : leaving[d] \in {"waiting", "removing", "announcing"}

StartLeave(c) ==
    /\ ~Busy
    /\ disconnectCh # <<>>
    /\ c = Head(disconnectCh)
    /\ disconnectCh' = Tail(disconnectCh)
    /\ leaving' = [leaving EXCEPT ![c] = "waiting"]
    /\ UNCHANGED <<network, notify, connectCh, locking, calls, joining, peers, peerLock, late>>

\* Mutant: a connection that ends takes its peer out, whatever else is up.
CheckGoneAny(c) ==
    /\ leaving[c] = "waiting"
    /\ peerLock = Free
    /\ IF Remote[c] \notin peers
       THEN leaving' = [leaving EXCEPT ![c] = "done"] /\ UNCHANGED peerLock
       ELSE leaving' = [leaving EXCEPT ![c] = "removing"] /\ peerLock' = c
    /\ UNCHANGED <<network, bus, joining, peers, late>>

\* With peerLock: it returns if the peer is still connected, or is not in the
\* table.
CheckGone(c) ==
    /\ leaving[c] = "waiting"
    /\ peerLock = Free
    /\ IF Connected(Remote[c]) \/ Remote[c] \notin peers
       THEN leaving' = [leaving EXCEPT ![c] = "done"] /\ UNCHANGED peerLock
       ELSE leaving' = [leaving EXCEPT ![c] = "removing"] /\ peerLock' = c
    /\ UNCHANGED <<network, bus, joining, peers, late>>

RemovePeer(c) ==
    /\ leaving[c] = "removing"
    /\ leaving' = [leaving EXCEPT ![c] = "announcing"]
    /\ peers' = peers \ {Remote[c]}
    /\ UNCHANGED <<network, bus, joining, peerLock, late>>

\* Mutant: the lock is not released.
AnnounceRemovalKeepsLock(c) ==
    /\ leaving[c] = "announcing"
    /\ ~locking
    /\ leaving' = [leaving EXCEPT ![c] = "done"]
    /\ UNCHANGED <<network, bus, joining, peers, peerLock, late>>

\* Publish of StoragePeerUnregistered, and the deferred unlock.
AnnounceRemoval(c) ==
    /\ leaving[c] = "announcing"
    /\ ~locking
    /\ peerLock' = Free
    /\ leaving' = [leaving EXCEPT ![c] = "done"]
    /\ UNCHANGED <<network, bus, joining, peers, late>>

-----------------------------------------------------------------------------
NetworkStep(c) == ConnUp(c) \/ ConnDown(c)
NotifyStep(c) ==
    \/ PublishConnected(c) \/ SendConnected(c)
    \/ PublishDisconnected(c) \/ SendDisconnected(c)
JoinStep(c) == StartJoin(c) \/ CheckPeer(c) \/ FindPeer(c) \/ AddPeer(c) \/ AnnounceAdd(c)
LeaveStep(c) == StartLeave(c) \/ CheckGone(c) \/ RemovePeer(c) \/ AnnounceRemoval(c)

Next ==
    \/ \E c \in Conns : NetworkStep(c) \/ NotifyStep(c) \/ JoinStep(c) \/ LeaveStep(c)
    \/ \E p \in Peers : Identify(p)
    \/ CommandLocks \/ CommandUnlocks

Spec == Init /\ [][Next]_vars

\* The Go scheduler runs every goroutine that can run: the notifier's calls,
\* the two listeners, the goroutines of OnPeerConnect and the commands.
FairSpec ==
    /\ Spec
    /\ \A c \in Conns :
        WF_vars(NotifyStep(c)) /\ WF_vars(JoinStep(c)) /\ WF_vars(LeaveStep(c))
    /\ WF_vars(CommandUnlocks)

-----------------------------------------------------------------------------
(* What the events are for *)

\* The table without the bus: an event is pending as long as it is on its way
\* to its handler, and a change of the table is done when it is made.
Join == [c \in Conns |->
    CASE joining[c] = "none" /\ conn[c] \in {"up", "down"} -> "notified"
      [] joining[c] = "registering" -> "listed"
      [] OTHER -> joining[c]]
Leave == [c \in Conns |->
    CASE leaving[c] \in {"none", "waiting"} /\ conn[c] = "down" -> "notified"
      [] leaving[c] = "announcing" -> "done"
      [] OTHER -> leaving[c]]
Remover == IF \E c \in Conns : peerLock = c /\ leaving[c] = "removing" THEN peerLock ELSE Free

R == INSTANCE PeerRegistry WITH joining <- Join, leaving <- Leave, peerLock <- Remover

\* The bus, its channels and the two locks carry the events so that each step
\* is one the table may take by itself.
Implements == R!Spec

\* A peer is in the table as long as a connection to it is up whose
\* OnPeerConnect has come to its end: the late handling of an older
\* connection's end never takes a connected peer out of the table.
Listed == R!Listed

\* c is down and OnPeerDisconnect for it has yet to do its work: in Publish, in
\* the channel or in the handler.
Ending(c) ==
    /\ conn[c] = "down"
    /\ \/ notify[c] # "returned"
       \/ \E i \in DOMAIN disconnectCh : disconnectCh[i] = c
       \/ leaving[c] \in {"waiting", "removing"}

\* A peer in the table is connected, or the end of one of its connections is
\* still on its way, or it went between OnPeerConnect's look at it and its
\* registration: nothing else leaves a peer behind that is gone, although the
\* events of its connections come late and in any order.
NoGhost ==
    \A p \in peers : \E c \in Conns :
        Remote[c] = p /\ (conn[c] = "up" \/ Ending(c) \/ c \in late)

\* A Publish waits for room in peerDisconnectCh with the bus read-locked, and
\* a command waits for the bus: whoever publishes with peerLock held now waits
\* for the listener, which waits for peerLock.
Circle == locking /\ Len(disconnectCh) = Cap /\ \E c \in Conns : notify[c] = "sendingDown"

\* Every event of a connection so far has been published, read and handled, and
\* nobody holds a lock.
Quiet ==
    /\ peerLock = Free /\ ~locking
    /\ \A c \in Conns :
        /\ conn[c] \in {"up", "down"} => joining[c] \in {"listed", "skipped"}
        /\ conn[c] = "down" => leaving[c] = "done"

\* As long as that does not happen, all comes to rest when the connections do:
\* peerLock is given back, so that ListPeers returns and with it every get and
\* store, although the handlers publish with peerLock held; a connection that
\* passed OnPeerConnect's checks gets its peer listed; no event is lost.
EventsHandled == [](~Circle) => <>[]Quiet
=============================================================================
