-------------------------- MODULE PeerEventsProofs --------------------------
(***************************************************************************)
(* Proofs about PeerEvents for every number of peers and connections and   *)
(* every capacity: it implements PeerRegistry, and so keeps what is proved  *)
(* of that.                                                                *)
(***************************************************************************)
EXTENDS PeerEvents, SequenceTheorems, TLAPS

Has(s, c) == \E i \in DOMAIN s : s[i] = c
Distinct(s) == \A i, j \in DOMAIN s : s[i] = s[j] => i = j

\* The notifier's calls for a connection come after it is up, and its second
\* call after it is down.
NotifyInv ==
    \A c \in Conns :
        /\ conn[c] = "none" <=> notify[c] = "none"
        /\ notify[c] \in {"sendingDown", "returned"} => conn[c] = "down"

\* An event is in its channel at most once, between its Publish and its handler.
ChannelInv ==
    /\ Distinct(connectCh) /\ Distinct(disconnectCh)
    /\ \A c \in Conns :
        /\ notify[c] \in {"none", "connected", "sendingUp"} =>
              joining[c] = "none" /\ ~Has(connectCh, c)
        /\ Has(connectCh, c) => joining[c] = "none"
        /\ notify[c] # "returned" => leaving[c] = "none" /\ ~Has(disconnectCh, c)
        /\ Has(disconnectCh, c) => leaving[c] = "none"

\* Only one handler is between Lock and Unlock of peerLock.
LockInv ==
    \A c \in Conns :
        /\ leaving[c] \in {"removing", "announcing"} => peerLock = c
        /\ joining[c] = "registering" =>
              peerLock = c /\ leaving[c] \notin {"removing", "announcing"}

IndInv == TypeOK /\ NotifyInv /\ ChannelInv /\ LockInv

-----------------------------------------------------------------------------
(* Channels *)

\* A send puts one more event at the end.
LEMMA SendProperties ==
  ASSUME NEW S, NEW s \in Seq(S), NEW e \in S, Distinct(s), ~Has(s, e)
  PROVE  /\ Append(s, e) \in Seq(S) /\ Len(Append(s, e)) = Len(s) + 1
         /\ Distinct(Append(s, e))
         /\ \A c : Has(Append(s, e), c) <=> Has(s, c) \/ c = e
  <1> DEFINE t == Append(s, e)
  <1>1. /\ t \in Seq(S) /\ Len(t) = Len(s) + 1 /\ Len(s) \in Nat
        /\ DOMAIN s = 1..Len(s) /\ DOMAIN t = 1..(Len(s) + 1)
        /\ \A i \in 1..Len(s) : t[i] = s[i]
        /\ t[Len(s) + 1] = e
    BY AppendProperties
  <1> HIDE DEF t
  <1>2. \A i \in DOMAIN t : i \in DOMAIN s \/ i = Len(s) + 1
    BY <1>1
  <1>3. Distinct(t)
    BY <1>1, <1>2 DEF Distinct, Has
  <1>4. ASSUME NEW c PROVE Has(t, c) <=> Has(s, c) \/ c = e
    <2>1. Has(t, c) => Has(s, c) \/ c = e
      BY <1>1, <1>2 DEF Has
    <2>2. Has(s, c) => Has(t, c)
      BY <1>1 DEF Has
    <2>3. Len(s) + 1 \in DOMAIN t
      BY <1>1
    <2>4. c = e => Has(t, c)
      BY <1>1, <2>3 DEF Has
    <2> QED
      BY <2>1, <2>2, <2>4
  <1> QED
    BY <1>1, <1>3, <1>4 DEF t

\* A receive takes the first event, which is then gone.
LEMMA ReceiveProperties ==
  ASSUME NEW S, NEW s \in Seq(S), s # <<>>, Distinct(s)
  PROVE  /\ Head(s) \in S /\ Has(s, Head(s))
         /\ Tail(s) \in Seq(S) /\ Len(Tail(s)) = Len(s) - 1
         /\ Distinct(Tail(s))
         /\ \A c : Has(Tail(s), c) <=> Has(s, c) /\ c # Head(s)
  <1> DEFINE t == Tail(s)
  <1>1. /\ t \in Seq(S) /\ Len(t) = Len(s) - 1 /\ Len(s) \in Nat \ {0}
        /\ DOMAIN s = 1..Len(s) /\ DOMAIN t = 1..(Len(s) - 1)
        /\ \A i \in 1..(Len(s) - 1) : t[i] = s[i + 1]
        /\ Head(s) = s[1] /\ Head(s) \in S
    BY HeadTailProperties, EmptySeq
  <1> HIDE DEF t
  <1>2. 1 \in DOMAIN s
    BY <1>1
  <1>3. \A i \in DOMAIN t : i \in Int /\ i + 1 \in DOMAIN s /\ i + 1 # 1 /\ t[i] = s[i + 1]
    BY <1>1
  <1>4. Distinct(t)
    <2> SUFFICES ASSUME NEW i \in DOMAIN t, NEW j \in DOMAIN t, t[i] = t[j] PROVE i = j
      BY DEF Distinct
    <2>1. i + 1 = j + 1
      BY <1>3 DEF Distinct
    <2> QED
      BY <1>3, <2>1
  <1>5. ASSUME NEW c PROVE Has(t, c) <=> Has(s, c) /\ c # Head(s)
    <2>1. Has(t, c) => Has(s, c) /\ c # Head(s)
      BY <1>1, <1>2, <1>3 DEF Has, Distinct
    <2>2. ASSUME Has(s, c), c # Head(s) PROVE Has(t, c)
      <3>1. PICK i \in DOMAIN s : s[i] = c
        BY <2>2 DEF Has
      <3>2. i - 1 \in 1..(Len(s) - 1) /\ (i - 1) + 1 = i
        BY <1>1, <2>2, <3>1
      <3>3. i - 1 \in DOMAIN t /\ t[i - 1] = c
        BY <1>1, <3>1, <3>2
      <3> QED
        BY <3>3 DEF Has
    <2> QED
      BY <2>1, <2>2
  <1> QED
    BY <1>1, <1>2, <1>4, <1>5 DEF t, Has

-----------------------------------------------------------------------------
(* The invariant *)

\* No connection at first.
LEMMA InitEstablishes == Init => IndInv
  <1> SUFFICES ASSUME Init PROVE IndInv
    OBVIOUS
  <1>1. TypeOK
    <2>1. calls \in 0..MaxCalls /\ Len(connectCh) <= Cap /\ Len(disconnectCh) <= Cap
      BY EventsAssumption DEF Init
    <2>2. locking \in BOOLEAN
      BY DEF Init
    <2>3. peerLock \in Conns \cup {Free} /\ connectCh \in Seq(Conns) /\ disconnectCh \in Seq(Conns)
      BY DEF Init
    <2> QED
      BY <2>1, <2>2, <2>3 DEF Init, TypeOK, NotifyStates, JoinStates, LeaveStates
  <1>2. NotifyInv /\ LockInv
    BY DEF Init, NotifyInv, LockInv
  <1>3. Distinct(<<>>) /\ \A c \in Conns : ~Has(<<>>, c)
    BY DEF Has, Distinct
  <1>4. ChannelInv
    BY <1>3 DEF Init, ChannelInv
  <1> QED
    BY <1>1, <1>2, <1>4 DEF IndInv

\* Connections and their identification.
LEMMA NetworkPreserves ==
  ASSUME IndInv, (\E c \in Conns : NetworkStep(c)) \/ (\E p \in Peers : Identify(p))
  PROVE  IndInv'
  <1> USE DEF IndInv, NetworkStep, ConnUp, ConnDown, Identify, bus, table
  <1>1. TypeOK'
    BY DEF TypeOK, NotifyStates
  <1>2. NotifyInv'
    BY DEF TypeOK, NotifyInv
  <1>3. ChannelInv'
    BY DEF TypeOK, NotifyInv, ChannelInv
  <1>4. LockInv'
    BY DEF LockInv
  <1> QED
    BY <1>1, <1>2, <1>3, <1>4

\* The notifier's calls, and the commands that lock the bus.
LEMMA BusPreserves ==
  ASSUME IndInv, (\E c \in Conns : NotifyStep(c)) \/ CommandLocks \/ CommandUnlocks
  PROVE  IndInv'
  <1> USE DEF IndInv
  <1>1. ASSUME NEW c \in Conns, PublishConnected(c) \/ PublishDisconnected(c) PROVE IndInv'
    <2> USE <1>1 DEF PublishConnected, PublishDisconnected, network, table
    <2>1. TypeOK'
      BY DEF TypeOK, NotifyStates
    <2>2. NotifyInv' /\ LockInv'
      BY DEF TypeOK, NotifyInv, LockInv
    <2>3. ChannelInv'
      BY DEF TypeOK, ChannelInv
    <2> QED
      BY <2>1, <2>2, <2>3
  <1>2. ASSUME NEW c \in Conns, SendConnected(c) PROVE IndInv'
    <2> USE <1>2 DEF SendConnected, network, table
    <2>1. /\ connectCh' \in Seq(Conns) /\ Len(connectCh') = Len(connectCh) + 1
          /\ Len(connectCh) \in Nat /\ Distinct(connectCh')
          /\ \A d : Has(connectCh', d) <=> Has(connectCh, d) \/ d = c
      BY SendProperties DEF TypeOK, ChannelInv
    <2>2. TypeOK'
      BY <2>1, EventsAssumption DEF TypeOK, NotifyStates
    <2>3. NotifyInv' /\ LockInv'
      BY DEF TypeOK, NotifyInv, LockInv
    <2>4. ChannelInv'
      BY <2>1 DEF TypeOK, ChannelInv
    <2> QED
      BY <2>2, <2>3, <2>4
  <1>3. ASSUME NEW c \in Conns, SendDisconnected(c) PROVE IndInv'
    <2> USE <1>3 DEF SendDisconnected, network, table
    <2>1. /\ disconnectCh' \in Seq(Conns) /\ Len(disconnectCh') = Len(disconnectCh) + 1
          /\ Len(disconnectCh) \in Nat /\ Distinct(disconnectCh')
          /\ \A d : Has(disconnectCh', d) <=> Has(disconnectCh, d) \/ d = c
      BY SendProperties DEF TypeOK, ChannelInv
    <2>2. TypeOK'
      BY <2>1, EventsAssumption DEF TypeOK, NotifyStates
    <2>3. NotifyInv' /\ LockInv'
      BY DEF TypeOK, NotifyInv, LockInv
    <2>4. ChannelInv'
      BY <2>1 DEF TypeOK, ChannelInv
    <2> QED
      BY <2>2, <2>3, <2>4
  <1>4. CASE CommandLocks \/ CommandUnlocks
    <2> USE <1>4 DEF CommandLocks, CommandUnlocks, network, table
    <2>1. TypeOK'
      <3>1. calls' \in 0..MaxCalls
        BY EventsAssumption DEF TypeOK
      <3>2. locking' \in BOOLEAN
        OBVIOUS
      <3> QED
        BY <3>1, <3>2 DEF TypeOK
    <2>2. NotifyInv' /\ LockInv'
      BY DEF NotifyInv, LockInv
    <2>3. ChannelInv'
      BY DEF ChannelInv
    <2> QED
      BY <2>1, <2>2, <2>3
  <1> QED
    BY <1>1, <1>2, <1>3, <1>4 DEF NotifyStep

\* OnPeerConnect.
LEMMA JoinPreserves ==
  ASSUME IndInv, NEW c \in Conns, JoinStep(c)
  PROVE  IndInv'
  <1> USE DEF IndInv
  <1>1. CASE StartJoin(c)
    <2> USE <1>1 DEF StartJoin, network
    <2>1. /\ connectCh' \in Seq(Conns) /\ Len(connectCh') = Len(connectCh) - 1
          /\ Len(connectCh) \in Nat /\ Distinct(connectCh')
          /\ Has(connectCh, c)
          /\ \A d : Has(connectCh', d) <=> Has(connectCh, d) /\ d # c
      BY ReceiveProperties DEF TypeOK, ChannelInv
    <2>2. TypeOK'
      BY <2>1, EventsAssumption DEF TypeOK, JoinStates
    <2>3. NotifyInv' /\ LockInv'
      BY DEF TypeOK, NotifyInv, LockInv
    <2>4. ChannelInv'
      BY <2>1 DEF TypeOK, ChannelInv
    <2> QED
      BY <2>2, <2>3, <2>4
  <1>2. CASE CheckPeer(c) \/ FindPeer(c) \/ AddPeer(c) \/ AnnounceAdd(c)
    <2> USE <1>2 DEF CheckPeer, FindPeer, AddPeer, AnnounceAdd, network, bus
    <2>1. TypeOK'
      BY ConnsAssumption DEF TypeOK, JoinStates
    <2>2. NotifyInv'
      BY DEF NotifyInv
    <2>3. joining[c] # "none" /\ joining' = [joining EXCEPT ![c] = joining'[c]] /\ UNCHANGED leaving
      BY DEF TypeOK
    <2>4. ChannelInv'
      BY <2>3 DEF TypeOK, ChannelInv
    <2>5. LockInv'
      BY ConnsAssumption DEF TypeOK, LockInv
    <2> QED
      BY <2>1, <2>2, <2>4, <2>5
  <1> QED
    BY <1>1, <1>2 DEF JoinStep

\* OnPeerDisconnect.
LEMMA LeavePreserves ==
  ASSUME IndInv, NEW c \in Conns, LeaveStep(c)
  PROVE  IndInv'
  <1> USE DEF IndInv
  <1>1. CASE StartLeave(c)
    <2> USE <1>1 DEF StartLeave, network
    <2>1. /\ disconnectCh' \in Seq(Conns) /\ Len(disconnectCh') = Len(disconnectCh) - 1
          /\ Len(disconnectCh) \in Nat /\ Distinct(disconnectCh')
          /\ Has(disconnectCh, c)
          /\ \A d : Has(disconnectCh', d) <=> Has(disconnectCh, d) /\ d # c
      BY ReceiveProperties DEF TypeOK, ChannelInv
    <2>2. TypeOK'
      BY <2>1, EventsAssumption DEF TypeOK, LeaveStates
    <2>3. NotifyInv' /\ LockInv'
      BY DEF TypeOK, NotifyInv, LockInv
    <2>4. ChannelInv'
      BY <2>1 DEF TypeOK, ChannelInv
    <2> QED
      BY <2>2, <2>3, <2>4
  <1>2. CASE CheckGone(c) \/ RemovePeer(c) \/ AnnounceRemoval(c)
    <2> USE <1>2 DEF CheckGone, RemovePeer, AnnounceRemoval, network, bus
    <2>1. TypeOK'
      BY ConnsAssumption DEF TypeOK, LeaveStates
    <2>2. NotifyInv'
      BY DEF NotifyInv
    <2>3. leaving[c] # "none" /\ leaving' = [leaving EXCEPT ![c] = leaving'[c]] /\ UNCHANGED joining
      BY DEF TypeOK
    <2>4. ChannelInv'
      BY <2>3 DEF TypeOK, ChannelInv
    <2>5. LockInv'
      BY ConnsAssumption DEF TypeOK, LockInv
    <2> QED
      BY <2>1, <2>2, <2>4, <2>5
  <1> QED
    BY <1>1, <1>2 DEF LeaveStep

\* Every step keeps the invariant.
LEMMA NextPreserves == IndInv /\ [Next]_vars => IndInv'
  <1> SUFFICES ASSUME IndInv, [Next]_vars PROVE IndInv'
    OBVIOUS
  <1>1. CASE UNCHANGED vars
    <2> USE <1>1 DEF vars, network, bus, table, IndInv
    <2>1. TypeOK'
      BY DEF TypeOK
    <2>2. NotifyInv' /\ LockInv'
      BY DEF NotifyInv, LockInv
    <2>3. ChannelInv'
      BY DEF ChannelInv
    <2> QED
      BY <2>1, <2>2, <2>3
  <1> QED
    BY <1>1, NetworkPreserves, BusPreserves, JoinPreserves, LeavePreserves DEF Next

\* The inductive invariant holds in every reachable state.
THEOREM Invariance == Spec => []IndInv
  BY InitEstablishes, NextPreserves, PTL DEF Spec

\* Type correctness: above all, the channels never hold more than Cap events.
THEOREM TypeCorrect == Spec => []TypeOK
  <1>1. IndInv => TypeOK
    BY DEF IndInv
  <1> QED
    BY <1>1, Invariance, PTL

-----------------------------------------------------------------------------
(* The refinement *)

\* The values of the mapping, one connection at a time.
LEMMA MappingValues ==
  ASSUME NEW c \in Conns
  PROVE  /\ Join[c] = IF joining[c] = "none" /\ conn[c] \in {"up", "down"} THEN "notified"
                      ELSE IF joining[c] = "registering" THEN "listed" ELSE joining[c]
         /\ Leave[c] = IF leaving[c] \in {"none", "waiting"} /\ conn[c] = "down" THEN "notified"
                       ELSE IF leaving[c] = "announcing" THEN "done" ELSE leaving[c]
  BY DEF Join, Leave

\* The initial states are initial states of the table.
LEMMA InitMaps == Init => R!Init
  BY MappingValues, ConnsAssumption DEF Init, R!Init, Join, Leave, Remover

\* Who removes a peer holds peerLock.
LEMMA RemoverValues ==
  ASSUME IndInv
  PROVE  /\ \A c \in Conns : leaving[c] = "removing" => Remover = c
         /\ (\A c \in Conns : leaving[c] # "removing") => Remover = Free
         /\ peerLock = Free => Remover = Free
  BY ConnsAssumption DEF IndInv, LockInv, Remover

\* What does not change the table, or the connections, changes nothing there.
LEMMA BusMaps ==
  ASSUME (\E c \in Conns : NotifyStep(c)) \/ CommandLocks \/ CommandUnlocks
  PROVE  UNCHANGED R!vars
  <1>1. UNCHANGED <<conn, identified, joining, leaving, peers, peerLock>>
    BY DEF NotifyStep, PublishConnected, SendConnected, PublishDisconnected, SendDisconnected,
       CommandLocks, CommandUnlocks, network, table
  <1> QED
    BY <1>1 DEF R!vars, Join, Leave, Remover

\* A connection that comes up or goes down has its event pending at once.
LEMMA NetworkMaps ==
  ASSUME IndInv, NEW c \in Conns, NetworkStep(c)
  PROVE  R!ConnUp(c) \/ R!ConnDown(c)
  <1> USE DEF IndInv
  <1>1. UNCHANGED <<identified, joining, leaving, peers, peerLock, Remover>>
    BY DEF NetworkStep, ConnUp, ConnDown, bus, table, Remover
  <1>2. CASE ConnUp(c)
    <2>1. joining[c] = "none" /\ leaving[c] = "none"
      BY <1>2 DEF ConnUp, NotifyInv, ChannelInv
    <2>2. Join' = [Join EXCEPT ![c] = "notified"]
      BY <1>1, <1>2, <2>1 DEF ConnUp, TypeOK, Join
    <2>3. Leave' = Leave
      BY <1>1, <1>2, <2>1 DEF ConnUp, TypeOK, Leave
    <2> QED
      BY <1>1, <1>2, <2>2, <2>3 DEF ConnUp, R!ConnUp
  <1>3. CASE ConnDown(c)
    <2>1. leaving[c] = "none"
      BY <1>3 DEF ConnDown, NotifyInv, ChannelInv
    <2>2. Join' = Join
      BY <1>1, <1>3 DEF ConnDown, TypeOK, Join
    <2>3. Leave' = [Leave EXCEPT ![c] = "notified"]
      BY <1>1, <1>3, <2>1 DEF ConnDown, TypeOK, Leave
    <2> QED
      BY <1>1, <1>3, <2>2, <2>3 DEF ConnDown, R!ConnDown
  <1> QED
    BY <1>2, <1>3 DEF NetworkStep

\* OnPeerConnect: its steps are those of the table, and its Publish is none.
LEMMA JoinMaps ==
  ASSUME IndInv, NEW c \in Conns, JoinStep(c)
  PROVE  R!JoinStep(c) \/ UNCHANGED R!vars
  <1> USE DEF IndInv
  <1>1. UNCHANGED <<conn, identified, leaving, Leave>>
    BY DEF JoinStep, StartJoin, CheckPeer, FindPeer, AddPeer, AnnounceAdd, network, bus, Leave
  <1>2. CASE StartJoin(c)
    <2>1. Has(connectCh, c)
      BY <1>2, ReceiveProperties DEF StartJoin, TypeOK, ChannelInv
    <2>2. joining[c] = "none" /\ conn[c] \in {"up", "down"}
      BY <2>1 DEF TypeOK, NotifyInv, ChannelInv
    <2>3. Join[c] = "notified" /\ Join' = [Join EXCEPT ![c] = "sleeping"]
      BY <1>1, <1>2, <2>2 DEF StartJoin, TypeOK, Join
    <2>4. Remover' = Remover
      BY <1>2 DEF StartJoin, Remover
    <2> QED
      BY <1>1, <1>2, <2>3, <2>4 DEF StartJoin, R!StartJoin, R!JoinStep
  <1>3. CASE CheckPeer(c)
    <2>1. Join[c] = "sleeping" /\ Join' = [Join EXCEPT ![c] = joining'[c]]
      BY <1>1, <1>3 DEF CheckPeer, TypeOK, Join
    <2>2. Remover' = Remover
      BY <1>3 DEF CheckPeer, Remover
    <2>3. joining'[c] = IF R!Connected(Remote[c]) /\ Remote[c] \in identified
                        THEN "checked" ELSE "skipped"
      BY <1>3 DEF CheckPeer, TypeOK, Connected, R!Connected
    <2> QED
      BY <1>1, <1>3, <2>1, <2>2, <2>3 DEF CheckPeer, R!CheckPeer, R!JoinStep
  <1>4. CASE FindPeer(c) \/ AddPeer(c)
    <2>1. Join[c] = "checked" /\ Join' = [Join EXCEPT ![c] = "listed"]
      BY <1>1, <1>4 DEF FindPeer, AddPeer, TypeOK, Join
    <2>2. Remover = Free
      BY <1>4, RemoverValues DEF FindPeer, AddPeer
    <2>3. \A d \in Conns : leaving[d] # "removing"
      BY <1>4, ConnsAssumption DEF FindPeer, AddPeer, LockInv
    <2>4. Remover' = Free
      BY <1>1, <2>3 DEF Remover
    <2>5. peers' = peers \cup {Remote[c]}
      BY <1>4 DEF FindPeer, AddPeer
    <2> QED
      BY <1>1, <2>1, <2>2, <2>4, <2>5 DEF R!Register, R!JoinStep
  <1>5. CASE AnnounceAdd(c)
    <2>1. Join' = Join
      BY <1>1, <1>5 DEF AnnounceAdd, TypeOK, Join
    <2>2. peerLock = c /\ leaving[c] # "removing" /\ peerLock' = Free
      BY <1>5 DEF AnnounceAdd, LockInv
    <2>3. Remover = Free /\ Remover' = Free
      BY <2>2, ConnsAssumption DEF Remover
    <2> QED
      BY <1>1, <1>5, <2>1, <2>3 DEF AnnounceAdd, R!vars
  <1> QED
    BY <1>2, <1>3, <1>4, <1>5 DEF JoinStep

\* OnPeerDisconnect: likewise.
LEMMA LeaveMaps ==
  ASSUME IndInv, NEW c \in Conns, LeaveStep(c)
  PROVE  R!LeaveStep(c) \/ UNCHANGED R!vars
  <1> USE DEF IndInv
  <1>1. UNCHANGED <<conn, identified, joining, Join>>
    BY DEF LeaveStep, StartLeave, CheckGone, RemovePeer, AnnounceRemoval, network, bus, Join
  <1>2. leaving[c] \notin {"none"} => conn[c] = "down"
    BY DEF NotifyInv, ChannelInv
  <1>3. CASE StartLeave(c)
    <2>1. Has(disconnectCh, c)
      BY <1>3, ReceiveProperties DEF StartLeave, TypeOK, ChannelInv
    <2>2. leaving[c] = "none" /\ conn[c] = "down"
      BY <2>1 DEF NotifyInv, ChannelInv
    <2>3. Leave' = Leave
      BY <1>1, <1>3, <2>2 DEF StartLeave, TypeOK, Leave
    <2>4. Remover' = Remover
      BY <1>3, <2>2 DEF StartLeave, TypeOK, Remover
    <2> QED
      BY <1>1, <1>3, <2>3, <2>4 DEF StartLeave, R!vars
  <1>4. CASE CheckGone(c)
    <2>1. Leave[c] = "notified" /\ Remover = Free
      BY <1>2, <1>4, RemoverValues DEF CheckGone, TypeOK, Leave
    <2>2. Leave' = [Leave EXCEPT ![c] = leaving'[c]]
      BY <1>1, <1>4 DEF CheckGone, TypeOK, Leave
    <2>3. \A d \in Conns : leaving[d] # "removing"
      BY <1>4, ConnsAssumption DEF CheckGone, LockInv
    <2>4. CASE Connected(Remote[c]) \/ Remote[c] \notin peers
      <3>1. leaving' = [leaving EXCEPT ![c] = "done"] /\ UNCHANGED <<peers, peerLock>>
        BY <1>4, <2>4 DEF CheckGone
      <3>2. Remover' = Free
        BY <2>3, <3>1 DEF TypeOK, Remover
      <3> QED
        BY <1>1, <2>1, <2>2, <2>4, <3>1, <3>2
           DEF TypeOK, Connected, R!Connected, R!CheckGone, R!LeaveStep
    <2>5. CASE ~(Connected(Remote[c]) \/ Remote[c] \notin peers)
      <3>1. leaving' = [leaving EXCEPT ![c] = "removing"] /\ peerLock' = c /\ UNCHANGED peers
        BY <1>4, <2>5 DEF CheckGone
      <3>2. Remover' = c
        BY <3>1 DEF TypeOK, Remover
      <3> QED
        BY <1>1, <2>1, <2>2, <2>5, <3>1, <3>2
           DEF TypeOK, Connected, R!Connected, R!CheckGone, R!LeaveStep
    <2> QED
      BY <2>4, <2>5
  <1>5. CASE RemovePeer(c)
    <2>1. Leave[c] = "removing" /\ Leave' = [Leave EXCEPT ![c] = "done"]
      BY <1>1, <1>5 DEF RemovePeer, TypeOK, Leave
    <2>2. Remover' = Free
      BY <1>5, ConnsAssumption DEF RemovePeer, LockInv, TypeOK, Remover
    <2> QED
      BY <1>1, <1>5, <2>1, <2>2 DEF RemovePeer, R!Unregister, R!LeaveStep
  <1>6. CASE AnnounceRemoval(c)
    <2>1. Leave' = Leave
      BY <1>1, <1>6 DEF AnnounceRemoval, TypeOK, Leave
    <2>2. Remover = Free /\ Remover' = Free
      BY <1>6, ConnsAssumption DEF AnnounceRemoval, LockInv, Remover
    <2> QED
      BY <1>1, <1>6, <2>1, <2>2 DEF AnnounceRemoval, R!vars
  <1> QED
    BY <1>3, <1>4, <1>5, <1>6 DEF LeaveStep

\* Every step is a step of the table or none.
LEMMA StepMaps == IndInv /\ [Next]_vars => [R!Next]_(R!vars)
  <1> SUFFICES ASSUME IndInv, [Next]_vars PROVE [R!Next]_(R!vars)
    OBVIOUS
  <1>1. CASE UNCHANGED vars
    BY <1>1 DEF vars, network, bus, table, R!vars, Join, Leave, Remover
  <1>2. ASSUME NEW p \in Peers, Identify(p) PROVE R!Identify(p)
    BY <1>2 DEF Identify, R!Identify, Connected, R!Connected, bus, table, Join, Leave, Remover
  <1> QED
    BY <1>1, <1>2, BusMaps, NetworkMaps, JoinMaps, LeaveMaps DEF Next, R!Next

\* The bus, its channels and the two locks implement the table that
\* PeerRegistry specifies, for any connections and any capacity.
THEOREM ImplementsHolds == Spec => Implements
  BY InitMaps, StepMaps, Invariance, PTL DEF Spec, Implements, R!Spec

-----------------------------------------------------------------------------
(* The table itself: nothing here depends on what Join, Leave and Remover  *)
(* are, so that it holds of PeerRegistry for any variables.                *)

\* While OnPeerDisconnect is between its look at the connections and the
\* removal, it holds peerLock, so no OnPeerConnect of the same peer can end;
\* and it went on only because no connection of the peer was up.
RemovalInv ==
    \A c \in Conns : Leave[c] = "removing" =>
        /\ Remover = c
        /\ \A d \in Conns : Remote[d] = Remote[c] /\ conn[d] = "up" => Join[d] # "listed"

TableInv == R!TypeOK /\ RemovalInv /\ R!Listed

\* No connection is up at first.
LEMMA TableInit == R!Init => TableInv
  BY DEF R!Init, TableInv, R!TypeOK, RemovalInv, R!Listed

\* Connections come up and go down; a new one is not listed yet.
LEMMA TableConnection ==
  ASSUME TableInv, NEW c \in Conns, R!ConnUp(c) \/ R!ConnDown(c)
  PROVE  TableInv'
  <1> USE DEF TableInv
  <1>1. R!TypeOK'
    BY DEF R!TypeOK, R!ConnUp, R!ConnDown
  <1>2. RemovalInv'
    BY DEF R!TypeOK, RemovalInv, R!ConnUp, R!ConnDown
  <1>3. R!Listed'
    BY DEF R!TypeOK, R!Listed, R!ConnUp, R!ConnDown
  <1> QED
    BY <1>1, <1>2, <1>3

\* OnPeerConnect: the table only grows, and only while peerLock is free.
LEMMA TableJoin ==
  ASSUME TableInv, NEW c \in Conns, R!JoinStep(c)
  PROVE  TableInv'
  <1> USE DEF TableInv
  <1>1. R!TypeOK'
    BY ConnsAssumption DEF R!TypeOK, R!JoinStep, R!StartJoin, R!CheckPeer, R!Register
  <1>2. CASE R!StartJoin(c) \/ R!CheckPeer(c)
    <2>1. /\ \A d \in Conns : Join'[d] = "listed" => Join[d] = "listed"
          /\ UNCHANGED <<conn, Leave, peers, Remover>>
      BY <1>2 DEF R!TypeOK, R!StartJoin, R!CheckPeer
    <2> QED
      BY <1>1, <2>1 DEF RemovalInv, R!Listed
  <1>3. CASE R!Register(c)
    <2>1. \A d \in Conns : Leave[d] # "removing"
      BY <1>3, ConnsAssumption DEF R!Register, RemovalInv
    <2>2. RemovalInv'
      BY <1>3, <2>1 DEF R!Register, RemovalInv
    <2>3. R!Listed'
      BY <1>3 DEF R!Register, R!TypeOK, R!Listed
    <2> QED
      BY <1>1, <2>2, <2>3
  <1> QED
    BY <1>2, <1>3 DEF R!JoinStep

\* OnPeerDisconnect: the removal takes no listed, connected peer away.
LEMMA TableLeave ==
  ASSUME TableInv, NEW c \in Conns, R!LeaveStep(c)
  PROVE  TableInv'
  <1> USE DEF TableInv
  <1>1. R!TypeOK'
    BY ConnsAssumption DEF R!TypeOK, R!LeaveStep, R!CheckGone, R!Unregister
  <1>2. CASE R!CheckGone(c)
    <2>1. \A d \in Conns : Leave[d] # "removing"
      BY <1>2, ConnsAssumption DEF R!CheckGone, RemovalInv
    <2>2. UNCHANGED <<conn, Join, peers>>
      BY <1>2 DEF R!CheckGone
    <2>3. \A d \in Conns : Leave'[d] = "removing" =>
             d = c /\ Remover' = c /\ ~R!Connected(Remote[c])
      BY <1>2, <2>1 DEF R!CheckGone, R!TypeOK
    <2>4. RemovalInv'
      BY <2>2, <2>3 DEF RemovalInv, R!Connected
    <2> QED
      BY <1>1, <2>2, <2>4 DEF R!Listed
  <1>3. CASE R!Unregister(c)
    <2>1. Leave[c] = "removing" /\ Remover = c
      BY <1>3 DEF R!Unregister, RemovalInv
    <2>2. \A d \in Conns : d # c => Leave[d] # "removing"
      BY <2>1 DEF RemovalInv
    <2>3. RemovalInv'
      BY <1>3, <2>2 DEF R!Unregister, RemovalInv, R!TypeOK
    <2>4. R!Listed'
      BY <1>3, <2>1 DEF R!Unregister, RemovalInv, R!Listed
    <2> QED
      BY <1>1, <2>3, <2>4
  <1> QED
    BY <1>2, <1>3 DEF R!LeaveStep

\* Every step keeps the invariant.
LEMMA TableNext == TableInv /\ [R!Next]_(R!vars) => TableInv'
  <1> SUFFICES ASSUME TableInv, [R!Next]_(R!vars) PROVE TableInv'
    OBVIOUS
  <1>1. CASE UNCHANGED R!vars
    BY <1>1 DEF TableInv, R!TypeOK, RemovalInv, R!Listed, R!vars
  <1>2. ASSUME NEW p \in Peers, R!Identify(p) PROVE TableInv'
    BY <1>2 DEF TableInv, R!TypeOK, RemovalInv, R!Listed, R!Identify
  <1> QED
    BY <1>1, <1>2, TableConnection, TableJoin, TableLeave DEF R!Next

\* The table that PeerRegistry specifies keeps a connected peer listed, for
\* every number of connections and every order in which OnPeerConnect and
\* OnPeerDisconnect handle their events.
THEOREM TableListed == R!Spec => []R!Listed
  <1>1. TableInv => R!Listed
    BY DEF TableInv
  <1> QED
    BY <1>1, TableInit, TableNext, PTL DEF R!Spec

\* So OnPeerConnect and OnPeerDisconnect keep a connected peer in the table,
\* however long its events are on their way.
THEOREM ListedHolds == Spec => []Listed
  BY ImplementsHolds, TableListed, PTL DEF Implements, Listed

-----------------------------------------------------------------------------
(* Peers that are gone *)

\* c accounts for its peer's place in the table.
Holds(c) == conn[c] = "up" \/ Ending(c) \/ c \in late

\* The end of a connection is still on its way until its handler has looked.
LEMMA HoldsStays ==
  ASSUME IndInv, NEW c \in Conns, Holds(c), [Next]_vars,
         ~CheckGone(c), ~RemovePeer(c)
  PROVE  Holds(c)'
  <1> USE DEF IndInv
  <1> DEFINE InCh == Has(disconnectCh, c)
  <1>1. Ending(c) <=> conn[c] = "down" /\ (notify[c] # "returned" \/ InCh \/ leaving[c] \in {"waiting", "removing"})
    BY DEF Ending, Has
  <1>2. Ending(c)' <=> conn'[c] = "down" /\ (notify'[c] # "returned" \/ InCh' \/ leaving'[c] \in {"waiting", "removing"})
    BY DEF Ending, Has
  <1> HIDE DEF InCh
  <1>3. CASE c \in late
    BY <1>3 DEF Holds, Next, vars, network, bus, table, NetworkStep, ConnUp, ConnDown, Identify,
       NotifyStep, PublishConnected, SendConnected, PublishDisconnected, SendDisconnected,
       CommandLocks, CommandUnlocks, JoinStep, StartJoin, CheckPeer, FindPeer, AddPeer, AnnounceAdd,
       LeaveStep, StartLeave, CheckGone, RemovePeer, AnnounceRemoval
  <1>4. CASE c \notin late
    <2>1. ASSUME UNCHANGED <<conn, notify, disconnectCh, leaving>> PROVE Holds(c)'
      BY <1>1, <1>2, <1>4, <2>1 DEF Holds, InCh
    <2>2. ASSUME NEW d \in Conns, NetworkStep(d) PROVE Holds(c)'
      BY <1>1, <1>2, <1>4, <2>2 DEF Holds, InCh, NetworkStep, ConnUp, ConnDown, bus, table, TypeOK, NotifyInv
    <2>3. ASSUME NEW d \in Conns, NotifyStep(d) PROVE Holds(c)'
      <3>1. CASE SendDisconnected(d)
        <4>1. \A e : Has(disconnectCh', e) <=> Has(disconnectCh, e) \/ e = d
          BY <3>1, SendProperties DEF SendDisconnected, TypeOK, ChannelInv
        <4>2. InCh' <=> InCh \/ c = d
          BY <4>1 DEF InCh
        <4> QED
          BY <1>1, <1>2, <1>4, <3>1, <4>2 DEF Holds, SendDisconnected, network, table, TypeOK
      <3>2. CASE PublishConnected(d) \/ SendConnected(d) \/ PublishDisconnected(d)
        <4>1. /\ UNCHANGED <<conn, disconnectCh, leaving>>
              /\ notify'[c] \in {notify[c], "sendingUp", "between", "sendingDown"}
          BY <3>2 DEF PublishConnected, SendConnected, PublishDisconnected, network, table, TypeOK
        <4> QED
          BY <1>1, <1>2, <1>4, <4>1 DEF Holds, InCh
      <3> QED
        BY <2>3, <3>1, <3>2 DEF NotifyStep
    <2>4. ASSUME NEW d \in Conns, JoinStep(d) PROVE Holds(c)'
      BY <2>1, <2>4 DEF JoinStep, StartJoin, CheckPeer, FindPeer, AddPeer, AnnounceAdd, network, bus
    <2>5. ASSUME NEW d \in Conns, StartLeave(d) PROVE Holds(c)'
      <3>1. \A e : Has(disconnectCh', e) <=> Has(disconnectCh, e) /\ e # d
        BY <2>5, ReceiveProperties DEF StartLeave, TypeOK, ChannelInv
      <3>2. InCh' <=> InCh /\ c # d
        BY <3>1 DEF InCh
      <3> QED
        BY <1>1, <1>2, <1>4, <2>5, <3>2 DEF Holds, StartLeave, network, TypeOK
    <2>6. ASSUME NEW d \in Conns, CheckGone(d) \/ RemovePeer(d) PROVE Holds(c)'
      <3>1. UNCHANGED <<conn, notify, disconnectCh>> /\ leaving'[c] = leaving[c]
        BY <2>6 DEF CheckGone, RemovePeer, network, bus, TypeOK
      <3> QED
        BY <1>1, <1>2, <1>4, <3>1 DEF Holds, InCh
    <2>7. ASSUME NEW d \in Conns, AnnounceRemoval(d) PROVE Holds(c)'
      <3>1. UNCHANGED <<conn, notify, disconnectCh>>
        BY <2>7 DEF AnnounceRemoval, network, bus
      <3>2. leaving[c] \in {"waiting", "removing"} => leaving'[c] = leaving[c]
        BY <2>7 DEF AnnounceRemoval, TypeOK
      <3> QED
        BY <1>1, <1>2, <1>4, <3>1, <3>2 DEF Holds, InCh
    <2>8. CASE CommandLocks \/ CommandUnlocks \/ \E p \in Peers : Identify(p)
      BY <1>1, <1>2, <1>4, <2>8 DEF Holds, InCh, CommandLocks, CommandUnlocks, Identify, network, bus, table
    <2>9. CASE UNCHANGED vars
      BY <2>1, <2>9 DEF vars, network, bus, table
    <2> QED
      BY <2>2, <2>3, <2>4, <2>5, <2>6, <2>7, <2>8, <2>9 DEF Next, LeaveStep
  <1> QED
    BY <1>3, <1>4

\* Every step keeps an account of each peer in the table.
LEMMA NoGhostPreserves == IndInv /\ NoGhost /\ [Next]_vars => NoGhost'
  <1> SUFFICES ASSUME IndInv, NoGhost, [Next]_vars, NEW p \in peers'
               PROVE  \E c \in Conns : Remote[c] = p /\ Holds(c)'
    BY DEF NoGhost, Holds
  <1> USE DEF IndInv
  <1>1. CASE p \notin peers
    <2>1. PICK c \in Conns : AddPeer(c) /\ p = Remote[c]
      BY <1>1 DEF Next, vars, network, bus, table, NetworkStep, ConnUp, ConnDown, Identify,
       NotifyStep, PublishConnected, SendConnected, PublishDisconnected, SendDisconnected,
       CommandLocks, CommandUnlocks, JoinStep, StartJoin, CheckPeer, FindPeer, AddPeer, AnnounceAdd,
       LeaveStep, StartLeave, CheckGone, RemovePeer, AnnounceRemoval
    <2>2. conn' = conn
      BY <2>1 DEF AddPeer, network
    <2>3. CASE Connected(Remote[c])
      BY <2>1, <2>2, <2>3 DEF Connected, Holds
    <2>4. CASE ~Connected(Remote[c])
      BY <2>1, <2>4 DEF AddPeer, Holds
    <2> QED
      BY <2>3, <2>4
  <1>2. CASE p \in peers
    <2>1. PICK c \in Conns : Remote[c] = p /\ Holds(c)
      BY <1>2 DEF NoGhost, Holds
    <2>2. CASE RemovePeer(c)
      BY <2>1, <2>2 DEF RemovePeer
    <2>3. CASE CheckGone(c)
      <3>1. UNCHANGED <<conn, notify, disconnectCh>>
        BY <2>3 DEF CheckGone, network, bus
      <3>2. CASE Connected(p)
        BY <3>1, <3>2 DEF Connected, Holds
      <3>3. CASE ~Connected(p)
        <4>1. leaving'[c] = "removing"
          BY <1>2, <2>1, <2>3, <3>3 DEF CheckGone, TypeOK
        <4>2. conn[c] = "down"
          BY <2>3 DEF CheckGone, NotifyInv, ChannelInv
        <4> QED
          BY <2>1, <3>1, <4>1, <4>2 DEF Holds, Ending
      <3> QED
        BY <3>2, <3>3
    <2> QED
      BY <2>1, <2>2, <2>3, HoldsStays
  <1> QED
    BY <1>1, <1>2

\* No peer stays in the table that is gone, unless it went between
\* OnPeerConnect's look at it and its registration.
THEOREM NoGhostHolds == Spec => []NoGhost
  <1>1. Init => NoGhost
    BY DEF Init, NoGhost
  <1> QED
    BY <1>1, NoGhostPreserves, Invariance, PTL DEF Spec
=============================================================================
