------------------------------- MODULE HopGet -------------------------------
(***************************************************************************)
(* The hop-get of internal/fileserver/get.go: one GET_FILE request that    *)
(* operations.Get broadcasts floods the peer graph, and the nodes that     *)
(* hold the file connect back to the requester.  One request, one key: the *)
(* MsgID is implicit.  How the file itself is transferred is module        *)
(* Transfer; which ids a node forgets is module SeenMessages.              *)
(*                                                                         *)
(* A message is [from, to, ttl, nth]: nth tells apart the messages that a  *)
(* node which forgot the MsgID sends again (0 for the broadcast).  A task  *)
(* is a processGet goroutine, a record of the same shape: node "to" works  *)
(* on what "from" sent it, as its nth acceptance.                          *)
(***************************************************************************)
EXTENDS Integers, FiniteSets

CONSTANTS
    Nodes,
    Peers,          \* Peers[n]: what ListPeers returns at n
    Requester,      \* the node that runs the get command
    Holders,        \* the nodes whose store has the file
    Dist,           \* Dist[n]: hops from the requester to n
    DefaultTTL,     \* get.go's DefaultTTL
    Fanout,         \* the third argument of Select
    MaxFaults       \* bound: messages lost, MsgIDs forgotten and restarts

ASSUME NodesAssumption ==
    /\ Requester \in Nodes
    /\ Holders \subseteq Nodes \ {Requester}
    /\ Peers \in [Nodes -> SUBSET Nodes]
ASSUME DistAssumption ==
    /\ Dist \in [Nodes -> Nat]
    /\ Dist[Requester] = 0
    /\ \A n \in Nodes : \A p \in Peers[n] : Dist[p] <= Dist[n] + 1
ASSUME BoundsAssumption ==
    /\ DefaultTTL \in Nat
    /\ Fanout \in Nat
    /\ MaxFaults \in Nat

VARIABLES
    asked,          \* the request has been broadcast
    net,            \* GET_FILE messages in flight
    seen,           \* the nodes whose SeenMessages hold the MsgID
    checking,       \* tasks between See and the rest of processGet
    delivering,     \* tasks in deliverToRequester
    has,            \* the nodes whose store.Has the file
    faults,         \* losses, forgettings and restarts so far
    processed,      \* history: times See answered true at n
    forgot          \* history: times n forgot the MsgID

vars == <<asked, net, seen, checking, delivering, has, faults,
          processed, forgot>>

Msgs == [from : Nodes, to : Nodes, ttl : 0..DefaultTTL, nth : Nat]

TypeOK ==
    /\ asked \in BOOLEAN
    /\ net \subseteq Msgs
    /\ checking \subseteq Msgs
    /\ delivering \subseteq Msgs
    /\ seen \subseteq Nodes
    /\ has \subseteq Nodes
    /\ faults \in Nat
    /\ processed \in [Nodes -> Nat]
    /\ forgot \in [Nodes -> Nat]

Init ==
    /\ asked = FALSE
    /\ net = {} /\ checking = {} /\ delivering = {}
    /\ seen = {}
    /\ has = Holders
    /\ faults = 0
    /\ processed = [n \in Nodes |-> 0]
    /\ forgot = [n \in Nodes |-> 0]

-----------------------------------------------------------------------------
\* operations.Get and BroadcastGet: to every peer, one goroutine each.  The
\* requester does not put its own MsgID into its SeenMessages.
BroadcastGet ==
    /\ ~asked
    /\ asked' = TRUE
    /\ net' = net \cup {[from |-> Requester, to |-> p, ttl |-> DefaultTTL,
                         nth |-> 0] : p \in Peers[Requester]}
    /\ UNCHANGED <<seen, checking, delivering, has, faults, processed,
                   forgot>>

\* SendOneWay fails, or the receiving node's limits refuse the stream.
Lose(m) ==
    /\ faults < MaxFaults
    /\ faults' = faults + 1
    /\ net' = net \ {m}
    /\ UNCHANGED <<asked, seen, checking, delivering, has, processed,
                   forgot>>

\* handleGet, and processGet up to See(MsgID) = false.
IgnoreGet(m) ==
    /\ m.to \in seen
    /\ net' = net \ {m}
    /\ UNCHANGED <<asked, seen, checking, delivering, has, faults,
                   processed, forgot>>

\* The goroutine that works on m.
Task(m) ==
    [from |-> m.from, to |-> m.to, ttl |-> m.ttl, nth |-> processed[m.to] + 1]

\* Mutant: processGet without the call of See.
AcceptAnyGet(m) ==
    /\ net' = net \ {m}
    /\ seen' = seen \cup {m.to}
    /\ processed' = [processed EXCEPT ![m.to] = @ + 1]
    /\ checking' = checking \cup {Task(m)}
    /\ UNCHANGED <<asked, delivering, has, faults, forgot>>

\* handleGet, and processGet up to See(MsgID) = true.
AcceptGet(m) ==
    /\ m.to \notin seen
    /\ net' = net \ {m}
    /\ seen' = seen \cup {m.to}
    /\ processed' = [processed EXCEPT ![m.to] = @ + 1]
    /\ checking' = checking \cup {Task(m)}
    /\ UNCHANGED <<asked, delivering, has, faults, forgot>>

\* RandomPeerSelector.Select: as many of the peers other than the sender as
\* there are, at most max; the partial shuffle makes every choice possible.
Select(all, exclude, max) ==
    LET candidates == all \ {exclude}
        n == Cardinality(candidates)
    IN  {S \in SUBSET candidates :
            Cardinality(S) = IF max > n THEN n ELSE max}

\* Mutant: the TTL is tested after the decrement.
RelaysLate(t) == t.ttl >= 0

\* The test of the TTL before the request is passed on.
Relays(t) == t.ttl > 0

\* processGet at a node without the file: pass the request on with TTL - 1.
Relay(t) ==
    /\ t.to \notin has
    /\ Relays(t)
    /\ \E S \in Select(Peers[t.to], t.from, Fanout) :
        net' = net \cup {[from |-> t.to, to |-> p, ttl |-> t.ttl - 1,
                          nth |-> t.nth] : p \in S}
    /\ checking' = checking \ {t}
    /\ UNCHANGED <<asked, seen, delivering, has, faults, processed,
                   forgot>>

\* processGet at a node without the file whose TTL is spent.
StopAtTTL(t) ==
    /\ t.to \notin has
    /\ ~Relays(t)
    /\ checking' = checking \ {t}
    /\ UNCHANGED <<asked, net, seen, delivering, has, faults, processed,
                   forgot>>

\* Mutant: the TTL is tested before the local store.
StartDeliveryInTTL(t) ==
    /\ t.to \in has
    /\ checking' = checking \ {t}
    /\ delivering' = IF t.ttl > 0 THEN delivering \cup {t} ELSE delivering
    /\ UNCHANGED <<asked, net, seen, has, faults, processed, forgot>>

\* Mutant: deliverToRequester without the test of store.Has.
StartAnyDelivery(t) ==
    /\ checking' = checking \ {t}
    /\ delivering' = delivering \cup {t}
    /\ UNCHANGED <<asked, net, seen, has, faults, processed, forgot>>

\* processGet at a node with the file: go deliverToRequester, no relaying.
StartDelivery(t) ==
    /\ t.to \in has
    /\ checking' = checking \ {t}
    /\ delivering' = delivering \cup {t}
    /\ UNCHANGED <<asked, net, seen, has, faults, processed, forgot>>

\* deliverToRequester succeeds, or finds that the requester already has the
\* file, which it counts as success.  A node cannot dial itself, so the
\* requester does not get here when its own request comes back to it.
Deliver(t) ==
    /\ t.to # Requester
    /\ delivering' = delivering \ {t}
    /\ has' = has \cup {Requester}
    /\ UNCHANGED <<asked, net, seen, checking, faults, processed, forgot>>

\* deliverToRequester gives up: no address of the requester answers, or the
\* transfer fails.
DeliveryFails(t) ==
    /\ delivering' = delivering \ {t}
    /\ UNCHANGED <<asked, net, seen, checking, has, faults, processed,
                   forgot>>

\* The MsgID leaves the window or is evicted at n: SeenMessages forgets it.
Forget(n) ==
    /\ n \in seen
    /\ faults < MaxFaults
    /\ faults' = faults + 1
    /\ seen' = seen \ {n}
    /\ forgot' = [forgot EXCEPT ![n] = @ + 1]
    /\ UNCHANGED <<asked, net, checking, delivering, has, processed>>

\* The process at n stops and is started again: SeenMessages is empty and the
\* goroutines are gone; the store stays.
Restart(n) ==
    /\ n # Requester
    /\ faults < MaxFaults
    /\ faults' = faults + 1
    /\ seen' = seen \ {n}
    /\ forgot' = [forgot EXCEPT ![n] = @ + 1]
    /\ checking' = {t \in checking : t.to # n}
    /\ delivering' = {t \in delivering : t.to # n}
    /\ UNCHANGED <<asked, net, has, processed>>

-----------------------------------------------------------------------------
\* processGet at node n.
NodeStep(n) ==
    \/ \E m \in net : m.to = n /\ (IgnoreGet(m) \/ AcceptGet(m))
    \/ \E t \in checking :
        t.to = n /\ (Relay(t) \/ StopAtTTL(t) \/ StartDelivery(t))

\* The end of deliverToRequester at node n, which may wait for a connection
\* for ever.
DeliveryStep(n) ==
    \E t \in delivering : t.to = n /\ (Deliver(t) \/ DeliveryFails(t))

Next ==
    \/ BroadcastGet
    \/ \E n \in Nodes : NodeStep(n) \/ DeliveryStep(n) \/ Forget(n) \/ Restart(n)
    \/ \E m \in net : Lose(m)

Spec == Init /\ [][Next]_vars

\* A stream that is not lost is read, and every goroutine of processGet runs;
\* nothing is assumed of the deliveries.
FairSpec == Spec /\ WF_vars(BroadcastGet) /\ \A n \in Nodes : WF_vars(NodeStep(n))

-----------------------------------------------------------------------------
\* The request is processed only within DefaultTTL + 1 hops of the requester,
\* however the copies of it overtake one another, are lost or come back.
ReachBound == \A n \in Nodes : processed[n] > 0 => Dist[n] <= DefaultTTL + 1

\* A node processes the request once, and once more for every time it forgot
\* the MsgID: no path through the graph makes it process the request again.
AtMostOnce == \A n \in Nodes : processed[n] <= 1 + forgot[n]

\* The requester obtains the file only from a node that held it before the
\* request and that the request reached within DefaultTTL + 1 hops: the copy
\* delivered to the requester is never counted as a source of the file.
Provenance ==
    Requester \in has =>
        \E h \in Holders : processed[h] > 0 /\ Dist[h] <= DefaultTTL + 1

\* As long as nothing is lost or forgotten, every holder that is a direct peer
\* of the requester starts to deliver, also when the copy of the request that
\* reaches it first came by a detour and its TTL is spent.
Started(n) == \E t \in delivering : t.to = n
NeighbourServes ==
    [](faults = 0) => \A h \in Holders \cap Peers[Requester] : <>Started(h)

\* "any node that has the file connects back and delivers it" (README.md:12),
\* read for the nodes that the TTL lets the request reach.
HoldersInReachServe ==
    \A h \in Holders : Dist[h] <= DefaultTTL + 1 => <>Started(h)
=============================================================================
