----------------------------- MODULE Discovery ------------------------------
(***************************************************************************)
(* Peer discovery of internal/discovery, one instance for each process     *)
(* that is up: the methods that Manager.Start starts one after the other,  *)
(* the goroutines of Bootstrap and of DHTDiscovery, and mDNS.  What they   *)
(* find is published as PeerDiscovered; network.Manager                    *)
(* (internal/network/connection.go) dials it.                              *)
(*                                                                         *)
(* An address stands for the peer behind it.  host.Connect is external: it *)
(* succeeds at once for a connected peer, otherwise it dials until its     *)
(* context ends.                                                           *)
(***************************************************************************)
EXTENDS Integers, Sequences

CONSTANTS
    Nodes,          \* the processes that run a node
    Addrs,          \* the addresses that they can be given or can find
    Dialable,       \* those that parse and are not the node's own
    DHTPeers,       \* the public bootstrap peers of the DHT
    MaxRetries      \* BootstrapConfig.MaxRetries (3 by default)

ASSUME DiscoveryAssumption ==
    /\ Dialable \subseteq Addrs
    /\ DHTPeers \subseteq Dialable
    /\ MaxRetries \in Nat

VARIABLES
    todo,       \* todo[n]: the methods that Manager.Start has not started
    started,    \* started[n]: the methods that run; "loop" is the DHT's discoveryLoop
    boot,       \* boot[n][a]: the connectWithRetry goroutine for address a
    joining,    \* joining[n]: what DHTDiscovery.connectToBootstrapPeers dials
    recent,     \* recent[n]: seenPeers of the last two intervals
    cancelled,  \* the nodes whose discovery contexts are cancelled
    link,       \* link[n]: the peers n is connected to
    found,      \* found[n]: PeerDiscovered events that wait
    attached,   \* the nodes whose Notifier is attached
    subs,       \* subs[n]: the event types that somebody listens to
    lost        \* history: the types of events published to nobody

discoveryVars == <<todo, started, boot, joining, recent, cancelled, link, found,
                   attached, subs, lost>>

EventTypes == {"PeerConnected", "PeerDisconnected", "PeerDiscovered"}

Services == {"mdns", "dht", "loop", "bootstrap"}

Retries == [at : {"none", "check", "dial", "wait", "done"},
            attempt : 0..MaxRetries]

NoRetries == [a \in Addrs |-> [at |-> "none", attempt |-> 0]]

DiscoveryTypeOK ==
    /\ todo \in [Nodes -> Seq(Services)]
    /\ started \in [Nodes -> SUBSET Services]
    /\ boot \in [Nodes -> [Addrs -> Retries]]
    /\ joining \in [Nodes -> SUBSET DHTPeers]
    /\ recent \in [Nodes -> SUBSET Dialable]
    /\ cancelled \subseteq Nodes
    /\ link \in [Nodes -> SUBSET Dialable]
    /\ found \in [Nodes -> SUBSET Dialable]
    /\ attached \subseteq Nodes
    /\ subs \in [Nodes -> SUBSET EventTypes]
    /\ lost \subseteq EventTypes

DiscoveryInit ==
    /\ todo = [n \in Nodes |-> <<>>]
    /\ started = [n \in Nodes |-> {}]
    /\ boot = [n \in Nodes |-> NoRetries]
    /\ joining = [n \in Nodes |-> {}]
    /\ recent = [n \in Nodes |-> {}]
    /\ cancelled = {}
    /\ link = [n \in Nodes |-> {}]
    /\ found = [n \in Nodes |-> {}]
    /\ attached = {}
    /\ subs = [n \in Nodes |-> {}]
    /\ lost = {}

-----------------------------------------------------------------------------
(* Events and connections *)

\* Bus.Publish: an event of a type that nobody subscribed to is gone.
Publish(n, types) == lost' = lost \cup (types \ subs[n])

\* What the Notifier publishes when the connections of n change.
Notified(n, type) == IF n \in attached THEN {type} ELSE {}

\* host.Connect returns nil.
CanConnect(n, a) == a \in link[n] \/ n \notin cancelled

\* A peer has been connected and is published as discovered.
Discovered(n, a) ==
    /\ link' = [link EXCEPT ![n] = @ \cup {a}]
    /\ found' = [found EXCEPT ![n] = @ \cup {a}]
    /\ Publish(n, {"PeerDiscovered"}
                  \cup IF a \in link[n] THEN {} ELSE Notified(n, "PeerConnected"))

\* A peer connects to n.
Inbound(n, a) ==
    /\ a \notin link[n]
    /\ link' = [link EXCEPT ![n] = @ \cup {a}]
    /\ Publish(n, Notified(n, "PeerConnected"))
    /\ UNCHANGED <<todo, started, boot, joining, recent, cancelled, found, attached, subs>>

LinkDown(n, a) ==
    /\ a \in link[n]
    /\ link' = [link EXCEPT ![n] = @ \ {a}]
    /\ Publish(n, Notified(n, "PeerDisconnected"))
    /\ UNCHANGED <<todo, started, boot, joining, recent, cancelled, found, attached, subs>>

\* network.Manager takes the event and connects, with no deadline of its own.
Connect(n, a) ==
    /\ a \in found[n]
    /\ found' = [found EXCEPT ![n] = @ \ {a}]
    /\ \/ UNCHANGED <<link, lost>>      \* connected already, or it fails
       \/ /\ a \notin link[n]
          /\ link' = [link EXCEPT ![n] = @ \cup {a}]
          /\ Publish(n, Notified(n, "PeerConnected"))
    /\ UNCHANGED <<todo, started, boot, joining, recent, cancelled, attached, subs>>

-----------------------------------------------------------------------------
(* Manager.Start *)

\* The next method is not running yet and starts without an error.  Bootstrap
\* has one goroutine for each address; those that it cannot dial end at once.
StartMethod(n, peers) ==
    /\ todo[n] # <<>> /\ Head(todo[n]) \notin started[n]
    /\ started' = [started EXCEPT ![n] = @ \cup {Head(todo[n])}]
    /\ boot' = IF Head(todo[n]) # "bootstrap" THEN boot
               ELSE [boot EXCEPT ![n] = [a \in Addrs |->
                        [at |-> IF a \notin peers THEN "none"
                                ELSE IF a \in Dialable THEN "check" ELSE "done",
                         attempt |-> 0]]]
    /\ joining' = IF Head(todo[n]) # "dht" THEN joining
                  ELSE [joining EXCEPT ![n] = DHTPeers]
    /\ UNCHANGED <<todo, recent, cancelled, link, found, attached, subs, lost>>

\* DHTDiscovery.Start waits for its own bootstrap peers before it goes on.
Joined(n) ==
    /\ "dht" \in started[n] /\ "loop" \notin started[n] /\ joining[n] = {}
    /\ started' = [started EXCEPT ![n] = @ \cup {"loop"}]
    /\ UNCHANGED <<todo, boot, joining, recent, cancelled, link, found, attached, subs, lost>>

\* The method runs, or ran before it was named a second time.
NextMethod(n) ==
    /\ todo[n] # <<>> /\ Head(todo[n]) \in started[n]
    /\ Head(todo[n]) = "dht" => "loop" \in started[n]
    /\ todo' = [todo EXCEPT ![n] = Tail(@)]
    /\ UNCHANGED <<started, boot, joining, recent, cancelled, link, found, attached, subs, lost>>

-----------------------------------------------------------------------------
(* Bootstrap.connectWithRetry *)

BootGoes(n, a, s) == boot' = [boot EXCEPT ![n][a].at = s]

Attempt(n, a) ==
    /\ boot[n][a].at = "check"
    /\ BootGoes(n, a, IF n \in cancelled THEN "done" ELSE "dial")
    /\ UNCHANGED <<todo, started, joining, recent, cancelled, link, found, attached, subs, lost>>

AttemptSucceeds(n, a) ==
    /\ boot[n][a].at = "dial" /\ CanConnect(n, a)
    /\ Discovered(n, a)
    /\ BootGoes(n, a, "done")
    /\ UNCHANGED <<todo, started, joining, recent, cancelled, attached, subs>>

\* Mutant: one retry too many.
AttemptFailsOnceMore(n, a) ==
    /\ boot[n][a].at = "dial" /\ a \notin link[n]
    /\ BootGoes(n, a, IF boot[n][a].attempt <= MaxRetries THEN "wait" ELSE "done")
    /\ UNCHANGED <<todo, started, joining, recent, cancelled, link, found, attached, subs, lost>>

AttemptFails(n, a) ==
    /\ boot[n][a].at = "dial" /\ a \notin link[n]
    /\ BootGoes(n, a, IF boot[n][a].attempt < MaxRetries THEN "wait" ELSE "done")
    /\ UNCHANGED <<todo, started, joining, recent, cancelled, link, found, attached, subs, lost>>

\* Mutant: the attempts are not counted.
WaitUncounted(n, a) ==
    /\ boot[n][a].at = "wait"
    /\ BootGoes(n, a, IF n \in cancelled THEN "done" ELSE "check")
    /\ UNCHANGED <<todo, started, joining, recent, cancelled, link, found, attached, subs, lost>>

\* RetryInterval is over, or the context is.
Wait(n, a) ==
    /\ boot[n][a].at = "wait"
    /\ \/ boot' = [boot EXCEPT ![n][a] = [at |-> "check", attempt |-> @.attempt + 1]]
       \/ n \in cancelled /\ BootGoes(n, a, "done")
    /\ UNCHANGED <<todo, started, joining, recent, cancelled, link, found, attached, subs, lost>>

Bootstrap(n, a) ==
    Attempt(n, a) \/ AttemptSucceeds(n, a) \/ AttemptFails(n, a) \/ Wait(n, a)

-----------------------------------------------------------------------------
(* DHTDiscovery and mDNS *)

\* One of the public peers is connected, or is not.
Join(n, a) ==
    /\ a \in joining[n]
    /\ joining' = [joining EXCEPT ![n] = @ \ {a}]
    /\ \/ UNCHANGED <<recent, link, found, lost>>
       \/ /\ CanConnect(n, a)
          /\ Discovered(n, a)
          /\ recent' = [recent EXCEPT ![n] = @ \cup {a}]
    /\ UNCHANGED <<todo, started, boot, cancelled, attached, subs>>

\* A peer of the rendezvous that was not reached lately; a dial that fails
\* leaves no trace.
FindPeer(n, a) ==
    /\ "loop" \in started[n] /\ a \notin recent[n] /\ CanConnect(n, a)
    /\ Discovered(n, a)
    /\ recent' = [recent EXCEPT ![n] = @ \cup {a}]
    /\ UNCHANGED <<todo, started, boot, joining, cancelled, attached, subs>>

\* Two discovery intervals have passed since the peer was reached.
Forget(n, a) ==
    /\ a \in recent[n]
    /\ recent' = [recent EXCEPT ![n] = @ \ {a}]
    /\ UNCHANGED <<todo, started, boot, joining, cancelled, link, found, attached, subs, lost>>

\* The mDNS service is never stopped and has no context.
HandlePeerFound(n, a) ==
    /\ "mdns" \in started[n] /\ a \notin found[n]
    /\ found' = [found EXCEPT ![n] = @ \cup {a}]
    /\ Publish(n, {"PeerDiscovered"})
    /\ UNCHANGED <<todo, started, boot, joining, recent, cancelled, link, attached, subs>>

-----------------------------------------------------------------------------
\* Manager.Stop
StopDiscovery(n) ==
    /\ cancelled' = cancelled \cup {n}
    /\ UNCHANGED <<todo, started, boot, joining, recent, link, found, attached, subs, lost>>

\* The process has ended.
DropDiscovery(n) ==
    /\ todo' = [todo EXCEPT ![n] = <<>>]
    /\ started' = [started EXCEPT ![n] = {}]
    /\ boot' = [boot EXCEPT ![n] = NoRetries]
    /\ joining' = [joining EXCEPT ![n] = {}]
    /\ recent' = [recent EXCEPT ![n] = {}]
    /\ cancelled' = cancelled \ {n}
    /\ link' = [link EXCEPT ![n] = {}]
    /\ found' = [found EXCEPT ![n] = {}]
    /\ attached' = attached \ {n}
    /\ subs' = [subs EXCEPT ![n] = {}]
    /\ UNCHANGED lost

=============================================================================
