------------------------------ MODULE Delivery ------------------------------
(***************************************************************************)
(* How a node connects to another one before a transfer: the loop of       *)
(* deliverToRequester (internal/fileserver/get.go) over the addresses of   *)
(* the requester, with ConnectWithHolePunch, ConnectToPeer,                *)
(* WaitForDirectConnection and StoreFileToPeerDirect (fileserver.go); and  *)
(* the same for the single address of operations.SendFile.                 *)
(*                                                                         *)
(* ConnectToPeer only publishes PeerDiscovered and waits; the connection   *)
(* is made by a goroutine of network.Manager.  The transfer itself is      *)
(* module Transfer.                                                        *)
(***************************************************************************)
EXTENDS Integers, Sequences

CONSTANTS
    Calls,          \* the calls to look at: see CallType
    Works           \* which ways through the network work: see Ways

\* A dial to the peer; to the relay; through the relay; DCUtR.
Ways == {"direct", "relay", "circuit", "punch"}

\* An address of the peer, of it through a relay, or none that parses.
AddrKinds == {"direct", "circuit", "invalid"}

\* The addresses to try, in order; whether the caller's context has a deadline
\* (SendFile, one address) or not (deliverToRequester); HolePunchWait > 0.
CallType ==
    [addrs : Seq(AddrKinds) \ {<<>>}, bounded : BOOLEAN, holePunch : BOOLEAN]

ASSUME DeliveryAssumption == Works \subseteq Ways /\ \A c \in Calls : c \in CallType

VARIABLES
    call,           \* the call, which never changes
    tried,          \* the address that is tried
    stage,          \* where deliverToRequester is
    links,          \* the connections to the peer: "direct", "circuit"
    relay,          \* the connection to the relay, and our reservation there
    dials,          \* the goroutines of Manager.connect, by what they dial
    punched         \* history: a hole punch was waited for to its end

deliveryVars == <<call, tried, stage, links, relay, dials, punched>>

\* Inside ConnectWithHolePunch: a direct dial; the relay, its reservation, the
\* dial through it, the hole punch.
Connecting == {"direct", "relay", "reserve", "circuit", "punch"}
Ended == {"delivered", "broken", "relayedOnly", "unconnected"}

DeliveryTypeOK ==
    /\ call \in Calls
    /\ tried \in 1..Len(call.addrs)
    /\ stage \in {"try", "connected", "transfer"} \cup Connecting \cup Ended
    /\ links \subseteq {"direct", "circuit"}
    /\ relay \in {"none", "up", "reserved"}
    /\ dials \subseteq {"direct", "relay", "circuit"}
    /\ punched \in BOOLEAN

\* The nodes may already be connected, through the relay or directly, and the
\* relay of a requester behind a NAT may be ours too.
DeliveryInit ==
    /\ call \in Calls
    /\ tried = 1
    /\ stage = "try"
    /\ links \in SUBSET (Works \cap {"direct", "circuit"})
    /\ relay \in IF "relay" \in Works THEN {"none", "up", "reserved"} ELSE {"none"}
    /\ dials = {}
    /\ punched = FALSE

-----------------------------------------------------------------------------
(* deliverToRequester *)

\* Go on at s; "dial" is what PeerDiscovered is published for, if anything.
GoTo(s, dial) ==
    /\ stage' = s
    /\ dials' = dials \cup dial
    /\ UNCHANGED <<call, tried, links, relay, punched>>

\* ConnectWithHolePunch for the next address.
TryAddress ==
    /\ stage = "try"
    /\ call.addrs[tried] # "invalid"
    /\ IF call.addrs[tried] = "direct" THEN GoTo("direct", {"direct"})
                                       ELSE GoTo("relay", {"relay"})

\* ConnectToPeer finds a connection to the peer: Connected or Limited.
DirectReturns == stage = "direct" /\ links # {} /\ GoTo("connected", {})

\* The relay is connected.
RelayReturns == stage = "relay" /\ relay # "none" /\ GoTo("reserve", {})

\* An address of ours names the relay.
ReservationAppears == stage = "reserve" /\ relay = "reserved" /\ GoTo("circuit", {"circuit"})

\* Mutant: the wait for the hole punch is left to the caller.
CircuitIsEnough == stage = "circuit" /\ links # {} /\ GoTo("connected", {})

\* ConnectToPeer for the circuit address finds a connection to the peer.
CircuitReturns ==
    /\ stage = "circuit"
    /\ links # {}
    /\ GoTo(IF call.holePunch THEN "punch" ELSE "connected", {})

\* WaitForDirectConnection sees a direct connection.
PunchReturns ==
    /\ stage = "punch"
    /\ "direct" \in links
    /\ stage' = "connected"
    /\ punched' = TRUE
    /\ UNCHANGED <<call, tried, links, relay, dials>>

\* Mutant: the loop goes on past the last address.
NextAddressAlways == tried' = tried + 1 /\ stage' = "try"

\* ConnectWithHolePunch has returned an error: the next address, if any.
NextAddress ==
    IF tried < Len(call.addrs) THEN tried' = tried + 1 /\ stage' = "try"
                               ELSE tried' = tried /\ stage' = "unconnected"

\* ConnectToPeer cannot parse the address: nothing is published or waited for.
SkipAddress ==
    /\ stage = "try"
    /\ call.addrs[tried] = "invalid"
    /\ NextAddress
    /\ UNCHANGED <<call, links, relay, dials, punched>>

\* Mutant: only the caller's deadline ends a wait.
WaitEndsIfBounded ==
    /\ stage \in Connecting
    /\ call.bounded
    /\ NextAddress
    /\ punched' = (punched \/ stage = "punch")
    /\ UNCHANGED <<call, links, relay, dials>>

\* A wait ends without success: those for a circuit address have deadlines of
\* their own, the one for a direct address has that of the caller only.  What
\* is waited for may have come since it was last looked for.
WaitEnds ==
    /\ stage \in Connecting
    /\ stage = "direct" => call.bounded
    /\ NextAddress
    /\ punched' = (punched \/ stage = "punch")
    /\ UNCHANGED <<call, links, relay, dials>>

\* StoreFileToPeerDirect
StoreDirect ==
    /\ stage = "connected"
    /\ GoTo(IF "direct" \in links THEN "transfer" ELSE "relayedOnly", {})

\* StoreFileToPeer returns.
TransferEnds == stage = "transfer" /\ \E s \in {"delivered", "broken"} : GoTo(s, {})

-----------------------------------------------------------------------------
(* Manager.connect, and the network *)

Dialed(d) ==
    /\ d \in dials
    /\ dials' = dials \ {d}
    /\ UNCHANGED <<call, tried, stage, punched>>

\* connect skips a peer that is connected already, or host.Connect fails; it
\* is not tried again.
DialFails(d) == Dialed(d) /\ UNCHANGED <<links, relay>>

DialPeer(d) ==
    /\ d \in {"direct", "circuit"} \cap Works
    /\ links = {}
    /\ Dialed(d)
    /\ links' = {d}
    /\ UNCHANGED relay

DialRelay ==
    /\ "relay" \in Works
    /\ Dialed("relay")
    /\ relay' = IF relay = "none" THEN "up" ELSE relay
    /\ UNCHANGED links

\* libp2p's autorelay gets the reservation.
Reserve ==
    /\ relay = "up"
    /\ relay' = "reserved"
    /\ UNCHANGED <<call, tried, stage, links, dials, punched>>

\* DCUtR turns a relayed connection into a direct one.
Punch ==
    /\ "punch" \in Works
    /\ "circuit" \in links
    /\ links' = links \cup {"direct"}
    /\ UNCHANGED <<call, tried, stage, relay, dials, punched>>

\* The connection to the relay is lost, and the reservation with it.
RelayDown ==
    /\ relay # "none"
    /\ relay' = "none"
    /\ UNCHANGED <<call, tried, stage, links, dials, punched>>

LinkDown(k) ==
    /\ k \in links
    /\ links' = links \ {k}
    /\ UNCHANGED <<call, tried, stage, relay, dials, punched>>

-----------------------------------------------------------------------------
\* The goroutine of deliverToRequester.
Deliver ==
    \/ TryAddress \/ SkipAddress \/ DirectReturns
    \/ RelayReturns \/ ReservationAppears \/ CircuitReturns \/ PunchReturns
    \/ WaitEnds \/ StoreDirect \/ TransferEnds

Connect(d) == DialPeer(d) \/ DialFails(d) \/ (d = "relay" /\ DialRelay)

DeliveryNext ==
    \/ Deliver
    \/ \E d \in {"direct", "relay", "circuit"} : Connect(d)
    \/ Reserve \/ Punch \/ RelayDown
    \/ \E k \in {"direct", "circuit"} : LinkDown(k)

DeliverySpec == DeliveryInit /\ [][DeliveryNext]_deliveryVars

\* The goroutines run, and timers fire.  Nothing is assumed of the network.
FairDeliverySpec ==
    /\ DeliverySpec
    /\ WF_deliveryVars(Deliver)
    /\ \A d \in {"direct", "relay", "circuit"} : WF_deliveryVars(Connect(d))

-----------------------------------------------------------------------------
\* With hole punching on, a delivery that got its connection by a circuit address
\* gives up for want of a direct one only after a hole punch was waited for,
\* also when the nodes were connected before it began, when other addresses
\* were tried before, or when connections come and go while it runs.
CircuitPunched ==
    stage = "relayedOnly" /\ call.holePunch /\ call.addrs[tried] = "circuit" => punched

\* No address is one of the peer itself.
NoDirect == \A k \in DOMAIN call.addrs : call.addrs[k] # "direct"

\* A delivery comes to an end, whatever the network does, if its caller bounds
\* it (SendFile) or if none of its addresses is a direct one: the steps of a
\* circuit address are each bounded by GetConnectTimeout.  (A direct address of
\* a requester has neither bound, although fileserver.go:840 says so of each
\* step.)
DeliveryEnds == call.bounded \/ NoDirect => <>(stage \in Ended)
=============================================================================
