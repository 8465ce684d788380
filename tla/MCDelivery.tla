----------------------------- MODULE MCDelivery -----------------------------
(***************************************************************************)
(* Delivery for TLC: the calls that the runs look at.                      *)
(***************************************************************************)
EXTENDS Delivery

\* deliverToRequester for a requester that two relays make reachable.
RelayedRequester ==
    [addrs |-> <<"circuit", "circuit">>, bounded |-> FALSE, holePunch |-> TRUE]

\* With hole_punch_wait 0, and an address that does not parse.
UnpunchedRequester ==
    [addrs |-> <<"invalid", "circuit">>, bounded |-> FALSE, holePunch |-> FALSE]

\* SendFile to an address of either kind.
SendDirect == [addrs |-> <<"direct">>, bounded |-> TRUE, holePunch |-> TRUE]
SendCircuit == [addrs |-> <<"circuit">>, bounded |-> TRUE, holePunch |-> TRUE]

\* deliverToRequester for a requester behind a NAT: its local address first.
NATRequester ==
    [addrs |-> <<"direct", "circuit">>, bounded |-> FALSE, holePunch |-> TRUE]

AllCalls == {RelayedRequester, UnpunchedRequester, SendDirect, SendCircuit,
             NATRequester}
=============================================================================
