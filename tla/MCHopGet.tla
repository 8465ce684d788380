------------------------------ MODULE MCHopGet ------------------------------
(***************************************************************************)
(* HopGet for TLC: small peer graphs, written out as functions.            *)
(***************************************************************************)
EXTENDS HopGet, FiniteSetsExt, TLC

CONSTANTS R, A, B, C, D, E, F

\* Hops from the requester: the least k such that n is within k hops.
HopsFrom(peers) ==
    LET Ball[k \in Nat] ==
            IF k = 0 THEN {Requester}
            ELSE Ball[k - 1] \cup UNION {peers[n] : n \in Ball[k - 1]}
    IN  [n \in Nodes |-> Min({k \in 0..Cardinality(Nodes) : n \in Ball[k]})]

ASSUME DistIsHops == Dist = HopsFrom(Peers)
ASSUME PeersMutual == \A n, p \in Nodes : p \in Peers[n] <=> n \in Peers[p]

\* The requester and its peers B and F form a triangle, so that the request
\* comes back to it; its peer A, a holder, closes a ring of four with B and C;
\* behind C a tail leaves the request's reach, with a second holder at its end.
RingPeers == R :> {A, B, F} @@ A :> {R, C} @@ B :> {R, C, F} @@ C :> {A, B, D}
             @@ D :> {C, E} @@ E :> {D} @@ F :> {R, B}
RingDist == R :> 0 @@ A :> 1 @@ B :> 1 @@ C :> 2 @@ D :> 3 @@ E :> 4 @@ F :> 1

\* The holder E is behind A, a peer of the requester that also closes a ring
\* of five: R, B, C, D, A.
DetourPeers == R :> {A, B} @@ A :> {R, D, E} @@ B :> {R, C} @@ C :> {B, D}
               @@ D :> {C, A} @@ E :> {A}
DetourDist == R :> 0 @@ A :> 1 @@ B :> 1 @@ C :> 2 @@ D :> 2 @@ E :> 2
=============================================================================
