----------------------------- MODULE MCProtocol -----------------------------
(***************************************************************************)
(* Protocol for TLC: two requests of one peer and one of another.          *)
(***************************************************************************)
EXTENDS Protocol, TLC

CONSTANTS p, q, r1, r2, r3

OfPeers == r1 :> p @@ r2 :> p @@ r3 :> q
=============================================================================
