----------------------------- MODULE MCTransfer -----------------------------
(***************************************************************************)
(* Transfer for TLC: who sends to whom, as functions of the transfers.     *)
(***************************************************************************)
EXTENDS Transfer, TLC

CONSTANTS H1, H2, R, a, b, c

\* Two holders send to R.
TwoFrom == a :> H1 @@ b :> H2
TwoTo == a :> R @@ b :> R
TwoSession == a :> NoSession @@ b :> NoSession

\* Besides, H1 sends the file to H2, which runs receive and has the file.
ThreeFrom == TwoFrom @@ c :> H1
ThreeTo == TwoTo @@ c :> H2
ThreeSession == TwoSession @@ c :> TheSession
=============================================================================
