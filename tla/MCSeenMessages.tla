--------------------------- MODULE MCSeenMessages ---------------------------
(***************************************************************************)
(* SeenMessages for TLC: the ids are interchangeable.                      *)
(***************************************************************************)
EXTENDS SeenMessages, TLC

IdSymmetry == Permutations(Ids)
=============================================================================
