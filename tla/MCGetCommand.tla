---------------------------- MODULE MCGetCommand ----------------------------
(***************************************************************************)
(* GetCommand for TLC: the types, and who publishes and wants them.        *)
(***************************************************************************)
EXTENDS GetCommand, TLC

CONSTANTS d1, d2

EventTypes == {"started", "progress", "complete", "failed"}
AllPublish == [d \in Publishers |-> EventTypes]
GetWants == [k \in Subscribers |-> <<"started", "progress", "complete", "failed">>]

\* Two progress events of one delivery and one of the other do not fit into a
\* channel of two.
Events == d1 :> 4 @@ d2 :> 3
=============================================================================
