------------------------------ MODULE Protocol ------------------------------
(***************************************************************************)
(* The request/response protocol of internal/protocol/protocol.go between  *)
(* the peers of one node and that node, with the two limits of             *)
(* internal/middleware in its way: the Limiter (backpressure.go) that      *)
(* handleStream acquires first, and the RateLimiter around the handler.    *)
(*                                                                         *)
(* A request r is one stream: Send or SendOneWay at the peer, handleStream *)
(* at the node.  Every deadline is an action that may come at any time.    *)
(***************************************************************************)
EXTENDS RateLimiter

CONSTANTS
    OneWay,         \* the requests that are sent with SendOneWay (GET_FILE)
    Concurrency     \* the capacity of Limiter.sem (10 by default)

ASSUME ProtocolAssumption == OneWay \subseteq Requests /\ Concurrency \in Nat

VARIABLES
    client,     \* client[r]: how far Send or SendOneWay has come
    server,     \* server[r]: how far handleStream has come
    answer,     \* the streams with a response on them
    slots,      \* len(Limiter.sem)
    working     \* the requests whose processGet goroutine runs

streamVars == <<client, server, answer, slots, working>>
vars == <<limiterVars, streamVars>>

ClientStates == {"idle", "open", "reading", "sent", "answered",
                 "unopened", "unsent", "gaveUp"}
ServerStates == {"none", "decoding", "handling", "responding", "closed", "reset"}

TypeOK ==
    /\ LimiterTypeOK
    /\ client \in [Requests -> ClientStates]
    /\ server \in [Requests -> ServerStates]
    /\ answer \subseteq Requests
    /\ slots \in 0..Concurrency
    /\ working \subseteq OneWay

Init ==
    /\ LimiterInit
    /\ client = [r \in Requests |-> "idle"]
    /\ server = [r \in Requests |-> "none"]
    /\ answer = {}
    /\ slots = 0
    /\ working = {}

-----------------------------------------------------------------------------
(* Send and SendOneWay *)

ClientMoves(r, s) ==
    /\ client' = [client EXCEPT ![r] = s]
    /\ UNCHANGED <<limiterVars, server, answer, slots, working>>

\* NewStream succeeds.
Open(r) == client[r] = "idle" /\ ClientMoves(r, "open")

\* NewStream fails, or its context ends.
OpenFails(r) == client[r] = "idle" /\ ClientMoves(r, "unopened")

\* Encode: SendOneWay returns, Send goes on to read.
WriteRequest(r) ==
    /\ client[r] = "open"
    /\ ClientMoves(r, IF r \in OneWay THEN "sent" ELSE "reading")

\* The stream is reset under Encode, or the write deadline passes.
WriteFails(r) == client[r] = "open" /\ ClientMoves(r, "unsent")

\* Decode finds the response.
ReadAnswer(r) == client[r] = "reading" /\ r \in answer /\ ClientMoves(r, "answered")

\* The stream ends without a response or is reset, or the read deadline of
\* Send passes, whatever the node is doing with the request.
ReadFails(r) == client[r] = "reading" /\ ClientMoves(r, "gaveUp")

-----------------------------------------------------------------------------
(* handleStream *)

\* The whole message is on the stream, where it stays when the peer gives up.
Written(r) == client[r] \in {"reading", "sent", "answered", "gaveUp"}

\* The streams that reached the node and that handleStream has not taken.
Arrived(r) == server[r] = "none" /\ client[r] \notin {"idle", "unopened"}

\* Mutant: Acquire lets in one stream too many.
AcceptOneMore(r) ==
    /\ Arrived(r)
    /\ slots <= Concurrency
    /\ slots' = slots + 1
    /\ server' = [server EXCEPT ![r] = "decoding"]
    /\ UNCHANGED <<limiterVars, client, answer, working>>

\* Acquire = true
Accept(r) ==
    /\ Arrived(r)
    /\ slots < Concurrency
    /\ slots' = slots + 1
    /\ server' = [server EXCEPT ![r] = "decoding"]
    /\ UNCHANGED <<limiterVars, client, answer, working>>

\* Acquire = false: overloaded, the stream is reset.
Drop(r) ==
    /\ Arrived(r)
    /\ slots >= Concurrency
    /\ server' = [server EXCEPT ![r] = "reset"]
    /\ UNCHANGED <<limiterVars, client, answer, slots, working>>

\* Mutant: an early return without the deferred Release.
CloseOnly(r) ==
    /\ server' = [server EXCEPT ![r] = "closed"]
    /\ UNCHANGED slots

\* handleStream returns: the deferred Close and Release.
Return(r) ==
    /\ server' = [server EXCEPT ![r] = "closed"]
    /\ slots' = slots - 1

Decode(r) ==
    /\ server[r] = "decoding"
    /\ Written(r)
    /\ server' = [server EXCEPT ![r] = "handling"]
    /\ UNCHANGED <<limiterVars, client, answer, slots, working>>

\* The stream ends inside the message, the message is too long or no JSON, or
\* the read deadline passes.
DecodeFails(r) ==
    /\ server[r] = "decoding"
    /\ Return(r)
    /\ UNCHANGED <<limiterVars, client, answer, working>>

\* RateLimiter.Wrap refuses: the error closes the stream without a response.
HandleRefused(r) ==
    /\ server[r] = "handling"
    /\ Refuse(r)
    /\ Return(r)
    /\ UNCHANGED <<client, answer, working>>

\* Mutant: the handler is not wrapped by the rate limiter.
HandleOneWayUnlimited(r) ==
    /\ r \in OneWay
    /\ server[r] = "handling"
    /\ working' \in {working, working \cup {r}}
    /\ Return(r)
    /\ UNCHANGED <<limiterVars, client, answer>>

\* handleGet starts processGet, unless its payload does not decode, and the
\* stream is closed while that goroutine goes on.
HandleOneWay(r) ==
    /\ r \in OneWay
    /\ server[r] = "handling"
    /\ Allow(r)
    /\ working' \in {working, working \cup {r}}
    /\ Return(r)
    /\ UNCHANGED <<client, answer>>

\* handleStoreFileMessage, or an ERROR message, gives a response.
HandleCall(r) ==
    /\ r \notin OneWay
    /\ server[r] = "handling"
    /\ Allow(r)
    /\ server' = [server EXCEPT ![r] = "responding"]
    /\ UNCHANGED <<client, answer, slots, working>>

Respond(r) ==
    /\ server[r] = "responding"
    /\ answer' = answer \cup {r}
    /\ Return(r)
    /\ UNCHANGED <<limiterVars, client, working>>

\* The peer has gone, or the write deadline passes.
RespondFails(r) ==
    /\ server[r] = "responding"
    /\ Return(r)
    /\ UNCHANGED <<limiterVars, client, answer, working>>

\* The processGet goroutine of r, and its deliveries, end.
WorkEnds(r) ==
    /\ r \in working
    /\ working' = working \ {r}
    /\ UNCHANGED <<limiterVars, client, server, answer, slots>>

-----------------------------------------------------------------------------
ClientStep(r) ==
    \/ Open(r) \/ OpenFails(r) \/ WriteRequest(r) \/ WriteFails(r)
    \/ ReadAnswer(r) \/ ReadFails(r)

\* The goroutine that runs handleStream for r.
HandleStream(r) ==
    \/ Accept(r) \/ Drop(r) \/ Decode(r) \/ DecodeFails(r)
    \/ HandleRefused(r) \/ HandleOneWay(r) \/ HandleCall(r)
    \/ Respond(r) \/ RespondFails(r)

Next ==
    \/ \E r \in Requests : ClientStep(r) \/ HandleStream(r) \/ WorkEnds(r)
    \/ (Cleanup \/ Tick) /\ UNCHANGED streamVars

Spec == Init /\ [][Next]_vars

\* handleStream runs on, because each of its reads and writes has a deadline
\* and its handler does not block; nothing is assumed of the peers.
FairSpec == Spec /\ \A r \in Requests : WF_vars(HandleStream(r))

-----------------------------------------------------------------------------
\* The streams that handleStream works on.
Held == {r \in Requests : server[r] \in {"decoding", "handling", "responding"}}

\* The slots in use are those of the streams that handleStream works on: no
\* return, refusal or dropped stream loses a slot or gives one back twice.
SlotsHeld == slots = Cardinality(Held)

\* A response on a stream, and a running processGet, come from a request that
\* the rate limiter let through, though the peer may have given up long ago.
LetThrough == \A r \in answer \cup working : at[r] # Never

\* A node that turns streams away will again accept one, whatever its peers
\* do with the streams they hold open.
OverloadClears == slots = Concurrency ~> slots < Concurrency
=============================================================================
