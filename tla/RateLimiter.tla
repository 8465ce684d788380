---------------------------- MODULE RateLimiter -----------------------------
(***************************************************************************)
(* The sliding-window rate limiter of internal/middleware/ratelimit.go,    *)
(* which FileServer.Start wraps around its handler.  Every method runs     *)
(* under RateLimiter.mu, so every method is one action.  A request is a    *)
(* token, so that two requests of the same instant count as two; a token   *)
(* that was refused may come again.                                        *)
(***************************************************************************)
EXTENDS Integers, FiniteSets, Functions

CONSTANTS
    Clients,    \* the remote peers
    Requests,   \* bound: the requests that may be let through
    Of,         \* Of[r]: the peer that makes request r
    Limit,      \* RateLimiter.limit (100 by default)
    Window,     \* RateLimiter.window (1 s by default), in ticks
    TTL,        \* RateLimiter.ttl (5 min by default), in ticks
    MaxTime     \* bound: how far the clock is let run

ASSUME ClientsAssumption == Of \in [Requests -> Clients] /\ IsFiniteSet(Requests)
ASSUME LimitAssumption == Limit \in Nat /\ Window \in Nat \ {0} /\ MaxTime \in Nat
\* The two are configured apart (rate_limiter.window, rate_limiter.ttl) and
\* nothing compares them; their defaults satisfy this.
ASSUME TTLAssumption == TTL \in Nat /\ Window <= TTL

VARIABLES
    now,        \* time.Now()
    peers,      \* RateLimiter.peers: client -> peerWindow
    at          \* history: when request r was let through

limiterVars == <<now, peers, at>>

Never == 0 - Window     \* "not yet": outside every window

PeerWindows == [requests : SUBSET Requests, lastSeen : Nat]

LimiterTypeOK ==
    /\ now \in Nat
    /\ DOMAIN peers \subseteq Clients
    /\ peers \in [DOMAIN peers -> PeerWindows]
    /\ at \in [Requests -> Int]

LimiterInit ==
    /\ now = 0
    /\ peers = [c \in {} |-> [requests |-> {}, lastSeen |-> 0]]
    /\ at = [r \in Requests |-> Never]

-----------------------------------------------------------------------------
\* Mutant: the old requests are not removed.
ValidForever(c) == IF c \in DOMAIN peers THEN peers[c].requests ELSE {}

\* The requests of c that are left after the old ones are removed.
Valid(c) ==
    IF c \in DOMAIN peers
    THEN {r \in peers[c].requests : at[r] > now - Window}
    ELSE {}

\* rl.peers with the window of c replaced, or added.
SetWindow(c, reqs) ==
    [d \in DOMAIN peers \cup {c} |->
        IF d = c THEN [requests |-> reqs, lastSeen |-> now] ELSE peers[d]]

\* Mutant: > for >= in the test of the limit.
UnderLooseLimit(c) == Cardinality(Valid(c)) <= Limit

UnderLimit(c) == Cardinality(Valid(c)) < Limit

\* allow(Of[r]) = true
Allow(r) ==
    /\ at[r] = Never
    /\ UnderLimit(Of[r])
    /\ peers' = SetWindow(Of[r], Valid(Of[r]) \cup {r})
    /\ at' = [at EXCEPT ![r] = now]
    /\ UNCHANGED now

\* allow(Of[r]) = false
Refuse(r) ==
    /\ at[r] = Never
    /\ ~UnderLimit(Of[r])
    /\ peers' = SetWindow(Of[r], Valid(Of[r]))
    /\ UNCHANGED <<now, at>>

\* One tick of the ticker.
Cleanup ==
    /\ peers' = Restrict(peers, {c \in DOMAIN peers : now - peers[c].lastSeen <= TTL})
    /\ UNCHANGED <<now, at>>

Tick ==
    /\ now < MaxTime
    /\ now' = now + 1
    /\ UNCHANGED <<peers, at>>

LimiterNext ==
    \/ \E r \in Requests : Allow(r) \/ Refuse(r)
    \/ Cleanup
    \/ Tick

LimiterSpec == LimiterInit /\ [][LimiterNext]_limiterVars

-----------------------------------------------------------------------------
\* The requests of c let through in the window that ends now.
Recent(c) == {r \in Requests : Of[r] = c /\ at[r] > now - Window}

\* No peer gets more than Limit requests through in any window, wherever the
\* window starts and whatever the cleanup has thrown away in between.
RateBound == \A c \in Clients : Cardinality(Recent(c)) <= Limit

\* A peer is refused only when Limit of its own requests were let through in
\* the window: refused requests, and requests of others, never count.
RefusedForCause ==
    [][\A r \in Requests : Refuse(r) => Cardinality(Recent(Of[r])) >= Limit]_limiterVars
=============================================================================
