--------------------------- MODULE ProtocolProofs ---------------------------
(***************************************************************************)
(* Proofs about Protocol, and about the RateLimiter that it contains, for  *)
(* any number of streams, slots and peers and for every limit, window and  *)
(* TTL, with the clock unbounded but for MaxTime.  First the limiter on    *)
(* its own; then the protocol implements the limiter, so that the same     *)
(* holds of it; no slot is lost; and nothing is answered or worked on that *)
(* the limiter refused.                                                    *)
(***************************************************************************)
EXTENDS Protocol, FiniteSetTheorems, TLAPS

-----------------------------------------------------------------------------
(* The rate limiter *)

\* Nothing is let through in the future, and what is recorded for a client are
\* requests of that client no younger than its lastSeen.
TimesInv ==
    /\ \A r \in Requests : at[r] <= now
    /\ \A c \in DOMAIN peers : \A r \in Requests :
        r \in peers[c].requests => Of[r] = c
    /\ \A r \in Requests : Of[r] \in DOMAIN peers => at[r] <= peers[Of[r]].lastSeen

\* Every request still inside the window is on record, whatever was cleaned
\* up: the record of a client is forgotten only after its window.
RecordedInv == \A c \in Clients : Recent(c) \subseteq Valid(c)

LimiterInv == LimiterTypeOK /\ TimesInv /\ RecordedInv /\ RateBound

\* The sets that are counted are finite.
LEMMA RecentFinite ==
  ASSUME NEW c
  PROVE  IsFiniteSet(Recent(c)) /\ Cardinality(Recent(c)) \in Nat
  <1>1. Recent(c) \subseteq Requests
    BY DEF Recent
  <1>2. IsFiniteSet(Recent(c))
    BY <1>1, ClientsAssumption, FS_Subset
  <1> QED
    BY <1>2, FS_CardinalityType

\* At first nothing was let through.
LEMMA LimiterInitEstablishes == LimiterInit => LimiterInv
  <1> SUFFICES ASSUME LimiterInit PROVE LimiterInv
    OBVIOUS
  <1>1. LimiterTypeOK /\ TimesInv
    BY LimitAssumption DEF LimiterInit, LimiterTypeOK, TimesInv, Never
  <1>2. \A c \in Clients : Recent(c) = {}
    BY LimitAssumption DEF LimiterInit, Recent, Never
  <1>3. RecordedInv
    BY <1>2 DEF RecordedInv
  <1>4. RateBound
    BY <1>2, FS_EmptySet, LimitAssumption DEF RateBound
  <1> QED
    BY <1>1, <1>3, <1>4 DEF LimiterInv

\* What is left of a client's requests is recent, so both counts agree.
LEMMA ValidIsRecent ==
  ASSUME LimiterInv, NEW c \in Clients
  PROVE  Valid(c) = Recent(c)
  <1>1. Valid(c) \subseteq Recent(c)
    <2>1. ASSUME NEW r \in Valid(c) PROVE r \in Recent(c)
      <3>1. c \in DOMAIN peers /\ r \in peers[c].requests /\ at[r] > now - Window
        BY <2>1 DEF Valid
      <3>2. r \in Requests
        BY <3>1 DEF LimiterInv, LimiterTypeOK, PeerWindows
      <3>3. Of[r] = c
        BY <3>1, <3>2 DEF LimiterInv, TimesInv
      <3> QED
        BY <3>1, <3>2, <3>3 DEF Recent
    <2> QED
      BY <2>1
  <1> QED
    BY <1>1 DEF LimiterInv, RecordedInv

\* A call of allow, whatever it answers, leaves the records in order.
LEMMA SetWindowPreserves ==
  ASSUME LimiterInv, NEW r \in Requests, NEW reqs \in {Valid(Of[r]), Valid(Of[r]) \cup {r}},
         peers' = SetWindow(Of[r], reqs), now' = now,
         at' \in [Requests -> Int],
         \A q \in Requests : at'[q] = at[q] \/ (q = r /\ at'[q] = now /\ r \in reqs)
  PROVE  LimiterTypeOK' /\ TimesInv' /\ RecordedInv'
  <1> USE DEF LimiterInv
  <1> DEFINE c == Of[r]
  <1>1. c \in Clients
    BY ClientsAssumption
  <1>2. reqs \subseteq Requests
    BY DEF Valid, LimiterTypeOK, PeerWindows
  <1>3. /\ DOMAIN peers' = DOMAIN peers \cup {c}
        /\ peers'[c] = [requests |-> reqs, lastSeen |-> now]
        /\ \A d \in DOMAIN peers : d # c => peers'[d] = peers[d]
    BY DEF SetWindow
  <1>4. LimiterTypeOK'
    <2>1. \A d \in DOMAIN peers' : peers'[d] \in PeerWindows
      BY <1>2, <1>3 DEF LimiterTypeOK, PeerWindows
    <2>2. peers' \in [DOMAIN peers' -> PeerWindows]
      BY <2>1 DEF SetWindow
    <2> QED
      BY <1>1, <1>3, <2>2 DEF LimiterTypeOK
  <1>5. \A q \in reqs : Of[q] = c
    BY <1>2 DEF Valid, TimesInv
  <1>6. TimesInv'
    <2>1. \A q \in Requests : at[q] \in Int /\ at[q] <= now /\ now \in Nat
      BY DEF LimiterTypeOK, TimesInv
    <2>2. \A q \in Requests : at'[q] <= now'
      BY <2>1
    <2>3. \A d \in DOMAIN peers' : \A q \in Requests :
             q \in peers'[d].requests => Of[q] = d
      BY <1>3, <1>5 DEF TimesInv
    <2>4. \A q \in Requests : Of[q] \in DOMAIN peers' => at'[q] <= peers'[Of[q]].lastSeen
      BY <1>3, <2>1, <2>2 DEF TimesInv
    <2> QED
      BY <2>2, <2>3, <2>4 DEF TimesInv
  <1>7. RecordedInv'
    <2>1. SUFFICES ASSUME NEW d \in Clients, NEW q \in Recent(d)'
                   PROVE  q \in Valid(d)'
      BY DEF RecordedInv
    <2>2. q \in Requests /\ Of[q] = d /\ at'[q] > now - Window
      BY <2>1 DEF Recent
    <2>3. CASE at'[q] = at[q]
      <3>1. q \in Recent(d)
        BY <2>2, <2>3 DEF Recent
      <3>2. q \in Valid(d)
        BY <3>1 DEF RecordedInv
      <3>3. d \in DOMAIN peers /\ q \in peers[d].requests
        BY <3>2 DEF Valid
      <3>4. d \in DOMAIN peers' /\ q \in peers'[d].requests
        BY <1>3, <3>2, <3>3
      <3> QED
        BY <2>2, <3>4 DEF Valid
    <2>4. CASE q = r /\ at'[q] = now /\ r \in reqs
      BY <1>3, <2>2, <2>4 DEF Valid
    <2> QED
      BY <2>2, <2>3, <2>4
  <1> QED
    BY <1>4, <1>6, <1>7

\* allow = true: the count was below the limit and grows by one.
LEMMA AllowPreserves ==
  ASSUME LimiterInv, NEW r \in Requests, Allow(r)
  PROVE  LimiterInv'
  <1> USE DEF LimiterInv
  <1> DEFINE c == Of[r]
  <1>1. /\ at[r] = Never /\ Cardinality(Valid(c)) < Limit
        /\ peers' = SetWindow(c, Valid(c) \cup {r})
        /\ at' = [at EXCEPT ![r] = now]
        /\ now' = now
    BY DEF Allow, UnderLimit
  <1>2. c \in Clients /\ now \in Nat /\ at \in [Requests -> Int]
    BY ClientsAssumption DEF LimiterTypeOK
  <1>3. LimiterTypeOK' /\ TimesInv' /\ RecordedInv'
    <2>1. at' \in [Requests -> Int]
      BY <1>1, <1>2
    <2>2. \A q \in Requests : at'[q] = at[q] \/ (q = r /\ at'[q] = now /\ r \in Valid(c) \cup {r})
      BY <1>1, <1>2
    <2> QED
      BY <1>1, <2>1, <2>2, SetWindowPreserves
  <1>4. RateBound'
    <2>1. SUFFICES ASSUME NEW d \in Clients PROVE Cardinality(Recent(d)') <= Limit
      BY DEF RateBound
    <2>2. CASE d # c
      <3>1. Recent(d)' = Recent(d)
        BY <1>1, <1>2, <2>2 DEF Recent
      <3> QED
        BY <3>1 DEF RateBound
    <2>3. CASE d = c
      <3>1. Recent(c)' = Recent(c) \cup {r} /\ r \notin Recent(c)
        BY <1>1, <1>2, LimitAssumption DEF Recent, Never
      <3>2. Cardinality(Recent(c)') = Cardinality(Recent(c)) + 1
        BY <3>1, RecentFinite, FS_AddElement
      <3>3. Cardinality(Recent(c)) < Limit
        BY <1>1, <1>2, ValidIsRecent
      <3>4. Cardinality(Recent(c)) \in Nat
        BY RecentFinite
      <3> QED
        BY <2>3, <3>2, <3>3, <3>4, LimitAssumption
    <2> QED
      BY <2>2, <2>3
  <1> QED
    BY <1>3, <1>4

\* allow = false: nothing is counted.
LEMMA RefusePreserves ==
  ASSUME LimiterInv, NEW r \in Requests, Refuse(r)
  PROVE  LimiterInv'
  <1> USE DEF LimiterInv
  <1>1. peers' = SetWindow(Of[r], Valid(Of[r])) /\ at' = at /\ now' = now
    BY DEF Refuse
  <1>2. LimiterTypeOK' /\ TimesInv' /\ RecordedInv'
    <2>1. at' \in [Requests -> Int]
      BY <1>1 DEF LimiterTypeOK
    <2> QED
      BY <1>1, <2>1, SetWindowPreserves
  <1>3. RateBound'
    BY <1>1 DEF RateBound, Recent
  <1> QED
    BY <1>2, <1>3

\* The cleanup drops only clients whose window is empty, as TTL >= Window.
LEMMA CleanupPreserves ==
  ASSUME LimiterInv, Cleanup
  PROVE  LimiterInv'
  <1> USE DEF LimiterInv
  <1> DEFINE kept == {c \in DOMAIN peers : now - peers[c].lastSeen <= TTL}
  <1>1. /\ DOMAIN peers' = kept
        /\ \A c \in kept : peers'[c] = peers[c]
        /\ at' = at /\ now' = now
        /\ peers' = [c \in kept |-> peers[c]]
    BY DEF Cleanup, Restrict
  <1>2. LimiterTypeOK'
    <2>1. peers' \in [DOMAIN peers' -> PeerWindows]
      BY <1>1 DEF LimiterTypeOK
    <2> QED
      BY <1>1, <2>1 DEF LimiterTypeOK
  <1>3. TimesInv'
    BY <1>1 DEF TimesInv
  <1>4. RecordedInv'
    <2>1. SUFFICES ASSUME NEW c \in Clients, NEW q \in Recent(c)'
                   PROVE  q \in Valid(c)'
      BY DEF RecordedInv
    <2>2. q \in Requests /\ Of[q] = c /\ at[q] > now - Window /\ q \in Recent(c)
      BY <1>1, <2>1 DEF Recent
    <2>3. c \in DOMAIN peers /\ q \in peers[c].requests
      BY <2>2 DEF RecordedInv, Valid
    <2>4. at[q] <= peers[c].lastSeen
      BY <2>2, <2>3 DEF TimesInv
    <2>5. at[q] \in Int /\ now \in Nat /\ peers[c].lastSeen \in Nat
      BY <2>2, <2>3 DEF LimiterTypeOK, PeerWindows
    <2>6. now - peers[c].lastSeen <= TTL
      BY <2>2, <2>4, <2>5, TTLAssumption, LimitAssumption
    <2>7. c \in DOMAIN peers' /\ q \in peers'[c].requests
      BY <1>1, <2>3, <2>6
    <2> QED
      BY <1>1, <2>2, <2>7 DEF Valid
  <1>5. RateBound'
    BY <1>1 DEF RateBound, Recent
  <1> QED
    BY <1>2, <1>3, <1>4, <1>5

\* Time passes: the windows only lose requests.
LEMMA TickPreserves ==
  ASSUME LimiterInv, Tick
  PROVE  LimiterInv'
  <1> USE DEF LimiterInv
  <1>1. now' = now + 1 /\ peers' = peers /\ at' = at /\ now \in Nat
    BY DEF Tick, LimiterTypeOK
  <1>2. \A q \in Requests : at[q] \in Int
    BY DEF LimiterTypeOK
  <1>3. LimiterTypeOK'
    BY <1>1 DEF LimiterTypeOK
  <1>4. TimesInv'
    BY <1>1, <1>2 DEF TimesInv
  <1>5. ASSUME NEW c \in Clients PROVE Recent(c)' \subseteq Recent(c)
    BY <1>1, <1>2, LimitAssumption DEF Recent
  <1>6. RecordedInv'
    <2>1. SUFFICES ASSUME NEW c \in Clients, NEW q \in Recent(c)'
                   PROVE  q \in Valid(c)'
      BY DEF RecordedInv
    <2>2. q \in Valid(c)
      BY <1>5 DEF RecordedInv
    <2>3. at'[q] > now' - Window
      BY <2>1 DEF Recent
    <2> QED
      BY <1>1, <2>2, <2>3 DEF Valid
  <1>7. RateBound'
    <2>1. SUFFICES ASSUME NEW c \in Clients PROVE Cardinality(Recent(c)') <= Limit
      BY DEF RateBound
    <2>2. Cardinality(Recent(c)') <= Cardinality(Recent(c)) /\ IsFiniteSet(Recent(c)')
      BY <1>5, RecentFinite, FS_Subset
    <2>3. Cardinality(Recent(c)) <= Limit /\ Cardinality(Recent(c)) \in Nat
      BY RecentFinite DEF RateBound
    <2>4. Cardinality(Recent(c)') \in Nat
      BY <2>2, FS_CardinalityType
    <2> QED
      BY <2>2, <2>3, <2>4, LimitAssumption
  <1> QED
    BY <1>3, <1>4, <1>6, <1>7

\* Every step keeps the invariant.
LEMMA LimiterNextPreserves == LimiterInv /\ [LimiterNext]_limiterVars => LimiterInv'
  <1> SUFFICES ASSUME LimiterInv, [LimiterNext]_limiterVars PROVE LimiterInv'
    OBVIOUS
  <1>1. CASE UNCHANGED limiterVars
    BY <1>1 DEF LimiterInv, LimiterTypeOK, TimesInv, RecordedInv, RateBound, Recent,
                Valid, limiterVars
  <1> QED
    BY <1>1, AllowPreserves, RefusePreserves, CleanupPreserves, TickPreserves
    DEF LimiterNext

-----------------------------------------------------------------------------
\* The inductive invariant holds in every reachable state.
THEOREM LimiterInvariance == LimiterSpec => []LimiterInv
  BY LimiterInitEstablishes, LimiterNextPreserves, PTL DEF LimiterSpec

\* RateLimiter.allow lets at most Limit requests of a peer through in any
\* window, as long as the cleanup's TTL is no shorter than the window.
THEOREM RateBoundHolds == LimiterSpec => []RateBound
  <1>1. LimiterInv => RateBound
    BY DEF LimiterInv
  <1> QED
    BY <1>1, LimiterInvariance, PTL

\* allow refuses a peer only for its own requests of the current window.
THEOREM RefusedForCauseHolds == LimiterSpec => RefusedForCause
  <1>1. LimiterInv /\ [LimiterNext]_limiterVars =>
           [\A r \in Requests : Refuse(r) => Cardinality(Recent(Of[r])) >= Limit]_limiterVars
    <2> SUFFICES ASSUME LimiterInv, NEW r \in Requests, Refuse(r)
                 PROVE  Cardinality(Recent(Of[r])) >= Limit
      OBVIOUS
    <2>1. Of[r] \in Clients
      BY ClientsAssumption
    <2>2. ~(Cardinality(Recent(Of[r])) < Limit)
      BY <2>1, ValidIsRecent DEF Refuse, UnderLimit
    <2> QED
      BY <2>2, RecentFinite, LimitAssumption
  <1> QED
    BY <1>1, LimiterInvariance, PTL DEF LimiterSpec, RefusedForCause

-----------------------------------------------------------------------------
(* The protocol around it *)

\* The actions of Protocol that leave the rate limiter alone.
StreamOnly(r) ==
    \/ ClientStep(r) \/ Accept(r) \/ Drop(r) \/ Decode(r) \/ DecodeFails(r)
    \/ Respond(r) \/ RespondFails(r) \/ WorkEnds(r)

LEMMA StreamOnlyKeepsLimiter ==
  ASSUME NEW r, StreamOnly(r)
  PROVE  UNCHANGED limiterVars
  BY DEF StreamOnly, ClientStep, Open, OpenFails, WriteRequest, WriteFails, ReadAnswer,
         ReadFails, ClientMoves, Accept, Drop, Decode, DecodeFails, Respond,
         RespondFails, WorkEnds, limiterVars

\* A step of the protocol is a step of the limiter inside it, or none.
LEMMA StepImplementsLimiter == [Next]_vars => [LimiterNext]_limiterVars
  <1> SUFFICES ASSUME [Next]_vars PROVE [LimiterNext]_limiterVars
    OBVIOUS
  <1>1. CASE UNCHANGED vars
    BY <1>1 DEF vars
  <1>2. ASSUME NEW r \in Requests, StreamOnly(r) PROVE [LimiterNext]_limiterVars
    BY <1>2, StreamOnlyKeepsLimiter
  <1>3. ASSUME NEW r \in Requests, HandleRefused(r) \/ HandleOneWay(r) \/ HandleCall(r)
        PROVE  LimiterNext
    BY <1>3 DEF HandleRefused, HandleOneWay, HandleCall, LimiterNext
  <1>4. CASE Cleanup \/ Tick
    BY <1>4 DEF LimiterNext
  <1> QED
    BY <1>1, <1>2, <1>3, <1>4 DEF Next, HandleStream, StreamOnly

\* Every behaviour of handleStream and its callers is, for the limiter that
\* wraps the handler, a behaviour of ratelimit.go on its own.
THEOREM ImplementsLimiter == Spec => LimiterSpec
  <1>1. Init => LimiterInit
    BY DEF Init
  <1> QED
    BY <1>1, StepImplementsLimiter, PTL DEF Spec, LimiterSpec

\* Of the streams of any peer at most Limit reach the handler in any window,
\* however many are open at once.
THEOREM ProtocolRateBound == Spec => []RateBound
  BY ImplementsLimiter, RateBoundHolds, PTL

\* The type invariant without the slots, whose bounds follow from SlotsHeld.
StreamTypeOK ==
    /\ client \in [Requests -> ClientStates]
    /\ server \in [Requests -> ServerStates]
    /\ answer \subseteq Requests
    /\ working \subseteq OneWay

\* A stream is about to be answered only after the limiter let it through.
RespondingInv == \A r \in Requests : server[r] = "responding" => at[r] # Never

StreamInv == StreamTypeOK /\ RespondingInv /\ LetThrough

LEMMA NowIsNotNever == ASSUME now \in Nat PROVE now # Never
  BY LimitAssumption DEF Never

\* Each step keeps the stream part of the invariant; the limiter part is known
\* from RateLimiterProofs.
LEMMA StreamInvStep ==
  ASSUME LimiterTypeOK, StreamInv, [Next]_vars
  PROVE  StreamInv'
  <1> USE DEF StreamInv
  <1>1. CASE UNCHANGED vars
    BY <1>1 DEF vars, limiterVars, streamVars, StreamTypeOK, RespondingInv, LetThrough
  <1>2. ASSUME NEW r \in Requests, ClientStep(r) PROVE StreamInv'
    BY <1>2 DEF ClientStep, Open, OpenFails, WriteRequest, WriteFails, ReadAnswer,
       ReadFails, ClientMoves, StreamTypeOK, ClientStates, RespondingInv, LetThrough,
       limiterVars
  <1>3. ASSUME NEW r \in Requests,
               Accept(r) \/ Drop(r) \/ Decode(r) \/ DecodeFails(r) \/ RespondFails(r)
        PROVE  StreamInv'
    BY <1>3 DEF Accept, Drop, Decode, DecodeFails, RespondFails, Return, StreamTypeOK,
       ServerStates, RespondingInv, LetThrough, limiterVars
  <1>4. ASSUME NEW r \in Requests, Respond(r) \/ WorkEnds(r) PROVE StreamInv'
    BY <1>4 DEF Respond, WorkEnds, Return, StreamTypeOK, ServerStates, RespondingInv,
       LetThrough, limiterVars
  <1>5. ASSUME NEW r \in Requests, HandleRefused(r) PROVE StreamInv'
    BY <1>5 DEF HandleRefused, Refuse, Return, StreamTypeOK, ServerStates,
       RespondingInv, LetThrough
  <1>6. ASSUME NEW r \in Requests, HandleOneWay(r) \/ HandleCall(r) PROVE StreamInv'
    <2>1. \A q \in Requests : at'[q] # Never <=> at[q] # Never \/ q = r
      BY <1>6, NowIsNotNever DEF HandleOneWay, HandleCall, Allow, LimiterTypeOK
    <2>2. StreamTypeOK'
      BY <1>6 DEF HandleOneWay, HandleCall, Return, StreamTypeOK, ServerStates
    <2>3. RespondingInv'
      BY <1>6, <2>1 DEF HandleOneWay, HandleCall, Return, StreamTypeOK, RespondingInv
    <2>4. LetThrough'
      BY <1>6, <2>1, <2>2, ProtocolAssumption
      DEF HandleOneWay, HandleCall, LetThrough, StreamTypeOK
    <2> QED
      BY <2>2, <2>3, <2>4
  <1>7. CASE (Cleanup \/ Tick) /\ UNCHANGED streamVars
    BY <1>7 DEF Cleanup, Tick, streamVars, StreamTypeOK, RespondingInv, LetThrough
  <1> QED
    BY <1>1, <1>2, <1>3, <1>4, <1>5, <1>6, <1>7 DEF Next, HandleStream

\* The slots in use are counted right and never exceed Limiter.sem's capacity.
SlotsInv == SlotsHeld /\ slots \in 0..Concurrency

LEMMA HeldFinite == IsFiniteSet(Held) /\ Cardinality(Held) \in Nat
  <1>1. Held \in SUBSET Requests
    BY DEF Held
  <1>2. IsFiniteSet(Held)
    BY <1>1, ClientsAssumption, FS_Subset
  <1> QED
    BY <1>2, FS_CardinalityType

\* Accept takes one slot, for a stream that held none.
LEMMA AcceptTakesOne ==
  ASSUME StreamTypeOK, SlotsInv, NEW r \in Requests, Accept(r)
  PROVE  SlotsInv'
  <1>1. Held' = Held \cup {r} /\ r \notin Held
    BY DEF Accept, Arrived, Held, StreamTypeOK
  <1>2. Cardinality(Held') = Cardinality(Held) + 1
    BY <1>1, HeldFinite, FS_AddElement
  <1> QED
    BY <1>2, HeldFinite, ProtocolAssumption DEF Accept, SlotsInv, SlotsHeld

\* The deferred Release gives one slot back, for a stream that held one.
LEMMA ReturnGivesOne ==
  ASSUME StreamTypeOK, SlotsInv, NEW r \in Requests, r \in Held, Return(r)
  PROVE  SlotsInv'
  <1>1. Held' = Held \ {r}
    BY DEF Return, Held, StreamTypeOK
  <1>2. Cardinality(Held') = Cardinality(Held) - 1
    BY <1>1, HeldFinite, FS_RemoveElement
  <1>3. Cardinality(Held') \in Nat
    <2>1. IsFiniteSet(Held')
      BY <1>1, HeldFinite, FS_RemoveElement
    <2> QED
      BY <2>1, FS_CardinalityType
  <1> QED
    BY <1>2, <1>3, HeldFinite, ProtocolAssumption DEF Return, SlotsInv, SlotsHeld

LEMMA SlotsInvStep ==
  ASSUME StreamTypeOK, SlotsInv, [Next]_vars
  PROVE  SlotsInv'
  <1>1. ASSUME slots' = slots, Held' = Held PROVE SlotsInv'
    BY <1>1 DEF SlotsInv, SlotsHeld
  <1>2. CASE UNCHANGED vars
    BY <1>1, <1>2 DEF vars, streamVars, Held
  <1>3. ASSUME NEW r \in Requests, ClientStep(r) \/ WorkEnds(r) PROVE SlotsInv'
    BY <1>1, <1>3 DEF ClientStep, Open, OpenFails, WriteRequest, WriteFails, ReadAnswer,
       ReadFails, ClientMoves, WorkEnds, Held
  <1>4. ASSUME NEW r \in Requests, Accept(r) PROVE SlotsInv'
    BY <1>4, AcceptTakesOne
  <1>5. ASSUME NEW r \in Requests, Drop(r) \/ Decode(r) \/ HandleCall(r) PROVE SlotsInv'
    <2>1. slots' = slots /\ Held' = Held
      BY <1>5 DEF Drop, Arrived, Decode, HandleCall, Held, StreamTypeOK
    <2> QED
      BY <1>1, <2>1
  <1>6. ASSUME NEW r \in Requests,
               \/ DecodeFails(r) \/ HandleRefused(r) \/ HandleOneWay(r)
               \/ Respond(r) \/ RespondFails(r)
        PROVE  SlotsInv'
    <2>1. Return(r) /\ r \in Held
      BY <1>6 DEF DecodeFails, HandleRefused, HandleOneWay, Respond, RespondFails, Held
    <2> QED
      BY <2>1, ReturnGivesOne
  <1>7. CASE (Cleanup \/ Tick) /\ UNCHANGED streamVars
    BY <1>1, <1>7 DEF streamVars, Held
  <1> QED
    BY <1>2, <1>3, <1>4, <1>5, <1>6, <1>7 DEF Next, HandleStream

LEMMA ProtocolInvariance == Spec => [](LimiterTypeOK /\ StreamInv /\ SlotsInv)
  <1>1. Init => StreamInv
    BY DEF Init, StreamInv, StreamTypeOK, RespondingInv, LetThrough, ClientStates,
       ServerStates
  <1>2. Init => SlotsInv
    <2> SUFFICES ASSUME Init PROVE SlotsInv
      OBVIOUS
    <2>1. Held = {}
      BY DEF Init, Held
    <2> QED
      BY <2>1, FS_EmptySet, ProtocolAssumption DEF Init, SlotsInv, SlotsHeld
  <1>3. LimiterInv => LimiterTypeOK
    BY DEF LimiterInv
  <1>4. LimiterTypeOK /\ StreamInv /\ [Next]_vars => StreamInv'
    BY StreamInvStep
  <1>5. StreamInv /\ SlotsInv /\ [Next]_vars => SlotsInv'
    BY SlotsInvStep DEF StreamInv
  <1> QED
    BY <1>1, <1>2, <1>3, <1>4, <1>5, ImplementsLimiter, LimiterInvariance, PTL DEF Spec

\* Every state of the streams, the slots and the limiter is well typed; above
\* all, Limiter.sem never holds more than Concurrency.
THEOREM TypeCorrect == Spec => []TypeOK
  <1>1. LimiterTypeOK /\ StreamInv /\ SlotsInv => TypeOK
    BY DEF StreamInv, StreamTypeOK, SlotsInv, TypeOK
  <1> QED
    BY <1>1, ProtocolInvariance, PTL

\* A response on a stream and a running processGet always belong to a request
\* that the rate limiter let through, for any number of streams and slots.
THEOREM LetThroughHolds == Spec => []LetThrough
  <1>1. StreamInv => LetThrough
    BY DEF StreamInv
  <1> QED
    BY <1>1, ProtocolInvariance, PTL

\* On every path through handleStream each slot is given back exactly once.
THEOREM SlotsHeldHolds == Spec => []SlotsHeld
  <1>1. SlotsInv => SlotsHeld
    BY DEF SlotsInv
  <1> QED
    BY <1>1, ProtocolInvariance, PTL
=============================================================================
