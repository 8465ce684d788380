---------------------------- MODULE SeenMessages ----------------------------
(***************************************************************************)
(* The sliding-window deduplication store of internal/fileserver/          *)
(* seenmsgs.go.  Every method runs under SeenMessages.mu, so every method  *)
(* is one action.  Message ids are the uuids that operations.Get draws, so *)
(* the empty string, which See uses to mean "no oldest entry yet", is not  *)
(* one of them.                                                            *)
(***************************************************************************)
EXTENDS Integers, FiniteSets, Functions

CONSTANTS
    Ids,        \* the message ids that may arrive
    MaxSize,    \* SeenMessages.maxSize (10000 in NewFileServer)
    Window,     \* SeenMessages.window (60 s in NewFileServer), in ticks
    MaxTime     \* bound: how far the clock is let run

ASSUME SizeAssumption == IsFiniteSet(Ids) /\ MaxSize \in Nat \ {0}
ASSUME TimeAssumption == Window \in Nat \ {0} /\ MaxTime \in Nat

VARIABLES
    entries,    \* SeenMessages.entries: id -> time it was recorded
    now,        \* time.Now(), which Go reads from a monotonic clock
    accepted    \* history: when See last answered true for an id

vars == <<entries, now, accepted>>

Never == 0 - Window     \* "not yet": too old to be inside any window

TypeOK ==
    /\ DOMAIN entries \subseteq Ids
    /\ now \in Nat
    /\ entries \in [DOMAIN entries -> Nat]
    /\ accepted \in [Ids -> Int]

Init ==
    /\ entries = [i \in {} |-> 0]
    /\ now = 0
    /\ accepted = [i \in Ids |-> Never]

-----------------------------------------------------------------------------
\* Mutant: the age is compared with the ticker's period instead of the window.
ExpiredAtHalf(i) == 2 * (now - entries[i]) >= Window

Expired(i) == now - entries[i] >= Window

\* Mutant: After for Before in the scan.
Youngest(f) == {k \in DOMAIN f : \A j \in DOMAIN f : f[k] >= f[j]}

\* The scan keeps the first entry that no later one is Before: with equal
\* times the map order decides, so any oldest entry may be the one.
Oldest(f) == {k \in DOMAIN f : \A j \in DOMAIN f : f[k] <= f[j]}

\* Mutant: > for >= in the size test.
AfterLateEviction ==
    IF Cardinality(DOMAIN entries) > MaxSize
    THEN {Restrict(entries, DOMAIN entries \ {k}) : k \in Oldest(entries)}
    ELSE {entries}

\* The entries after the eviction; the entry for id may itself be there, and
\* expired, and still counts towards the size.
AfterEviction ==
    IF Cardinality(DOMAIN entries) >= MaxSize
    THEN {Restrict(entries, DOMAIN entries \ {k}) : k \in Oldest(entries)}
    ELSE {entries}

Record(f, id) == [i \in DOMAIN f \cup {id} |-> IF i = id THEN now ELSE f[i]]

\* See(id) = false
SeeOld(id) ==
    /\ id \in DOMAIN entries
    /\ ~Expired(id)
    /\ UNCHANGED vars

\* See(id) = true
SeeNew(id) ==
    /\ id \in DOMAIN entries => Expired(id)
    /\ \E kept \in AfterEviction : entries' = Record(kept, id)
    /\ accepted' = [accepted EXCEPT ![id] = now]
    /\ UNCHANGED now

See(id) == SeeOld(id) \/ SeeNew(id)

\* One tick of the ticker; ticks come every window/2, but late under load.
Cleanup ==
    /\ entries' = Restrict(entries, {i \in DOMAIN entries : ~Expired(i)})
    /\ UNCHANGED <<now, accepted>>

Tick ==
    /\ now < MaxTime
    /\ now' = now + 1
    /\ UNCHANGED <<entries, accepted>>

Next ==
    \/ \E id \in Ids : See(id)
    \/ Cleanup
    \/ Tick

Spec == Init /\ [][Next]_vars

-----------------------------------------------------------------------------
\* The store never holds more than maxSize entries: an expired entry that See
\* records again must not let the map grow past its bound.
Capacity == Cardinality(DOMAIN entries) <= MaxSize

InWindow(id) == now - accepted[id] < Window

\* The other ids accepted since (or in the same tick as) id.
Newer(id) == {j \in Ids \ {id} : accepted[j] >= accepted[id]}

\* An id accepted within the window is remembered with the time of its
\* acceptance, unless maxSize other ids have been accepted since: See evicts
\* the oldest entry only, and the cleanup only what has expired.
Remembered ==
    \A id \in Ids : InWindow(id) =>
        \/ id \in DOMAIN entries /\ entries[id] = accepted[id]
        \/ Cardinality(Newer(id)) >= MaxSize

\* See answers true twice for one id within a window only after maxSize other
\* ids went through in between: the GET_FILE flood is deduplicated up to that.
NoEarlyRepeat ==
    [][\A id \in Ids :
        SeeNew(id) /\ InWindow(id) => Cardinality(Newer(id)) >= MaxSize]_vars
=============================================================================
