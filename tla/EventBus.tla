------------------------------ MODULE EventBus ------------------------------
(***************************************************************************)
(* The event bus of internal/event/event.go and the goroutines that use    *)
(* it: publishers (streams that report their progress, the notifier of     *)
(* libp2p, processGet), and subscribers: listeners that read for ever      *)
(* (FileServer.Start, network.Manager) and commands (runGet, WaitForGet,   *)
(* StartReceiveSession, StartDaemon) that subscribe to several types, read *)
(* from all of them in one select loop and unsubscribe when the loop ends. *)
(*                                                                         *)
(* Bus.mu is a sync.RWMutex: a writer that waits for the readers keeps new *)
(* readers out.  Of an event only its type matters here.                   *)
(***************************************************************************)
EXTENDS Integers, Sequences, SequencesExt

CONSTANTS
    Types,          \* event types
    Publishers,     \* goroutines that publish
    Publishes,      \* Publishes[p]: the types of p's events
    Subscribers,    \* goroutines that subscribe
    Wants,          \* Wants[k]: the sequence of types that k subscribes to
    Quitters,       \* the subscribers whose loop may end
    Cap,            \* the capacity of a channel (10 in Subscribe)
    MaxEvents,      \* bound: MaxEvents[p] events of publisher p
    NoOne           \* no writer holds or waits for Bus.mu

ASSUME BusAssumption ==
    /\ Publishes \in [Publishers -> SUBSET Types]
    /\ Wants \in [Subscribers -> Seq(Types)]
    /\ \A k \in Subscribers : Len(Wants[k]) > 0
    /\ Quitters \subseteq Subscribers
    /\ Cap \in Nat /\ MaxEvents \in [Publishers -> Nat]
    /\ NoOne \notin Subscribers

\* The channel of k's i-th subscription.
Chans == UNION {{<<k, i>> : i \in DOMAIN Wants[k]} : k \in Subscribers}
TypeOf(c) == Wants[c[1]][c[2]]

VARIABLES
    subs,       \* Bus.subscribers
    readers,    \* the publishers that hold Bus.mu.RLock
    writer,     \* the subscriber that holds Bus.mu.Lock or waits for readers
    buf,        \* buf[c]: the events in channel c
    closed,     \* the channels that are closed
    todo,       \* todo[p]: the channels that p's Publish has yet to send to
    left,       \* left[p]: the events that p has yet to publish
    state,      \* state[k]: how far subscriber k has come
    count       \* count[k]: the channels that k holds

busVars == <<subs, readers, writer>>
vars == <<busVars, buf, closed, todo, left, state, count>>

\* Subscribe calls; between the last of them and the loop; in the loop; between
\* the loop and the deferred Unsubscribe calls; in those; returned.
States == {"subscribing", "ready", "running", "left", "leaving", "ended"}

TypeOK ==
    /\ subs \in [Types -> Seq(Chans)]
    /\ readers \subseteq Publishers
    /\ writer \in Subscribers \cup {NoOne}
    /\ buf \in [Chans -> 0..Cap]
    /\ closed \subseteq Chans
    /\ todo \in [Publishers -> Seq(Chans)]
    /\ left \in [Publishers -> Nat]
    /\ \A p \in Publishers : left[p] <= MaxEvents[p]
    /\ state \in [Subscribers -> States]
    /\ count \in [Subscribers -> Nat]
    /\ \A k \in Subscribers : count[k] <= Len(Wants[k])

Init ==
    /\ subs = [ty \in Types |-> <<>>]
    /\ readers = {}
    /\ writer = NoOne
    /\ buf = [c \in Chans |-> 0]
    /\ closed = {}
    /\ todo = [p \in Publishers |-> <<>>]
    /\ left = MaxEvents
    /\ state = [k \in Subscribers |-> "subscribing"]
    /\ count = [k \in Subscribers |-> 0]

-----------------------------------------------------------------------------
(* Publish *)

\* RLock, and the range over the subscribers of the type.
BeginPublish(p, ty) ==
    /\ p \notin readers
    /\ left[p] > 0
    /\ writer = NoOne
    /\ readers' = readers \cup {p}
    /\ todo' = [todo EXCEPT ![p] = subs[ty]]
    /\ left' = [left EXCEPT ![p] = @ - 1]
    /\ UNCHANGED <<subs, writer, buf, closed, state, count>>

\* Mutant: the send does not wait for room.
SendAnyway(p) ==
    /\ todo[p] # <<>>
    /\ buf' = [buf EXCEPT ![Head(todo[p])] = @ + 1]
    /\ todo' = [todo EXCEPT ![p] = Tail(@)]
    /\ UNCHANGED <<busVars, closed, left, state, count>>

\* ch <- evt, which waits for room with the lock held.
Send(p) ==
    /\ todo[p] # <<>>
    /\ buf[Head(todo[p])] < Cap
    /\ buf' = [buf EXCEPT ![Head(todo[p])] = @ + 1]
    /\ todo' = [todo EXCEPT ![p] = Tail(@)]
    /\ UNCHANGED <<busVars, closed, left, state, count>>

\* The deferred RUnlock.
EndPublish(p) ==
    /\ p \in readers
    /\ todo[p] = <<>>
    /\ readers' = readers \ {p}
    /\ UNCHANGED <<subs, writer, buf, closed, todo, left, state, count>>

-----------------------------------------------------------------------------
(* Subscribe, Unsubscribe and the loop between them *)

\* Lock, in Subscribe and in Unsubscribe: from here on no reader gets in.
Lock(k) ==
    /\ state[k] \in {"subscribing", "leaving"}
    /\ writer = NoOne
    /\ writer' = k
    /\ UNCHANGED <<subs, readers, buf, closed, todo, left, state, count>>

\* The writer has the lock when the readers are gone.
Locked(k) == writer = k /\ readers = {}

\* Mutant: Subscribe returns without Unlock.
SubscribeKeepsLock(k) ==
    LET c == <<k, count[k] + 1>> IN
    /\ state[k] = "subscribing"
    /\ Locked(k)
    /\ subs' = [subs EXCEPT ![TypeOf(c)] = Append(@, c)]
    /\ count' = [count EXCEPT ![k] = @ + 1]
    /\ state' = [state EXCEPT ![k] = IF count'[k] = Len(Wants[k]) THEN "ready" ELSE @]
    /\ UNCHANGED <<writer, readers, buf, closed, todo, left>>

Subscribe(k) ==
    LET c == <<k, count[k] + 1>> IN
    /\ state[k] = "subscribing"
    /\ Locked(k)
    /\ subs' = [subs EXCEPT ![TypeOf(c)] = Append(@, c)]
    /\ count' = [count EXCEPT ![k] = @ + 1]
    /\ state' = [state EXCEPT ![k] = IF count'[k] = Len(Wants[k]) THEN "ready" ELSE @]
    /\ writer' = NoOne
    /\ UNCHANGED <<readers, buf, closed, todo, left>>

\* The code between the subscriptions and the loop is done.
Enter(k) ==
    /\ state[k] = "ready"
    /\ state' = [state EXCEPT ![k] = "running"]
    /\ UNCHANGED <<busVars, buf, closed, todo, left, count>>

\* One event of k's i-th channel.
Receive(k, i) ==
    /\ state[k] = "running"
    /\ i \in 1..count[k]
    /\ buf[<<k, i>>] > 0
    /\ buf' = [buf EXCEPT ![<<k, i>>] = @ - 1]
    /\ UNCHANGED <<busVars, closed, todo, left, count>>

\* One turn of the select loop.
Take(k, i) == Receive(k, i) /\ UNCHANGED state

\* The event is the one that ends the loop.
TakeLast(k, i) ==
    /\ k \in Quitters
    /\ Receive(k, i)
    /\ state' = [state EXCEPT ![k] = "left"]

\* ctx.Done, by Ctrl+C or a timeout, ends the loop.
Leave(k) ==
    /\ k \in Quitters
    /\ state[k] = "running"
    /\ state' = [state EXCEPT ![k] = "left"]
    /\ UNCHANGED <<busVars, buf, closed, todo, left, count>>

\* The code after the loop is done, and the deferred calls begin.
Return(k) ==
    /\ state[k] = "left"
    /\ state' = [state EXCEPT ![k] = "leaving"]
    /\ UNCHANGED <<busVars, buf, closed, todo, left, count>>

\* Mutant: the channel is taken out and closed without waiting for readers.
UnsubscribeUnlocked(k) ==
    LET c == <<k, count[k]>> IN
    /\ state[k] = "leaving"
    /\ writer = k
    /\ \E i \in DOMAIN subs[TypeOf(c)] :
        /\ subs[TypeOf(c)][i] = c
        /\ subs' = [subs EXCEPT ![TypeOf(c)] = RemoveAt(@, i)]
    /\ closed' = closed \cup {c}
    /\ count' = [count EXCEPT ![k] = @ - 1]
    /\ state' = [state EXCEPT ![k] = IF count'[k] = 0 THEN "ended" ELSE @]
    /\ writer' = NoOne
    /\ UNCHANGED <<readers, buf, todo, left>>

\* The deferred calls come in the reverse order of the subscriptions.
Unsubscribe(k) ==
    LET c == <<k, count[k]>> IN
    /\ state[k] = "leaving"
    /\ Locked(k)
    /\ \E i \in DOMAIN subs[TypeOf(c)] :
        /\ subs[TypeOf(c)][i] = c
        /\ subs' = [subs EXCEPT ![TypeOf(c)] = RemoveAt(@, i)]
    /\ closed' = closed \cup {c}
    /\ count' = [count EXCEPT ![k] = @ - 1]
    /\ state' = [state EXCEPT ![k] = IF count'[k] = 0 THEN "ended" ELSE @]
    /\ writer' = NoOne
    /\ UNCHANGED <<readers, buf, todo, left>>

-----------------------------------------------------------------------------
Publish(p) == (\E ty \in Publishes[p] : BeginPublish(p, ty)) \/ Send(p) \/ EndPublish(p)

\* Everything a subscriber does without being told to.
SubscriberStep(k) ==
    \/ Lock(k) \/ Subscribe(k) \/ Enter(k)
    \/ \E i \in DOMAIN Wants[k] : Take(k, i)
    \/ Return(k) \/ Unsubscribe(k)

\* The end of a loop.
LoopEnds(k) == Leave(k) \/ \E i \in DOMAIN Wants[k] : TakeLast(k, i)

Next ==
    \/ \E p \in Publishers : Publish(p)
    \/ \E k \in Subscribers : SubscriberStep(k) \/ LoopEnds(k)

Spec == Init /\ [][Next]_vars

-----------------------------------------------------------------------------
\* No Publish will send to a closed channel, which would panic and take the
\* process down: Unsubscribe closes only when no Publish is on its way.
NoSendOnClosed ==
    \A p \in Publishers : \A i \in DOMAIN todo[p] : todo[p][i] \notin closed

\* A full channel whose owner has not come to its loop yet, or has left it.
Unread(k) == state[k] # "running" /\ \E i \in 1..count[k] : buf[<<k, i>>] = Cap

\* As long as a channel fills up only while its owner is in its loop, each
\* Publish returns, each Subscribe gets the lock and each command that has come
\* to its deferred Unsubscribe calls ends: the lock by itself makes nobody wait
\* for ever.
PublishReturns ==
    [](\A k \in Subscribers : ~Unread(k)) =>
        /\ \A p \in Publishers : p \in readers ~> p \notin readers
        /\ \A k \in Subscribers : state[k] = "leaving" ~> state[k] = "ended"
        /\ \A k \in Subscribers : writer = k ~> writer # k

\* "The command waits until delivery completes or you press Ctrl+C."
\* (README.md:55): a command whose loop has ended comes to its end.
CommandEnds ==
    \A k \in Quitters : state[k] = "left" ~> state[k] = "ended"
=============================================================================
