--------------------------- MODULE EventBusProofs ---------------------------
(***************************************************************************)
(* Proofs about EventBus for any publishers, subscribers, event types and  *)
(* channel capacity, and about GetCommand, whose steps are steps of it.    *)
(***************************************************************************)
EXTENDS GetCommand, FiniteSetTheorems, SequenceTheorems, TLAPS

\* A subscriber holds all its channels in its loop, and at least one while it
\* has yet to close some.
CountInv ==
    \A k \in Subscribers :
        /\ state[k] = "subscribing" => count[k] < Len(Wants[k])
        /\ state[k] \in {"ready", "running", "left", "leaving"} => count[k] > 0

\* The channels in Bus.subscribers are those that their owners hold, each once
\* and under its own type; what is closed is held no more.
SubsInv ==
    /\ \A ty \in Types : \A i \in DOMAIN subs[ty] :
        LET c == subs[ty][i] IN TypeOf(c) = ty /\ c[2] <= count[c[1]] /\ c \notin closed
    /\ \A ty \in Types : \A i, j \in DOMAIN subs[ty] : subs[ty][i] = subs[ty][j] => i = j
    /\ \A c \in closed : state[c[1]] \in {"leaving", "ended"}

\* Only a Publish that holds the read lock has channels to send to.
TodoInv == \A p \in Publishers : todo[p] # <<>> => p \in readers

IndInv == TypeOK /\ CountInv /\ SubsInv /\ TodoInv /\ NoSendOnClosed

-----------------------------------------------------------------------------
\* A channel is a subscriber with one of its subscriptions.
LEMMA ChanParts ==
  ASSUME NEW c \in Chans
  PROVE  /\ c[1] \in Subscribers
         /\ c[2] \in 1..Len(Wants[c[1]])
         /\ c = <<c[1], c[2]>>
         /\ TypeOf(c) \in Types
  <1>1. PICK k \in Subscribers : \E i \in DOMAIN Wants[k] : c = <<k, i>>
    BY DEF Chans
  <1>2. PICK i \in DOMAIN Wants[k] : c = <<k, i>>
    BY <1>1
  <1>3. Wants[k] \in Seq(Types)
    BY BusAssumption
  <1>4. DOMAIN Wants[k] = 1..Len(Wants[k]) /\ Wants[k][i] \in Types
    BY <1>2, <1>3
  <1> QED
    BY <1>2, <1>4 DEF TypeOf

\* A subscription of a subscriber is a channel.
LEMMA PartsChan ==
  ASSUME NEW k \in Subscribers, NEW i \in 1..Len(Wants[k])
  PROVE  <<k, i>> \in Chans
  <1>1. Wants[k] \in Seq(Types)
    BY BusAssumption
  <1>2. i \in DOMAIN Wants[k]
    BY <1>1
  <1> QED
    BY <1>2 DEF Chans

\* append(subs[:i], subs[i+1:]...) keeps the other elements.
LEMMA RemoveAtProperties ==
  ASSUME NEW S, NEW s \in Seq(S), NEW i \in DOMAIN s
  PROVE  /\ RemoveAt(s, i) \in Seq(S)
         /\ DOMAIN RemoveAt(s, i) = 1..(Len(s) - 1)
         /\ \A j \in 1..(Len(s) - 1) : RemoveAt(s, i)[j] = IF j < i THEN s[j] ELSE s[j + 1]
  <1> DEFINE a == SubSeq(s, 1, i - 1)
             b == SubSeq(s, i + 1, Len(s))
  <1>1. Len(s) \in Nat /\ i \in 1..Len(s) /\ \A j \in 1..Len(s) : s[j] \in S
    OBVIOUS
  <1>2. /\ a \in Seq(S) /\ Len(a) = i - 1
        /\ \A j \in 1..(i - 1) : a[j] = s[j]
    <2>1. \A j \in 1..(i - 1) : s[j] \in S
      BY <1>1
    <2>2. /\ a \in Seq(S)
          /\ Len(a) = IF 1 <= i - 1 THEN (i - 1) - 1 + 1 ELSE 0
          /\ \A j \in 1..((i - 1) - 1 + 1) : a[j] = s[1 + j - 1]
      BY <1>1, <2>1, SubSeqProperties
    <2> HIDE DEF a
    <2> QED
      BY <1>1, <2>2
  <1>3. /\ b \in Seq(S) /\ Len(b) = Len(s) - i
        /\ \A j \in 1..(Len(s) - i) : b[j] = s[i + j]
    <2>1. \A j \in (i + 1)..Len(s) : s[j] \in S
      BY <1>1
    <2>2. /\ b \in Seq(S)
          /\ Len(b) = IF i + 1 <= Len(s) THEN Len(s) - (i + 1) + 1 ELSE 0
          /\ \A j \in 1..(Len(s) - (i + 1) + 1) : b[j] = s[(i + 1) + j - 1]
      BY <1>1, <2>1, SubSeqProperties
    <2> HIDE DEF b
    <2>3. Len(b) = Len(s) - i
      BY <1>1, <2>2
    <2>4. ASSUME NEW j \in 1..(Len(s) - i) PROVE b[j] = s[i + j]
      <3>1. j \in 1..(Len(s) - (i + 1) + 1) /\ (i + 1) + j - 1 = i + j
        BY <1>1
      <3>2. b[j] = s[(i + 1) + j - 1]
        BY <2>2, <3>1
      <3> QED
        BY <3>1, <3>2
    <2> QED
      BY <2>2, <2>3, <2>4
  <1>4. /\ a \o b \in Seq(S)
        /\ Len(a \o b) = Len(a) + Len(b)
        /\ \A j \in 1..(Len(a) + Len(b)) : (a \o b)[j] = IF j <= Len(a) THEN a[j] ELSE b[j - Len(a)]
    BY <1>2, <1>3, ConcatProperties
  <1> HIDE DEF a, b
  <1>5. Len(a \o b) = Len(s) - 1 /\ DOMAIN (a \o b) = 1..(Len(s) - 1)
    BY <1>1, <1>2, <1>3, <1>4
  <1>6. ASSUME NEW j \in 1..(Len(s) - 1)
        PROVE  (a \o b)[j] = IF j < i THEN s[j] ELSE s[j + 1]
    <2> DEFINE t == a \o b
    <2>1. j \in 1..(Len(a) + Len(b)) /\ Len(a) = i - 1
      BY <1>1, <1>2, <1>3
    <2>2. t[j] = IF j <= Len(a) THEN a[j] ELSE b[j - Len(a)]
      BY <1>4, <2>1
    <2> HIDE DEF t
    <2>3. CASE j < i
      <3>1. j <= Len(a) /\ j \in 1..(i - 1)
        BY <1>1, <2>1, <2>3
      <3>2. t[j] = s[j]
        BY <1>2, <2>2, <3>1
      <3> QED
        BY <2>3, <3>2 DEF t
    <2>4. CASE ~(j < i)
      <3>1. ~(j <= Len(a)) /\ j - Len(a) = j - (i - 1)
        BY <1>1, <2>1, <2>4
      <3>2. t[j] = b[j - (i - 1)]
        BY <2>2, <3>1
      <3>3. j - (i - 1) \in 1..(Len(s) - i) /\ i + (j - (i - 1)) = j + 1
        BY <1>1, <2>4
      <3>4. b[j - (i - 1)] = s[j + 1]
        BY <1>3, <3>3
      <3> QED
        BY <2>4, <3>2, <3>4 DEF t
    <2> QED
      BY <2>3, <2>4
  <1>7. RemoveAt(s, i) = a \o b
    BY DEF RemoveAt, a, b
  <1> QED
    BY <1>4, <1>5, <1>6, <1>7

-----------------------------------------------------------------------------
\* Nothing is subscribed at first.
LEMMA InitEstablishes == Init => IndInv
  <1> SUFFICES ASSUME Init PROVE IndInv
    OBVIOUS
  <1> USE BusAssumption DEF Init
  <1>1. Wants \in [Subscribers -> Seq(Types)] /\ \A k \in Subscribers : Len(Wants[k]) \in Nat
    OBVIOUS
  <1>2. TypeOK
    BY <1>1 DEF TypeOK, States
  <1>3. CountInv /\ SubsInv /\ TodoInv /\ NoSendOnClosed
    BY <1>1 DEF CountInv, SubsInv, TodoInv, NoSendOnClosed
  <1> QED
    BY <1>2, <1>3 DEF IndInv

\* Publish: what it is to send to are channels in Bus.subscribers.
LEMMA PublishPreserves ==
  ASSUME IndInv, NEW p \in Publishers, Publish(p)
  PROVE  IndInv'
  <1> USE DEF IndInv
  <1>1. ASSUME NEW ty \in Publishes[p], BeginPublish(p, ty) PROVE IndInv'
    <2>1. ty \in Types
      BY BusAssumption
    <2>2. TypeOK'
      <3>1. left' \in [Publishers -> Nat]
        BY <1>1 DEF TypeOK, BeginPublish
      <3>2. ASSUME NEW q \in Publishers PROVE left'[q] <= MaxEvents[q]
        <4>1. /\ left[q] \in Nat /\ MaxEvents[q] \in Nat /\ left[q] <= MaxEvents[q]
              /\ left'[q] \in {left[q], left[q] - 1}
          BY <1>1, BusAssumption DEF TypeOK, BeginPublish
        <4> QED
          BY <4>1
      <3> QED
        BY <1>1, <2>1, <3>1, <3>2 DEF TypeOK, BeginPublish
    <2>3. CountInv' /\ SubsInv'
      BY <1>1 DEF CountInv, SubsInv, BeginPublish
    <2>4. TodoInv'
      BY <1>1 DEF TypeOK, TodoInv, BeginPublish
    <2>5. NoSendOnClosed'
      BY <1>1, <2>1 DEF TypeOK, SubsInv, NoSendOnClosed, BeginPublish
    <2> QED
      BY <2>2, <2>3, <2>4, <2>5
  <1>2. CASE Send(p)
    <2>1. /\ todo[p] \in Seq(Chans) /\ todo[p] # <<>>
          /\ Head(todo[p]) \in Chans /\ Tail(todo[p]) \in Seq(Chans)
          /\ DOMAIN Tail(todo[p]) = 1..(Len(todo[p]) - 1)
          /\ \A i \in DOMAIN Tail(todo[p]) :
                i + 1 \in DOMAIN todo[p] /\ Tail(todo[p])[i] = todo[p][i + 1]
      BY <1>2, HeadTailProperties DEF Send, TypeOK
    <2>2. TypeOK'
      <3>1. /\ buf \in [Chans -> 0..Cap] /\ Cap \in Nat /\ buf[Head(todo[p])] < Cap
            /\ buf' = [buf EXCEPT ![Head(todo[p])] = @ + 1]
        BY <1>2, BusAssumption DEF TypeOK, Send
      <3>2. buf' \in [Chans -> 0..Cap]
        BY <2>1, <3>1
      <3> QED
        BY <1>2, <2>1, <3>2 DEF TypeOK, Send, busVars
    <2>3. CountInv' /\ SubsInv'
      BY <1>2 DEF CountInv, SubsInv, Send, busVars
    <2>4. TodoInv'
      BY <1>2 DEF TypeOK, TodoInv, Send, busVars
    <2>5. NoSendOnClosed'
      BY <1>2, <2>1 DEF TypeOK, NoSendOnClosed, Send, busVars
    <2> QED
      BY <2>2, <2>3, <2>4, <2>5
  <1>3. CASE EndPublish(p)
    BY <1>3 DEF EndPublish, TypeOK, CountInv, SubsInv, TodoInv, NoSendOnClosed
  <1> QED
    BY <1>1, <1>2, <1>3 DEF Publish

\* The steps of a subscriber that leave Bus.subscribers alone.
LEMMA LoopPreserves ==
  ASSUME IndInv, NEW k \in Subscribers,
         \/ Lock(k) \/ Enter(k) \/ Return(k) \/ LoopEnds(k)
         \/ \E i \in DOMAIN Wants[k] : Take(k, i)
  PROVE  IndInv'
  <1> USE DEF IndInv
  <1>1. /\ UNCHANGED <<subs, readers, closed, todo, left, count>>
        /\ writer' \in {writer, k}
        /\ buf' \in [Chans -> 0..Cap]
    <2>1. ASSUME NEW i, Receive(k, i) PROVE buf' \in [Chans -> 0..Cap]
      <3>1. count[k] \in Nat /\ count[k] <= Len(Wants[k]) /\ Len(Wants[k]) \in Nat
        BY BusAssumption DEF TypeOK
      <3>2. i \in 1..Len(Wants[k])
        BY <2>1, <3>1 DEF Receive
      <3>3. <<k, i>> \in Chans
        BY <3>2, PartsChan
      <3>4. /\ buf \in [Chans -> 0..Cap] /\ Cap \in Nat /\ buf[<<k, i>>] > 0
            /\ buf' = [buf EXCEPT ![<<k, i>>] = @ - 1]
        BY <2>1, BusAssumption DEF Receive, TypeOK
      <3> QED
        BY <3>3, <3>4
    <2> QED
      BY <2>1 DEF TypeOK, Lock, Enter, Return, LoopEnds, Leave, TakeLast, Take, Receive, busVars
  <1>2. /\ state' \in [Subscribers -> States]
        /\ \A j \in Subscribers :
             /\ state'[j] = "subscribing" => state[j] = "subscribing"
             /\ state'[j] \in {"ready", "running", "left", "leaving"} =>
                  state[j] \in {"ready", "running", "left", "leaving"}
             /\ state[j] \in {"leaving", "ended"} => state'[j] = state[j]
    BY DEF TypeOK, States, Lock, Enter, Return, LoopEnds, Leave, TakeLast, Take, Receive
  <1>3. TypeOK'
    BY <1>1, <1>2 DEF TypeOK
  <1>4. CountInv'
    BY <1>1, <1>2 DEF CountInv
  <1>5. SubsInv'
    <2>1. \A c \in closed : c[1] \in Subscribers
      BY ChanParts DEF TypeOK
    <2> QED
      BY <1>1, <1>2, <2>1 DEF SubsInv
  <1>6. TodoInv' /\ NoSendOnClosed'
    BY <1>1 DEF TodoInv, NoSendOnClosed
  <1> QED
    BY <1>3, <1>4, <1>5, <1>6

\* Subscribe: the new channel is not closed and not in the list yet.
LEMMA SubscribePreserves ==
  ASSUME IndInv, NEW k \in Subscribers, Subscribe(k)
  PROVE  IndInv'
  <1> DEFINE c == <<k, count[k] + 1>>
  <1> USE DEF IndInv
  <1>1. /\ count[k] \in Nat /\ Len(Wants[k]) \in Nat
        /\ count[k] + 1 \in 1..Len(Wants[k])
    BY BusAssumption DEF TypeOK, CountInv, Subscribe
  <1>2. c \in Chans /\ TypeOf(c) \in Types /\ c[1] = k /\ c[2] = count[k] + 1
    BY <1>1, PartsChan, ChanParts
  <1>3. /\ subs' = [subs EXCEPT ![TypeOf(c)] = Append(@, c)]
        /\ count' = [count EXCEPT ![k] = @ + 1]
        /\ UNCHANGED <<readers, buf, closed, todo, left>>
        /\ writer' = NoOne
        /\ state[k] = "subscribing"
        /\ state' = [state EXCEPT ![k] = IF count'[k] = Len(Wants[k]) THEN "ready" ELSE @]
    BY DEF Subscribe
  <1>4. c \notin closed
    BY <1>2, <1>3 DEF SubsInv
  <1> HIDE DEF c
  <1>5. TypeOK'
    <2>1. subs' \in [Types -> Seq(Chans)]
      BY <1>2, <1>3 DEF TypeOK
    <2>2. count' \in [Subscribers -> Nat] /\ \A j \in Subscribers : count'[j] <= Len(Wants[j])
      BY <1>1, <1>3 DEF TypeOK
    <2>3. state' \in [Subscribers -> States]
      BY <1>3 DEF TypeOK, States
    <2> QED
      BY <1>3, <2>1, <2>2, <2>3 DEF TypeOK
  <1>6. CountInv'
    <2>1. count'[k] = count[k] + 1 /\ \A j \in Subscribers : j # k => count'[j] = count[j]
      BY <1>3 DEF TypeOK
    <2> QED
      BY <1>1, <1>3, <2>1 DEF TypeOK, CountInv
  <1>7. SubsInv'
    <2>1. ASSUME NEW ty \in Types, NEW i \in DOMAIN subs'[ty]
          PROVE  \/ i \in DOMAIN subs[ty] /\ subs'[ty][i] = subs[ty][i]
                 \/ ty = TypeOf(c) /\ i = Len(subs[ty]) + 1 /\ subs'[ty][i] = c
      <3>1. subs[ty] \in Seq(Chans)
        BY DEF TypeOK
      <3>2. CASE ty = TypeOf(c)
        BY <1>2, <1>3, <2>1, <3>1, <3>2, AppendProperties DEF TypeOK
      <3>3. CASE ty # TypeOf(c)
        BY <1>2, <1>3, <2>1, <3>3 DEF TypeOK
      <3> QED
        BY <3>2, <3>3
    <2>2. \A ty \in Types : \A i \in DOMAIN subs[ty] : subs[ty][i] \in Chans /\ i \in 1..Len(subs[ty])
      BY DEF TypeOK
    <2>3. ASSUME NEW ty \in Types, NEW i \in DOMAIN subs[ty] PROVE subs[ty][i] # c
      <3>1. subs[ty][i][2] <= count[subs[ty][i][1]]
        BY DEF SubsInv
      <3> QED
        BY <1>1, <1>2, <3>1
    <2>4. ASSUME NEW ty \in Types, NEW i \in DOMAIN subs'[ty]
          PROVE  LET d == subs'[ty][i] IN TypeOf(d) = ty /\ d[2] <= count'[d[1]] /\ d \notin closed'
      <3>1. CASE subs'[ty][i] = c /\ ty = TypeOf(c)
        BY <1>1, <1>2, <1>3, <1>4, <3>1 DEF TypeOK
      <3>2. CASE i \in DOMAIN subs[ty] /\ subs'[ty][i] = subs[ty][i]
        <4> DEFINE d == subs[ty][i]
        <4>1. d[1] \in Subscribers /\ d[2] \in Nat
          BY <2>2, <3>2, ChanParts, BusAssumption
        <4>2. TypeOf(d) = ty /\ d[2] <= count[d[1]] /\ d \notin closed
          BY <3>2 DEF SubsInv
        <4>3. count[d[1]] \in Nat /\ count'[d[1]] \in Nat /\ count[d[1]] <= count'[d[1]]
          BY <1>3, <4>1 DEF TypeOK
        <4> HIDE DEF d
        <4>4. d[2] <= count'[d[1]]
          BY <4>1, <4>2, <4>3
        <4> QED
          BY <1>3, <3>2, <4>2, <4>4 DEF d
      <3> QED
        BY <2>1, <3>1, <3>2
    <2>5. ASSUME NEW ty \in Types, NEW i \in DOMAIN subs'[ty], NEW j \in DOMAIN subs'[ty],
                 subs'[ty][i] = subs'[ty][j]
          PROVE  i = j
      BY <2>1, <2>3, <2>5 DEF SubsInv
    <2>6. \A d \in closed' : state'[d[1]] \in {"leaving", "ended"}
      BY <1>3, ChanParts DEF TypeOK, SubsInv
    <2> QED
      BY <2>4, <2>5, <2>6 DEF SubsInv
  <1>8. TodoInv' /\ NoSendOnClosed'
    BY <1>3 DEF TodoInv, NoSendOnClosed
  <1> QED
    BY <1>5, <1>6, <1>7, <1>8

\* Unsubscribe: the closed channel is in no list any more, and no Publish is on
\* its way.
LEMMA UnsubscribePreserves ==
  ASSUME IndInv, NEW k \in Subscribers, Unsubscribe(k)
  PROVE  IndInv'
  <1> DEFINE c == <<k, count[k]>>
             ty == TypeOf(c)
  <1> USE DEF IndInv
  <1>1. /\ count[k] \in Nat /\ Len(Wants[k]) \in Nat
        /\ count[k] \in 1..Len(Wants[k])
    BY BusAssumption DEF TypeOK, CountInv, Unsubscribe
  <1>2. c \in Chans /\ ty \in Types /\ c[1] = k /\ c[2] = count[k]
    BY <1>1, PartsChan, ChanParts
  <1>3. PICK n \in DOMAIN subs[ty] :
          subs[ty][n] = c /\ subs' = [subs EXCEPT ![ty] = RemoveAt(@, n)]
    BY DEF Unsubscribe
  <1>4. /\ count' = [count EXCEPT ![k] = @ - 1]
        /\ closed' = closed \cup {c}
        /\ readers = {}
        /\ UNCHANGED <<readers, buf, todo, left>>
        /\ writer' = NoOne
        /\ state[k] = "leaving"
        /\ state' = [state EXCEPT ![k] = IF count'[k] = 0 THEN "ended" ELSE @]
    BY DEF Unsubscribe, Locked
  <1> HIDE DEF c, ty
  <1>5. /\ subs[ty] \in Seq(Chans) /\ subs'[ty] = RemoveAt(subs[ty], n)
        /\ \A t \in Types : t # ty => subs'[t] = subs[t]
    BY <1>2, <1>3 DEF TypeOK
  <1>6. /\ subs'[ty] \in Seq(Chans)
        /\ DOMAIN subs'[ty] = 1..(Len(subs[ty]) - 1)
        /\ \A j \in 1..(Len(subs[ty]) - 1) :
              subs'[ty][j] = IF j < n THEN subs[ty][j] ELSE subs[ty][j + 1]
    BY <1>5, RemoveAtProperties
  \* What stands at place i of the new list stood at Old(i) of the old one.
  <1> DEFINE Old(t, i) == IF t # ty \/ i < n THEN i ELSE i + 1
  <1>7. ASSUME NEW t \in Types, NEW i \in DOMAIN subs'[t]
        PROVE  /\ Old(t, i) \in DOMAIN subs[t]
               /\ subs'[t][i] = subs[t][Old(t, i)]
               /\ t = ty => Old(t, i) # n /\ i \in Nat
    <2>1. CASE t # ty
      BY <1>5, <1>7, <2>1
    <2>2. CASE t = ty
      <3>1. Len(subs[ty]) \in Nat /\ DOMAIN subs[ty] = 1..Len(subs[ty]) /\ n \in 1..Len(subs[ty])
        BY <1>5
      <3>2. i \in 1..(Len(subs[ty]) - 1)
        BY <1>6, <1>7, <2>2
      <3>3. subs'[ty][i] = IF i < n THEN subs[ty][i] ELSE subs[ty][i + 1]
        BY <1>6, <3>2
      <3>4. CASE i < n
        BY <2>2, <3>1, <3>2, <3>3, <3>4
      <3>5. CASE ~(i < n)
        BY <2>2, <3>1, <3>2, <3>3, <3>5
      <3> QED
        BY <3>4, <3>5
    <2> QED
      BY <2>1, <2>2
  <1>8. TypeOK'
    <2>1. subs' \in [Types -> Seq(Chans)]
      BY <1>3, <1>5, <1>6 DEF TypeOK
    <2>2. count' \in [Subscribers -> Nat] /\ \A j \in Subscribers : count'[j] <= Len(Wants[j])
      BY <1>1, <1>4 DEF TypeOK
    <2>3. state' \in [Subscribers -> States]
      BY <1>4 DEF TypeOK, States
    <2> QED
      BY <1>2, <1>4, <2>1, <2>2, <2>3 DEF TypeOK
  <1>9. CountInv'
    <2>1. count'[k] = count[k] - 1 /\ \A j \in Subscribers : j # k => count'[j] = count[j]
      BY <1>4 DEF TypeOK
    <2> QED
      BY <1>1, <1>4, <2>1 DEF TypeOK, CountInv
  <1>10. SubsInv'
    <2>1. ASSUME NEW t \in Types, NEW i \in DOMAIN subs'[t]
          PROVE  LET d == subs'[t][i] IN TypeOf(d) = t /\ d[2] <= count'[d[1]] /\ d \notin closed'
      <3> DEFINE d == subs[t][Old(t, i)]
      <3>1. d \in Chans /\ subs'[t][i] = d
        BY <1>7 DEF TypeOK
      <3>2. TypeOf(d) = t /\ d[2] <= count[d[1]] /\ d \notin closed
        BY <1>7 DEF SubsInv
      <3>3. d # c
        BY <1>3, <1>7, <3>2 DEF SubsInv, ty
      <3> HIDE DEF d
      <3>4. d[1] \in Subscribers /\ d[2] \in Nat /\ d = <<d[1], d[2]>>
        BY <3>1, ChanParts, BusAssumption
      <3>5. d[2] <= count'[d[1]]
        <4>1. CASE d[1] = k
          <5>1. d[2] # count[k]
            BY <3>3, <3>4, <4>1 DEF c
          <5>2. count'[k] = count[k] - 1
            BY <1>4 DEF TypeOK
          <5> QED
            BY <1>1, <3>2, <3>4, <4>1, <5>1, <5>2
        <4>2. CASE d[1] # k
          BY <1>4, <3>2, <3>4, <4>2 DEF TypeOK
        <4> QED
          BY <4>1, <4>2
      <3> QED
        BY <1>4, <3>1, <3>2, <3>3, <3>5
    <2>2. ASSUME NEW t \in Types, NEW i \in DOMAIN subs'[t], NEW j \in DOMAIN subs'[t],
                 subs'[t][i] = subs'[t][j]
          PROVE  i = j
      <3>1. Old(t, i) = Old(t, j)
        BY <1>7, <2>2 DEF SubsInv
      <3>2. CASE t = ty
        <4>1. i \in Nat /\ j \in Nat /\ n \in Nat
          BY <1>5, <1>7, <3>2
        <4> QED
          BY <3>1, <3>2, <4>1
      <3> QED
        BY <3>1, <3>2
    <2>3. \A d \in closed' : state'[d[1]] \in {"leaving", "ended"}
      BY <1>2, <1>4, ChanParts DEF TypeOK, SubsInv
    <2> QED
      BY <2>1, <2>2, <2>3 DEF SubsInv
  <1>11. TodoInv'
    BY <1>4 DEF TodoInv
  <1>12. NoSendOnClosed'
    BY <1>4 DEF TodoInv, NoSendOnClosed
  <1> QED
    BY <1>8, <1>9, <1>10, <1>11, <1>12

\* Every step keeps the invariant.
LEMMA NextPreserves == IndInv /\ [Next]_vars => IndInv'
  <1> SUFFICES ASSUME IndInv, [Next]_vars PROVE IndInv'
    OBVIOUS
  <1>1. CASE UNCHANGED vars
    BY <1>1 DEF IndInv, TypeOK, CountInv, SubsInv, TodoInv, NoSendOnClosed, vars, busVars
  <1> QED
    BY <1>1, PublishPreserves, LoopPreserves, SubscribePreserves, UnsubscribePreserves
       DEF Next, SubscriberStep

\* The inductive invariant holds in every reachable state.
THEOREM Invariance == Spec => []IndInv
  BY InitEstablishes, NextPreserves, PTL DEF Spec

\* The lock, the lists and the channels are well typed; above all, no channel
\* ever holds more than its capacity, and a command counts its channels right.
THEOREM TypeCorrect == Spec => []TypeOK
  <1>1. IndInv => TypeOK
    BY DEF IndInv
  <1> QED
    BY <1>1, Invariance, PTL

\* Unsubscribe never closes a channel that a Publish has yet to send to, for
\* any number of publishers and subscribers.
THEOREM NoSendOnClosedHolds == Spec => []NoSendOnClosed
  <1>1. IndInv => NoSendOnClosed
    BY DEF IndInv
  <1> QED
    BY <1>1, Invariance, PTL

-----------------------------------------------------------------------------
\* The deliveries and runGet use the bus in no other way than by its calls.
LEMMA GetStep == GetNext => [Next]_vars
  <1> SUFFICES ASSUME GetNext PROVE [Next]_vars
    OBVIOUS
  <1>1. /\ get \in Subscribers
        /\ \A d \in Publishers : Publishes[d] = {"started", "progress", "complete", "failed"}
        /\ {1, 2, 3, 4} \subseteq DOMAIN Wants[get]
    BY GetAssumption
  <1>2. ASSUME NEW d \in Publishers, Negotiate(d) \/ Deliver(d) PROVE [Next]_vars
    <2>1. CASE Negotiate(d) \/ CreateFile(d)
      BY <2>1 DEF Negotiate, CreateFile
    <2>2. CASE \/ PublishStarted(d) \/ CreateFails(d) \/ PublishProgress(d) \/ PublishOutcome(d)
               \/ Publishing(d)
      BY <1>1, <2>2 DEF PublishStarted, CreateFails, PublishProgress, PublishOutcome, Publishing, Publish, Next
    <2> QED
      BY <1>2, <2>1, <2>2 DEF Deliver
  <1>3. CASE CheckLocal \/ FindPeers \/ Interrupt
    BY <1>3 DEF CheckLocal, FindPeers, Interrupt
  <1>4. CASE SubscribeAll \/ UnsubscribeAll \/ Broadcast \/ Save
    BY <1>1, <1>4 DEF SubscribeAll, UnsubscribeAll, Broadcast, Save, SubscriberStep, Next
  <1>5. CASE SeeStarted \/ SeeProgress
    BY <1>1, <1>5 DEF SeeStarted, SeeProgress, SubscriberStep, Next
  <1>6. CASE SeeCancelled \/ SeeComplete \/ SeeFailed
    BY <1>1, <1>6 DEF SeeCancelled, SeeComplete, SeeFailed, LoopEnds, Next
  <1> QED
    BY <1>2, <1>3, <1>4, <1>5, <1>6 DEF GetNext, RunGet

\* The get command and the deliveries it waits for implement the bus.
THEOREM GetImplementsBus == GetSpec => Spec
  <1>1. GetInit => Init
    BY DEF GetInit
  <1>2. [GetNext]_getVars => [Next]_vars
    BY GetStep DEF getVars
  <1> QED
    BY <1>1, <1>2, PTL DEF GetSpec, Spec

\* So the get command may leave its loop at any time, with deliveries under way,
\* and no stream of the process panics.
THEOREM GetNoSendOnClosed == GetSpec => []NoSendOnClosed
  BY GetImplementsBus, NoSendOnClosedHolds, PTL

-----------------------------------------------------------------------------
(* What p.Wait waits for *)

\* d is about to send its FileReceiveStarted to the command.
Sending(d) == \E i \in DOMAIN todo[d] : todo[d][i] = <<get, 1>>

\* Only a delivery that has just started is, and it will do so once.
SendingInv ==
    \A d \in Publishers :
        /\ Sending(d) => rx[d] = "started"
        /\ \A i, j \in DOMAIN todo[d] : todo[d][i] = todo[d][j] => i = j

Unsent == {d \in Publishers : Sending(d)}
Shown == IF bar = "none" THEN 0 ELSE 1

\* Each bar that runGet forgot, the one it shows, each FileReceiveStarted in its
\* channel and each one about to be sent stand for a delivery of their own.
CountedInv == lost + Shown + buf[<<get, 1>>] + Cardinality(Unsent) <= Cardinality(Started)

\* Every way out of the loop but Ctrl+C completes the bar that is shown.
BarInv ==
    /\ state[get] = "left" => cancelled \/ bar # "open"
    /\ lost > 0 => bar # "none"

\* The type invariant without the bound on lost, which CountedInv gives.
CommandTypeOK ==
    /\ rx \in [Publishers -> RxStates]
    /\ has \in BOOLEAN
    /\ cmd \in CmdStates
    /\ cancelled \in BOOLEAN
    /\ bar \in {"none", "open", "done"}
    /\ lost \in Nat

GetInv == CommandTypeOK /\ SendingInv /\ CountedInv /\ BarInv

\* The command's channels, and the first of them.
LEMMA GetChannels ==
  ASSUME IndInv
  PROVE  /\ get \in Subscribers
         /\ \A i \in {1, 2, 3, 4} : <<get, i>> \in Chans
         /\ {"started", "progress", "complete", "failed"} = Types
         /\ \A ty \in Types : \A i \in DOMAIN subs[ty] : subs[ty][i] = <<get, 1>> => ty = "started"
  <1>1. get \in Subscribers /\ Len(Wants[get]) = 4 /\ Wants[get][1] = "started"
    BY GetAssumption
  <1>2. \A i \in {1, 2, 3, 4} : <<get, i>> \in Chans
    BY <1>1, PartsChan
  <1>3. TypeOf(<<get, 1>>) = "started"
    BY <1>1 DEF TypeOf
  <1>4. \A ty \in Types : \A i \in DOMAIN subs[ty] : TypeOf(subs[ty][i]) = ty
    BY DEF IndInv, SubsInv
  <1>5. {"started", "progress", "complete", "failed"} = Types
    BY GetAssumption
  <1> QED
    BY <1>1, <1>2, <1>3, <1>4, <1>5

\* What CountedInv counts can be counted.
LEMMA CountsFinite ==
  /\ IsFiniteSet(Unsent) /\ Cardinality(Unsent) \in Nat
  /\ IsFiniteSet(Started) /\ Cardinality(Started) \in Nat
  /\ Cardinality(Publishers) \in Nat /\ Cardinality(Started) <= Cardinality(Publishers)
  <1>1. IsFiniteSet(Publishers)
    BY GetAssumption
  <1>2. Unsent \in SUBSET Publishers /\ Started \in SUBSET Publishers
    BY DEF Unsent, Started
  <1> QED
    BY <1>1, <1>2, FS_Subset, FS_CardinalityType

\* Nothing is counted at first.
LEMMA GetInitEstablishes == GetInit => GetInv
  <1> SUFFICES ASSUME GetInit PROVE GetInv
    OBVIOUS
  <1>1. IndInv
    BY InitEstablishes DEF GetInit
  <1>2. CommandTypeOK /\ BarInv
    <2>1. state[get] = "subscribing"
      BY GetAssumption DEF GetInit, Init
    <2>2. BarInv
      BY <2>1 DEF GetInit, BarInv
    <2>3. CommandTypeOK
      BY DEF GetInit, CommandTypeOK, RxStates, CmdStates
    <2> QED
      BY <2>2, <2>3
  <1>3. SendingInv /\ Unsent = {}
    BY DEF GetInit, Init, SendingInv, Sending, Unsent
  <1>4. buf[<<get, 1>>] = 0 /\ Shown = 0 /\ lost = 0
    BY <1>1, GetChannels DEF GetInit, Init, Shown
  <1>5. CountedInv
    BY <1>3, <1>4, CountsFinite, FS_EmptySet DEF CountedInv
  <1> QED
    BY <1>2, <1>3, <1>5 DEF GetInv

\* A step that leaves what is counted alone.
LEMMA UncountedStep ==
  ASSUME GetInv, UNCHANGED <<lost, Shown, Unsent, Started>>, buf'[<<get, 1>>] = buf[<<get, 1>>]
  PROVE  CountedInv'
  BY DEF GetInv, CountedInv

\* The deliveries: only the start of one is counted, and it is counted once.
LEMMA DeliveryPreserves ==
  ASSUME IndInv, GetInv, NEW d \in Publishers, Negotiate(d) \/ Deliver(d)
  PROVE  GetInv'
  <1> USE DEF GetInv
  <1>1. CommandTypeOK'
    BY DEF CommandTypeOK, RxStates, Deliver, Negotiate, PublishStarted, CreateFile, CreateFails,
       PublishProgress, PublishOutcome, Publishing, delivery, command
  <1>2. BarInv'
    BY DEF BarInv, Deliver, Negotiate, PublishStarted, CreateFile, CreateFails,
       PublishProgress, PublishOutcome, Publishing, delivery, command, vars, BeginPublish, Send, EndPublish
  <1>3. CASE Negotiate(d) \/ CreateFile(d)
    <2>1. UNCHANGED <<todo, buf, lost, bar>>
      BY <1>3 DEF Negotiate, CreateFile, vars, command
    <2>2. \A e \in Publishers : Sending(e) => rx'[e] = rx[e]
      <3>1. CreateFile(d) => ~Sending(d)
        BY DEF CreateFile, IndInv, TodoInv, Sending
      <3> QED
        BY <1>3, <3>1 DEF Negotiate, CreateFile, SendingInv, CommandTypeOK
    <2>3. SendingInv'
      BY <2>1, <2>2 DEF SendingInv, Sending
    <2>4. Started' = Started
      BY <1>3 DEF Started, Negotiate, CreateFile, CommandTypeOK
    <2>5. UNCHANGED <<Unsent, Shown>>
      BY <2>1 DEF Unsent, Sending, Shown
    <2> QED
      BY <1>1, <1>2, <2>1, <2>3, <2>4, <2>5, UncountedStep
  <1>4. ASSUME NEW ty \in Types, BeginPublish(d, ty), ty # "started", UNCHANGED <<bar, lost>>,
               \A e \in Publishers : e # d => rx'[e] = rx[e],
               d \in Started, d \in Started'
        PROVE  GetInv'
    <2>1. /\ todo' = [todo EXCEPT ![d] = subs[ty]] /\ UNCHANGED buf
          /\ ~Sending(d)
      BY <1>4 DEF BeginPublish, IndInv, TodoInv, Sending
    <2>2. \A e \in Publishers : todo'[e] = IF e = d THEN subs[ty] ELSE todo[e]
      BY <2>1 DEF IndInv, TypeOK
    <2>3. ~Sending(d)'
      BY <1>4, <2>2, GetChannels DEF Sending
    <2>4. \A e \in Publishers : Sending(e)' <=> Sending(e)
      BY <2>1, <2>2, <2>3 DEF Sending
    <2>5. SendingInv'
      BY <1>4, <2>2, <2>3, <2>4 DEF SendingInv, IndInv, SubsInv
    <2>6. Started' = Started
      BY <1>4 DEF Started
    <2>7. UNCHANGED <<Unsent, Shown>>
      BY <1>4, <2>4 DEF Unsent, Shown
    <2> QED
      BY <1>1, <1>2, <1>4, <2>1, <2>5, <2>6, <2>7, UncountedStep
  <1>5. CASE CreateFails(d) \/ PublishProgress(d) \/ PublishOutcome(d)
    BY <1>4, <1>5, GetAssumption DEF CreateFails, PublishProgress, PublishOutcome, delivery, command,
       Started, CommandTypeOK
  <1>6. CASE PublishStarted(d)
    <2>1. /\ todo' = [todo EXCEPT ![d] = subs["started"]] /\ UNCHANGED <<buf, bar, lost>>
          /\ ~Sending(d) /\ rx[d] = "accepted" /\ rx' = [rx EXCEPT ![d] = "started"]
      BY <1>6 DEF PublishStarted, BeginPublish, IndInv, TodoInv, Sending, command
    <2>2. \A e \in Publishers : /\ todo'[e] = IF e = d THEN subs["started"] ELSE todo[e]
                                /\ rx'[e] = IF e = d THEN "started" ELSE rx[e]
      BY <2>1 DEF IndInv, TypeOK, CommandTypeOK
    <2>3. SendingInv'
      BY <2>2, GetChannels DEF SendingInv, Sending, IndInv, SubsInv
    <2>4. Started' = Started \cup {d} /\ d \notin Started
      BY <2>1, <2>2 DEF Started
    <2>5. Unsent' \in {Unsent, Unsent \cup {d}} /\ d \notin Unsent
      BY <2>1, <2>2 DEF Unsent, Sending
    <2>6. /\ Cardinality(Started') = Cardinality(Started) + 1
          /\ Cardinality(Unsent') \in {Cardinality(Unsent), Cardinality(Unsent) + 1}
      BY <2>4, <2>5, CountsFinite, FS_AddElement
    <2>7. lost \in Nat /\ Shown \in Nat /\ buf[<<get, 1>>] \in Nat
      BY GetChannels, BusAssumption DEF IndInv, TypeOK, CommandTypeOK, Shown
    <2>8. Shown' = Shown
      BY <2>1 DEF Shown
    <2>9. CountedInv'
      BY <2>1, <2>6, <2>7, <2>8, CountsFinite DEF CountedInv
    <2> QED
      BY <1>1, <1>2, <2>3, <2>9
  <1>7. CASE EndPublish(d) /\ UNCHANGED <<delivery, command>>
    <2>1. UNCHANGED <<todo, buf, lost, bar, rx>>
      BY <1>7 DEF EndPublish, delivery, command
    <2>2. UNCHANGED <<Unsent, Shown, Started, SendingInv>>
      BY <2>1 DEF Unsent, Sending, Shown, Started, SendingInv
    <2> QED
      BY <1>1, <1>2, <2>1, <2>2, UncountedStep
  <1>8. CASE Send(d) /\ UNCHANGED <<delivery, command>>
    <2> DEFINE c == Head(todo[d])
               t == Tail(todo[d])
    <2>1. /\ todo[d] \in Seq(Chans) /\ todo[d] # <<>>
          /\ c \in Chans /\ c = todo[d][1]
          /\ DOMAIN t = 1..(Len(todo[d]) - 1)
          /\ 1 \in DOMAIN todo[d]
          /\ \A i \in DOMAIN t : i + 1 \in DOMAIN todo[d] /\ t[i] = todo[d][i + 1]
          /\ \A i \in DOMAIN todo[d] : i # 1 => i - 1 \in DOMAIN t /\ t[i - 1] = todo[d][i]
      BY <1>8, HeadTailProperties DEF Send, IndInv, TypeOK
    <2>2. /\ todo' = [todo EXCEPT ![d] = t]
          /\ buf' = [buf EXCEPT ![c] = @ + 1]
          /\ UNCHANGED <<bar, lost, rx>>
      BY <1>8 DEF Send, delivery, command
    <2> HIDE DEF c, t
    <2>3. \A e \in Publishers : todo'[e] = IF e = d THEN t ELSE todo[e]
      BY <2>2 DEF IndInv, TypeOK
    <2>4. ASSUME NEW e \in Publishers, Sending(e)' PROVE Sending(e)
      <3>1. CASE e = d
        <4>1. PICK i \in DOMAIN t : t[i] = <<get, 1>>
          BY <2>3, <2>4, <3>1 DEF Sending
        <4> QED
          BY <2>1, <3>1, <4>1 DEF Sending
      <3> QED
        BY <2>3, <2>4, <3>1 DEF Sending
    <2>5. SendingInv'
      <3>1. ASSUME NEW i \in DOMAIN t, NEW j \in DOMAIN t, t[i] = t[j] PROVE i = j
        <4>1. i + 1 = j + 1
          BY <2>1, <3>1 DEF SendingInv
        <4> QED
          BY <2>1, <4>1
      <3> QED
        BY <2>2, <2>3, <2>4, <3>1 DEF SendingInv
    <2>6. UNCHANGED <<Started, Shown>>
      BY <2>2 DEF Started, Shown
    <2>7. CASE c = <<get, 1>>
      <3>1. Sending(d) /\ ~Sending(d)'
        <4>1. \A i \in DOMAIN t : t[i] # <<get, 1>>
          <5> SUFFICES ASSUME NEW i \in DOMAIN t, t[i] = <<get, 1>> PROVE FALSE
            OBVIOUS
          <5>1. i + 1 \in DOMAIN todo[d] /\ todo[d][i + 1] = todo[d][1]
            BY <2>1, <2>7
          <5>2. i + 1 = 1
            BY <2>1, <5>1 DEF SendingInv
          <5> QED
            BY <2>1, <5>2
        <4> QED
          BY <2>1, <2>3, <2>7, <4>1 DEF Sending
      <3>2. \A e \in Publishers : e # d => (Sending(e)' <=> Sending(e))
        BY <2>3 DEF Sending
      <3>3. Unsent' = Unsent \ {d} /\ d \in Unsent
        BY <3>1, <3>2 DEF Unsent
      <3>4. Cardinality(Unsent') = Cardinality(Unsent) - 1
        BY <3>3, CountsFinite, FS_RemoveElement
      <3>5. buf'[<<get, 1>>] = buf[<<get, 1>>] + 1 /\ buf[<<get, 1>>] \in Nat
        BY <2>1, <2>2, <2>7, BusAssumption DEF IndInv, TypeOK
      <3>6. lost \in Nat /\ Shown \in Nat
        BY DEF CommandTypeOK, Shown
      <3>7. CountedInv'
        BY <2>2, <2>6, <3>4, <3>5, <3>6, CountsFinite DEF CountedInv
      <3> QED
        BY <1>1, <1>2, <2>5, <3>7
    <2>8. CASE c # <<get, 1>>
      <3>1. ASSUME NEW e \in Publishers, Sending(e) PROVE Sending(e)'
        <4>1. CASE e = d
          <5>1. PICK i \in DOMAIN todo[d] : todo[d][i] = <<get, 1>>
            BY <3>1, <4>1 DEF Sending
          <5>2. i # 1
            BY <2>1, <2>8, <5>1
          <5>3. i - 1 \in DOMAIN t /\ t[i - 1] = <<get, 1>>
            BY <2>1, <5>1, <5>2
          <5> QED
            BY <2>3, <4>1, <5>3 DEF Sending
        <4> QED
          BY <2>3, <3>1, <4>1 DEF Sending
      <3>2. UNCHANGED Unsent
        BY <2>4, <3>1 DEF Unsent
      <3>3. buf'[<<get, 1>>] = buf[<<get, 1>>]
        BY <2>2, <2>8, GetChannels DEF IndInv, TypeOK
      <3> QED
        BY <1>1, <1>2, <2>2, <2>5, <2>6, <3>2, <3>3, UncountedStep
    <2> QED
      BY <2>7, <2>8
  <1> QED
    BY <1>3, <1>5, <1>6, <1>7, <1>8 DEF Deliver, Publishing

\* runGet before its loop, and when Ctrl+C is pressed.
LEMMA BeforeLoopPreserves ==
  ASSUME IndInv, GetInv, CheckLocal \/ FindPeers \/ SubscribeAll \/ Broadcast \/ Interrupt
  PROVE  GetInv'
  <1> USE DEF GetInv
  <1>1. CommandTypeOK'
    BY DEF CommandTypeOK, CmdStates, CheckLocal, FindPeers, SubscribeAll, Broadcast, Interrupt,
       delivery, command
  <1>2. UNCHANGED <<todo, buf, lost, bar, rx>> /\ (cancelled => cancelled')
    BY DEF CheckLocal, FindPeers, SubscribeAll, Broadcast, Interrupt,
       Lock, Subscribe, Enter, delivery, command, vars
  <1>3. state'[get] = "left" => state[get] = "left"
    BY GetChannels DEF CheckLocal, FindPeers, SubscribeAll, Broadcast, Interrupt,
       Lock, Subscribe, Enter, delivery, command, vars, IndInv, TypeOK
  <1>4. BarInv'
    BY <1>2, <1>3 DEF BarInv
  <1>5. UNCHANGED <<Unsent, Shown, Started, SendingInv>>
    BY <1>2 DEF Unsent, Sending, Shown, Started, SendingInv
  <1> QED
    BY <1>1, <1>2, <1>4, <1>5, UncountedStep

\* What is read from a channel is shown or lost: the sum does not grow.
LEMMA MovedUnit ==
  ASSUME NEW l \in Nat, NEW m \in Nat, NEW s, s \in {0, 1}, NEW t, t = 1,
         m + t <= l + s + 1, NEW b \in Nat, NEW d, d = b - 1, NEW u \in Nat, NEW v, v = u
  PROVE  m + t + d + v <= l + s + b + u
  OBVIOUS

\* The loop: a FileReceiveStarted that is read becomes the bar that is shown.
LEMMA LoopStepPreserves ==
  ASSUME IndInv, GetInv, SeeCancelled \/ SeeStarted \/ SeeProgress \/ SeeComplete \/ SeeFailed
  PROVE  GetInv'
  <1> USE DEF GetInv
  <1>1. UNCHANGED <<todo, rx, has, cancelled>>
    BY DEF SeeCancelled, SeeStarted, SeeProgress, SeeComplete, SeeFailed, Leave, Take, TakeLast,
       Receive, delivery
  <1>2. UNCHANGED <<Unsent, Started, SendingInv>>
    BY <1>1 DEF Unsent, Sending, Started, SendingInv
  <1>3. CommandTypeOK'
    BY DEF CommandTypeOK, CmdStates, SeeCancelled, SeeStarted, SeeProgress, SeeComplete, SeeFailed,
       delivery
  <1>4. CASE SeeStarted
    <2>1. /\ buf[<<get, 1>>] > 0 /\ buf' = [buf EXCEPT ![<<get, 1>>] = @ - 1]
          /\ lost' = (IF bar = "open" THEN lost + 1 ELSE lost) /\ bar' = "open"
          /\ state[get] = "running" /\ UNCHANGED state
      BY <1>4 DEF SeeStarted, Take, Receive
    <2>2. buf'[<<get, 1>>] = buf[<<get, 1>>] - 1 /\ buf[<<get, 1>>] \in Nat
      BY <2>1, GetChannels, BusAssumption DEF IndInv, TypeOK
    <2>3. BarInv'
      BY <2>1 DEF BarInv
    <2>4. lost \in Nat /\ lost' \in Nat /\ Shown \in {0, 1} /\ Shown' = 1 /\ (bar = "open" => Shown = 1)
      BY <1>3, <2>1 DEF CommandTypeOK, Shown
    <2>5. lost' + Shown' <= lost + Shown + 1
      BY <2>1, <2>4
    <2>6. /\ Cardinality(Unsent') = Cardinality(Unsent) /\ Cardinality(Unsent) \in Nat
          /\ Cardinality(Started') = Cardinality(Started) /\ Cardinality(Started) \in Nat
      BY <1>2, CountsFinite
    <2>7. lost' + Shown' + buf'[<<get, 1>>] + Cardinality(Unsent') <=
          lost + Shown + buf[<<get, 1>>] + Cardinality(Unsent)
      BY <2>2, <2>4, <2>5, <2>6, MovedUnit
    <2>8. CountedInv'
      BY <2>2, <2>4, <2>6, <2>7 DEF CountedInv
    <2> QED
      BY <1>2, <1>3, <2>3, <2>8
  <1>5. CASE ~SeeStarted
    <2>1. buf'[<<get, 1>>] = buf[<<get, 1>>]
      <3>1. \/ UNCHANGED buf
            \/ \E i \in {2, 3, 4} : buf' = [buf EXCEPT ![<<get, i>>] = @ - 1]
        BY <1>5 DEF SeeCancelled, SeeProgress, SeeComplete, SeeFailed, Leave, Take, TakeLast, Receive
      <3> QED
        BY <3>1, GetChannels DEF IndInv, TypeOK
    <2>2. UNCHANGED lost /\ bar' \in {bar, IF bar = "open" THEN "done" ELSE bar}
      BY <1>5 DEF SeeCancelled, SeeProgress, SeeComplete, SeeFailed
    <2>3. UNCHANGED Shown
      BY <2>2 DEF Shown
    <2>4. state'[get] = "left" => cancelled' \/ bar' # "open"
      <3>1. CASE SeeCancelled
        BY <1>1, <3>1 DEF SeeCancelled
      <3>2. CASE SeeProgress
        BY <3>2 DEF SeeProgress, Take, Receive
      <3>3. CASE SeeComplete \/ SeeFailed
        BY <3>3 DEF SeeComplete, SeeFailed
      <3> QED
        BY <1>5, <3>1, <3>2, <3>3
    <2>5. BarInv'
      BY <2>2, <2>4 DEF BarInv
    <2> QED
      BY <1>2, <1>3, <2>1, <2>2, <2>3, <2>5, UncountedStep
  <1> QED
    BY <1>4, <1>5

\* runGet after its loop.
LEMMA AfterLoopPreserves ==
  ASSUME IndInv, GetInv, Save \/ UnsubscribeAll
  PROVE  GetInv'
  <1> USE DEF GetInv
  <1>1. CommandTypeOK'
    BY DEF CommandTypeOK, CmdStates, Save, UnsubscribeAll, delivery, command
  <1>2. UNCHANGED <<todo, buf, lost, bar, rx, cancelled>>
    BY DEF Save, UnsubscribeAll, Return, Lock, Unsubscribe, delivery, command
  <1>3. state'[get] # "left"
    BY GetChannels DEF Save, UnsubscribeAll, Return, Lock, Unsubscribe, IndInv, TypeOK
  <1>4. BarInv'
    BY <1>2, <1>3 DEF BarInv
  <1>5. UNCHANGED <<Unsent, Shown, Started, SendingInv>>
    BY <1>2 DEF Unsent, Sending, Shown, Started, SendingInv
  <1> QED
    BY <1>1, <1>2, <1>4, <1>5, UncountedStep

\* Every step keeps the invariant.
LEMMA GetNextPreserves == IndInv /\ GetInv /\ [GetNext]_getVars => GetInv'
  <1> SUFFICES ASSUME IndInv, GetInv, [GetNext]_getVars PROVE GetInv'
    OBVIOUS
  <1>1. CASE UNCHANGED getVars
    <2>1. UNCHANGED <<todo, buf, state, rx, has, cmd, cancelled, bar, lost>>
      BY <1>1 DEF getVars, vars, delivery, command
    <2>2. UNCHANGED <<Unsent, Shown, Started, SendingInv, BarInv, CommandTypeOK>>
      BY <2>1 DEF Unsent, Sending, Shown, Started, SendingInv, BarInv, CommandTypeOK
    <2> QED
      BY <2>1, <2>2, UncountedStep DEF GetInv
  <1> QED
    BY <1>1, DeliveryPreserves, BeforeLoopPreserves, LoopStepPreserves, AfterLoopPreserves
       DEF GetNext, RunGet

LEMMA GetInvariance == GetSpec => [](IndInv /\ GetInv)
  <1>1. Spec => []IndInv
    BY Invariance
  <1> QED
    BY <1>1, GetImplementsBus, GetInitEstablishes, GetNextPreserves, PTL DEF GetSpec

\* Type correctness of the command and its deliveries: above all, the bars that
\* runGet forgets are never more than the deliveries.
THEOREM GetTypeCorrect == GetSpec => []GetTypeOK
  <1>1. IndInv /\ GetInv => GetTypeOK
    <2> SUFFICES ASSUME IndInv, GetInv PROVE GetTypeOK
      OBVIOUS
    <2>1. lost \in Nat /\ Shown \in Nat /\ buf[<<get, 1>>] \in Nat
      BY GetChannels, BusAssumption DEF IndInv, TypeOK, GetInv, CommandTypeOK, Shown
    <2>2. lost <= Cardinality(Publishers)
      BY <2>1, CountsFinite DEF GetInv, CountedInv
    <2> QED
      BY <2>1, <2>2, CountsFinite DEF IndInv, GetInv, CommandTypeOK, GetTypeOK
  <1> QED
    BY <1>1, GetInvariance, PTL

\* p.Wait of runGet waits for a bar only if two deliveries have started, for any
\* number of deliveries and any capacity of the channels: select may take the
\* events of a single one in any order.
THEOREM WaitsForCauseHolds == GetSpec => []WaitsForCause
  <1>1. IndInv /\ GetInv => WaitsForCause
    <2> SUFFICES ASSUME IndInv, GetInv, state[get] = "left", ~BarsComplete
                 PROVE  Cardinality(Started) > 1
      BY DEF WaitsForCause
    <2>1. lost \in Nat /\ buf[<<get, 1>>] \in Nat
      BY GetChannels, BusAssumption DEF IndInv, TypeOK, GetInv, CommandTypeOK
    <2>2. ~cancelled /\ bar # "open" /\ lost # 0
      BY DEF BarsComplete, GetInv, BarInv
    <2>3. Shown = 1
      BY <2>1, <2>2 DEF GetInv, BarInv, Shown
    <2> QED
      BY <2>1, <2>2, <2>3, CountsFinite DEF GetInv, CountedInv
  <1> QED
    BY <1>1, GetInvariance, PTL
=============================================================================
