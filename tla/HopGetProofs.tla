---------------------------- MODULE HopGetProofs ----------------------------
(***************************************************************************)
(* Proofs about HopGet for every peer graph, every TTL, fanout and number  *)
(* of faults.                                                              *)
(***************************************************************************)
EXTENDS HopGet, TLAPS

\* A copy of the request that is d hops out carries at most DefaultTTL + 1 - d.
HopBudget ==
    \A m \in net \cup checking \cup delivering :
        Dist[m.to] + m.ttl <= DefaultTTL + 1

\* A node has accepted the request at most as often as it forgot the MsgID,
\* and once more if it remembers it now.
Counted ==
    \A n \in Nodes :
        IF n \in seen THEN processed[n] <= 1 + forgot[n]
                      ELSE processed[n] <= forgot[n]

\* Every goroutine works on an accepted request.
TasksAccepted == \A t \in checking \cup delivering : processed[t.to] > 0

\* A node delivers only what its store has, and only holders have the file
\* until one of them has delivered it to the requester.
HasFrom ==
    /\ \A t \in delivering : t.to \in has
    /\ \A n \in Nodes : n \in has =>
        \/ n \in Holders
        \/ n = Requester /\ \E h \in Holders : processed[h] > 0

IndInv ==
    /\ TypeOK
    /\ HopBudget
    /\ Counted
    /\ TasksAccepted
    /\ HasFrom
    /\ ReachBound

\* Before the broadcast there is nothing but the holders' files.
LEMMA InitEstablishes == Init => IndInv
  <1> SUFFICES ASSUME Init PROVE IndInv
    OBVIOUS
  <1>1. TypeOK
    <2>1. has \subseteq Nodes
      BY NodesAssumption DEF Init
    <2>2. /\ net \subseteq Msgs /\ checking \subseteq Msgs /\ delivering \subseteq Msgs
          /\ seen \subseteq Nodes
          /\ asked \in BOOLEAN
      BY DEF Init
    <2>3. faults \in Nat /\ processed \in [Nodes -> Nat] /\ forgot \in [Nodes -> Nat]
      BY DEF Init
    <2> QED
      BY <2>1, <2>2, <2>3 DEF TypeOK
  <1>2. HopBudget /\ TasksAccepted /\ HasFrom
    BY DEF Init, HopBudget, TasksAccepted, HasFrom
  <1>3. Counted /\ ReachBound
    BY DEF Init, Counted, ReachBound
  <1> QED
    BY <1>1, <1>2, <1>3 DEF IndInv

\* Steps that only drop messages, tasks or the memory of the MsgID.
LEMMA DropPreserves ==
  ASSUME IndInv,
         net' \subseteq net, checking' \subseteq checking,
         delivering' \subseteq delivering \cup checking,
         \A t \in delivering' : t.to \in has,
         asked' \in BOOLEAN, seen' \subseteq seen, faults' \in Nat,
         forgot' \in [Nodes -> Nat],
         \A n \in Nodes : forgot[n] <= forgot'[n],
         \A n \in seen \ seen' : forgot'[n] = forgot[n] + 1,
         UNCHANGED <<has, processed>>
  PROVE  IndInv'
  <1> USE DEF IndInv
  <1>1. TypeOK'
    BY DEF TypeOK
  <1>2. HopBudget'
    BY DEF HopBudget
  <1>3. Counted'
    BY DEF Counted, TypeOK
  <1>4. TasksAccepted' /\ HasFrom' /\ ReachBound'
    BY DEF TasksAccepted, HasFrom, ReachBound
  <1> QED
    BY <1>1, <1>2, <1>3, <1>4

\* The broadcast reaches the requester's peers, one hop out, with the full TTL.
LEMMA BroadcastPreserves ==
  ASSUME IndInv, BroadcastGet
  PROVE  IndInv'
  <1> USE DEF IndInv
  <1> DEFINE sent == {[from |-> Requester, to |-> p, ttl |-> DefaultTTL,
                       nth |-> 0] : p \in Peers[Requester]}
  <1>1. /\ net' = net \cup sent /\ asked' = TRUE
        /\ UNCHANGED <<seen, checking, delivering, has, faults,
                       processed, forgot>>
    BY DEF BroadcastGet
  <1>2. \A m \in sent : m \in Msgs /\ Dist[m.to] + m.ttl <= DefaultTTL + 1
    BY NodesAssumption, DistAssumption, BoundsAssumption DEF Msgs
  <1>3. TypeOK'
    BY <1>1, <1>2 DEF TypeOK
  <1>4. HopBudget'
    BY <1>1, <1>2 DEF HopBudget
  <1>5. Counted' /\ TasksAccepted' /\ HasFrom' /\ ReachBound'
    BY <1>1 DEF Counted, TasksAccepted, HasFrom, ReachBound
  <1> QED
    BY <1>3, <1>4, <1>5

\* An accepted request is new to the node and within reach.
LEMMA AcceptPreserves ==
  ASSUME IndInv, NEW m \in net, AcceptGet(m)
  PROVE  IndInv'
  <1> USE DEF IndInv
  <1> DEFINE t == Task(m)
  <1>1. /\ m.to \notin seen
        /\ net' = net \ {m}
        /\ seen' = seen \cup {m.to}
        /\ processed' = [processed EXCEPT ![m.to] = @ + 1]
        /\ checking' = checking \cup {t}
        /\ UNCHANGED <<asked, delivering, has, faults, forgot>>
    BY DEF AcceptGet
  <1>2. m \in Msgs /\ processed[m.to] \in Nat /\ m.to \in Nodes /\ m.ttl \in 0..DefaultTTL
    BY DEF TypeOK, Msgs
  <1>3. t \in Msgs /\ t.to = m.to /\ t.ttl = m.ttl
    BY <1>2 DEF Msgs, Task
  <1> HIDE DEF t
  <1>4. TypeOK'
    BY <1>1, <1>2, <1>3 DEF TypeOK
  <1>5. HopBudget'
    BY <1>1, <1>3 DEF HopBudget
  <1>6. /\ processed'[m.to] = processed[m.to] + 1
        /\ \A n \in Nodes \ {m.to} : processed'[n] = processed[n]
    BY <1>1, <1>2 DEF TypeOK
  <1>7. Counted'
    BY <1>1, <1>2, <1>6 DEF Counted, TypeOK
  <1>8. TasksAccepted'
    <2> SUFFICES ASSUME NEW u \in checking \cup delivering \cup {t}
                 PROVE  processed'[u.to] > 0
      BY <1>1 DEF TasksAccepted
    <2>1. u \in Msgs /\ u.to \in Nodes
      BY <1>3 DEF TypeOK, Msgs
    <2> QED
      BY <1>2, <1>3, <1>6, <2>1 DEF TasksAccepted
  <1>9. HasFrom'
    BY <1>1, <1>2, <1>6, NodesAssumption DEF HasFrom, TypeOK
  <1>10. ReachBound'
    <2>1. Dist[m.to] <= DefaultTTL + 1
      BY <1>2, DistAssumption, BoundsAssumption DEF HopBudget
    <2> QED
      BY <1>6, <2>1 DEF ReachBound
  <1> QED
    BY <1>4, <1>5, <1>7, <1>8, <1>9, <1>10

\* A relayed copy is one hop further out and carries one less.
LEMMA RelayPreserves ==
  ASSUME IndInv, NEW t \in checking, Relay(t)
  PROVE  IndInv'
  <1> USE DEF IndInv
  <1>1. PICK S \in Select(Peers[t.to], t.from, Fanout) :
          net' = net \cup {[from |-> t.to, to |-> p, ttl |-> t.ttl - 1,
                            nth |-> t.nth] : p \in S}
    BY DEF Relay
  <1> DEFINE sent == {[from |-> t.to, to |-> p, ttl |-> t.ttl - 1,
                       nth |-> t.nth] : p \in S}
  <1>2. /\ t.ttl > 0 /\ checking' = checking \ {t}
        /\ UNCHANGED <<asked, seen, delivering, has, faults,
                       processed, forgot>>
    BY DEF Relay, Relays
  <1>3. /\ t \in Msgs /\ t.to \in Nodes /\ t.ttl \in 0..DefaultTTL /\ t.nth \in Nat
        /\ Dist[t.to] + t.ttl <= DefaultTTL + 1
    BY DEF TypeOK, Msgs, HopBudget
  <1>4. S \subseteq Peers[t.to]
    BY DEF Select
  <1>5. ASSUME NEW p \in S
        PROVE  /\ p \in Nodes
               /\ t.ttl - 1 \in 0..DefaultTTL
               /\ Dist[p] + (t.ttl - 1) <= DefaultTTL + 1
    BY <1>2, <1>3, <1>4, NodesAssumption, DistAssumption, BoundsAssumption
  <1>6. \A m \in sent : m \in Msgs /\ Dist[m.to] + m.ttl <= DefaultTTL + 1
    BY <1>3, <1>5 DEF Msgs
  <1>7. TypeOK'
    BY <1>1, <1>2, <1>6 DEF TypeOK
  <1>8. HopBudget'
    BY <1>1, <1>2, <1>6 DEF HopBudget
  <1>9. Counted' /\ TasksAccepted' /\ HasFrom' /\ ReachBound'
    BY <1>2 DEF Counted, TasksAccepted, HasFrom, ReachBound
  <1> QED
    BY <1>7, <1>8, <1>9

\* Only a holder delivers, and it has accepted the request.
LEMMA DeliverPreserves ==
  ASSUME IndInv, NEW t \in delivering, Deliver(t)
  PROVE  IndInv'
  <1> USE DEF IndInv
  <1>1. /\ t.to # Requester
        /\ delivering' = delivering \ {t}
        /\ has' = has \cup {Requester}
        /\ UNCHANGED <<asked, net, seen, checking, faults, processed, forgot>>
    BY DEF Deliver
  <1>2. t.to \in Nodes /\ t.to \in has
    BY DEF TypeOK, Msgs, HasFrom
  <1>3. t.to \in Holders /\ processed[t.to] > 0
    BY <1>1, <1>2 DEF HasFrom, TasksAccepted
  <1>4. TypeOK'
    BY <1>1, <1>2, NodesAssumption DEF TypeOK
  <1>5. HopBudget' /\ Counted' /\ TasksAccepted' /\ ReachBound'
    BY <1>1 DEF HopBudget, Counted, TasksAccepted, ReachBound
  <1>6. \A n \in Nodes : n \in has' <=> (n \in has \/ n = Requester)
    BY <1>1, NodesAssumption DEF TypeOK
  <1>7. \A u \in delivering : u.to \in Nodes
    BY DEF TypeOK, Msgs
  <1>8. HasFrom'
    BY <1>1, <1>3, <1>6, <1>7 DEF HasFrom
  <1> QED
    BY <1>4, <1>5, <1>8

\* Every step preserves the invariant.
LEMMA NextPreserves == IndInv /\ [Next]_vars => IndInv'
  <1> SUFFICES ASSUME IndInv, [Next]_vars PROVE IndInv'
    OBVIOUS
  <1> USE DEF IndInv
  <1>t. /\ asked \in BOOLEAN /\ faults \in Nat
        /\ seen \subseteq Nodes
        /\ forgot \in [Nodes -> Nat]
        /\ \A n \in Nodes : forgot[n] \in Nat
        /\ \A u \in delivering : u.to \in has
    BY DEF TypeOK, HasFrom
  <1>1. CASE BroadcastGet
    BY <1>1, BroadcastPreserves
  <1>2. CASE \E m \in net : AcceptGet(m)
    BY <1>2, AcceptPreserves
  <1>3. CASE \E t \in checking : Relay(t)
    BY <1>3, RelayPreserves
  <1>4. CASE \E t \in delivering : Deliver(t)
    BY <1>4, DeliverPreserves
  <1>5. CASE \E m \in net : IgnoreGet(m) \/ Lose(m)
    BY <1>t, <1>5, DropPreserves DEF IgnoreGet, Lose
  <1>6. CASE \E t \in checking : StopAtTTL(t)
    BY <1>t, <1>6, DropPreserves DEF StopAtTTL
  <1>7. CASE \E t \in checking : StartDelivery(t)
    <2>1. PICK t \in checking : StartDelivery(t)
      BY <1>7
    <2>2. \A u \in delivering' : u.to \in has
      BY <1>t, <2>1 DEF StartDelivery
    <2>3. /\ checking' \subseteq checking
          /\ delivering' \subseteq delivering \cup checking
          /\ UNCHANGED <<asked, net, seen, has, faults, processed, forgot>>
      BY <2>1 DEF StartDelivery
    <2> QED
      BY <1>t, <2>2, <2>3, DropPreserves
  <1>8. CASE \E t \in delivering : DeliveryFails(t)
    BY <1>t, <1>8, DropPreserves DEF DeliveryFails
  <1>9. CASE \E n \in Nodes : Forget(n)
    <2>1. PICK n \in Nodes : Forget(n)
      BY <1>9
    <2>2. /\ seen' = seen \ {n} /\ faults' = faults + 1
          /\ forgot' = [forgot EXCEPT ![n] = @ + 1]
          /\ UNCHANGED <<asked, net, checking, delivering, has, processed>>
      BY <2>1 DEF Forget
    <2>3. /\ forgot' \in [Nodes -> Nat]
          /\ \A k \in Nodes : forgot[k] <= forgot'[k]
          /\ \A k \in seen \ seen' : forgot'[k] = forgot[k] + 1
      BY <1>t, <2>2
    <2> QED
      BY <1>t, <2>2, <2>3, DropPreserves
  <1>10. CASE \E n \in Nodes : Restart(n)
    <2>1. PICK n \in Nodes : Restart(n)
      BY <1>10
    <2>2. /\ seen' = seen \ {n} /\ faults' = faults + 1
          /\ forgot' = [forgot EXCEPT ![n] = @ + 1]
          /\ checking' \subseteq checking /\ delivering' \subseteq delivering
          /\ UNCHANGED <<asked, net, has, processed>>
      BY <2>1 DEF Restart
    <2>3. /\ forgot' \in [Nodes -> Nat]
          /\ \A k \in Nodes : forgot[k] <= forgot'[k]
          /\ \A k \in seen \ seen' : forgot'[k] = forgot[k] + 1
      BY <1>t, <2>2
    <2> QED
      BY <1>t, <2>2, <2>3, DropPreserves
  <1>11. CASE UNCHANGED vars
    BY <1>t, <1>11, DropPreserves DEF vars
  <1> QED
    BY <1>1, <1>2, <1>3, <1>4, <1>5, <1>6, <1>7, <1>8, <1>9, <1>10, <1>11
    DEF Next, NodeStep, DeliveryStep

\* The invariant holds in every reachable state.
THEOREM Invariance == Spec => []IndInv
  BY InitEstablishes, NextPreserves, PTL DEF Spec

\* Type correctness; in particular no message carries a negative TTL.
THEOREM TypeCorrect == Spec => []TypeOK
  <1>1. IndInv => TypeOK
    BY DEF IndInv
  <1> QED
    BY <1>1, Invariance, PTL

\* The request is processed only within DefaultTTL + 1 hops, on every graph.
THEOREM ReachBoundHolds == Spec => []ReachBound
  <1>1. IndInv => ReachBound
    BY DEF IndInv
  <1> QED
    BY <1>1, Invariance, PTL

\* A node processes the request once per time it forgot the MsgID, plus once.
THEOREM AtMostOnceHolds == Spec => []AtMostOnce
  <1>1. IndInv => AtMostOnce
    BY DEF IndInv, Counted, AtMostOnce, TypeOK
  <1> QED
    BY <1>1, Invariance, PTL

\* The requester's copy comes from a holder that the request reached.
THEOREM ProvenanceHolds == Spec => []Provenance
  <1>1. IndInv => Provenance
    BY NodesAssumption DEF IndInv, HasFrom, ReachBound, Provenance
  <1> QED
    BY <1>1, Invariance, PTL
=============================================================================
