------------------------- MODULE SeenMessagesProofs -------------------------
(***************************************************************************)
(* Proofs about SeenMessages for every finite set of ids, every capacity   *)
(* and every window.                                                       *)
(***************************************************************************)
EXTENDS SeenMessages, FiniteSetTheorems, TLAPS

\* Every id on record was accepted at that time: entries hold no time that
\* was overwritten or invented, so the window runs from the last acceptance.
EntriesAccepted == \A id \in DOMAIN entries : entries[id] = accepted[id]

\* The inductive invariant: the capacity and the memory of in-window ids only
\* follow together with the fact that the recorded times are acceptance times
\* and that no acceptance lies in the future.
IndInv ==
    /\ TypeOK
    /\ Capacity
    /\ EntriesAccepted
    /\ Remembered
    /\ \A id \in Ids : accepted[id] <= now

\* Initially nothing is recorded and nothing was accepted within a window.
LEMMA InitEstablishes == Init => IndInv
  <1> SUFFICES ASSUME Init PROVE IndInv
    OBVIOUS
  <1>1. DOMAIN entries = {}
    BY DEF Init
  <1>2. Capacity
    BY <1>1, FS_EmptySet, SizeAssumption DEF Capacity
  <1>3. TypeOK
    BY <1>1, TimeAssumption DEF Init, TypeOK, Never
  <1>4. EntriesAccepted
    BY <1>1 DEF EntriesAccepted
  <1>5. \A id \in Ids : ~InWindow(id) /\ accepted[id] <= now
    BY TimeAssumption DEF Init, InWindow, Never
  <1> QED
    BY <1>2, <1>3, <1>4, <1>5 DEF IndInv, Remembered

\* The ids accepted since id only grow in number while id is not accepted
\* again: acceptances move forward in time.
LEMMA NewerGrows ==
  ASSUME TypeOK, NEW new \in Ids, NEW id \in Ids \ {new},
         \A j \in Ids : accepted[j] <= now,
         accepted' = [accepted EXCEPT ![new] = now]
  PROVE  /\ Newer(id) \cup {new} = Newer(id)'
         /\ IsFiniteSet(Newer(id)')
         /\ Cardinality(Newer(id)') >= Cardinality(Newer(id))
  <1>1. Newer(id) \cup {new} = Newer(id)'
    BY DEF Newer, TypeOK
  <1>2. IsFiniteSet(Newer(id)')
    BY FS_Subset, SizeAssumption, <1>1 DEF Newer
  <1>3. Cardinality(Newer(id)') >= Cardinality(Newer(id))
    BY <1>1, <1>2, FS_Subset, FS_CardinalityType
  <1> QED
    BY <1>1, <1>2, <1>3

\* What See keeps: all entries, or all but one oldest entry of a full store.
LEMMA EvictionKeeps ==
  ASSUME IndInv, NEW kept \in AfterEviction
  PROVE  /\ DOMAIN kept \subseteq DOMAIN entries
         /\ \A i \in DOMAIN kept : kept[i] = entries[i]
         /\ IsFiniteSet(DOMAIN entries)
         /\ IsFiniteSet(DOMAIN kept)
         /\ Cardinality(DOMAIN kept) + 1 <= MaxSize
         /\ \A k \in DOMAIN entries \ DOMAIN kept :
               /\ Cardinality(DOMAIN entries) >= MaxSize
               /\ k \in Oldest(entries)
               /\ DOMAIN kept = DOMAIN entries \ {k}
  <1>1. IsFiniteSet(DOMAIN entries)
    BY SizeAssumption, FS_Subset DEF IndInv, TypeOK
  <1>2. Cardinality(DOMAIN entries) \in Nat
    BY <1>1, FS_CardinalityType
  <1>3. Cardinality(DOMAIN entries) <= MaxSize
    BY DEF IndInv, Capacity
  <1>4. CASE Cardinality(DOMAIN entries) >= MaxSize
    <2>1. PICK k \in Oldest(entries) :
             kept = Restrict(entries, DOMAIN entries \ {k})
      BY <1>4 DEF AfterEviction
    <2>2. k \in DOMAIN entries
      BY DEF Oldest
    <2>3. DOMAIN kept = DOMAIN entries \ {k}
      BY <2>1 DEF Restrict
    <2>4. /\ IsFiniteSet(DOMAIN kept)
          /\ Cardinality(DOMAIN kept) = Cardinality(DOMAIN entries) - 1
      BY <1>1, <2>2, <2>3, FS_RemoveElement
    <2>5. Cardinality(DOMAIN kept) + 1 <= MaxSize
      BY <1>2, <1>3, <2>4, SizeAssumption
    <2>6. \A i \in DOMAIN kept : kept[i] = entries[i]
      BY <2>1 DEF Restrict
    <2> QED
      BY <1>1, <1>4, <2>3, <2>4, <2>5, <2>6
  <1>5. CASE ~(Cardinality(DOMAIN entries) >= MaxSize)
    <2>1. kept = entries
      BY <1>5 DEF AfterEviction
    <2> QED
      BY <1>1, <1>2, <1>5, <2>1, SizeAssumption
  <1> QED
    BY <1>4, <1>5

\* Recording a new id preserves the invariant.  The delicate part is the entry
\* that is evicted while still in its window: the others are all newer, and so
\* is the id that pushes it out.
LEMMA SeeNewPreserves ==
  ASSUME IndInv, NEW id \in Ids, SeeNew(id)
  PROVE  IndInv'
  <1> PICK kept \in AfterEviction : entries' = Record(kept, id)
    BY DEF SeeNew
  <1> USE DEF IndInv
  <1>1. /\ now' = now
        /\ accepted' = [accepted EXCEPT ![id] = now]
        /\ id \in DOMAIN entries => now - entries[id] >= Window
    BY DEF SeeNew, Expired
  <1>2. /\ DOMAIN entries' = DOMAIN kept \cup {id}
        /\ entries'[id] = now
        /\ \A i \in DOMAIN kept \ {id} : entries'[i] = entries[i]
    BY EvictionKeeps DEF Record
  <1>3. TypeOK'
    <2>1. DOMAIN entries' \subseteq Ids
      BY <1>2, EvictionKeeps DEF TypeOK
    <2>2. \A i \in DOMAIN entries' : entries'[i] \in Nat
      BY <1>2, EvictionKeeps DEF TypeOK
    <2>3. entries' \in [DOMAIN entries' -> Nat]
      BY <2>2 DEF Record
    <2> QED
      BY <1>1, <2>1, <2>3 DEF TypeOK
  <1>4. Capacity'
    <2>1. IsFiniteSet(DOMAIN kept) /\ Cardinality(DOMAIN kept) \in Nat
      BY EvictionKeeps, FS_CardinalityType
    <2>2. Cardinality(DOMAIN kept \cup {id}) =
             IF id \in DOMAIN kept THEN Cardinality(DOMAIN kept)
             ELSE Cardinality(DOMAIN kept) + 1
      BY <2>1, FS_AddElement
    <2>3. Cardinality(DOMAIN kept) + 1 <= MaxSize
      BY EvictionKeeps
    <2> QED
      BY <1>2, <2>1, <2>2, <2>3, SizeAssumption DEF Capacity
  <1>5. EntriesAccepted'
    BY <1>1, <1>2, EvictionKeeps DEF EntriesAccepted, TypeOK
  <1>6. \A j \in Ids : (accepted[j] <= now)'
    BY <1>1 DEF TypeOK
  <1>7. Remembered'
    <2> SUFFICES ASSUME NEW j \in Ids, InWindow(j)', j # id,
                        ~(j \in DOMAIN entries' /\ entries'[j] = accepted'[j])
                 PROVE  Cardinality(Newer(j)') >= MaxSize
      BY <1>1, <1>2 DEF Remembered, TypeOK
    <2>1. accepted'[j] = accepted[j] /\ InWindow(j)
      BY <1>1 DEF TypeOK, InWindow
    <2>2. CASE j \in DOMAIN entries
      <3>1. j \notin DOMAIN kept /\ entries[j] = accepted[j]
        BY <1>2, <2>1, <2>2 DEF EntriesAccepted
      <3>2. /\ Cardinality(DOMAIN entries) >= MaxSize
            /\ \A i \in DOMAIN entries : entries[j] <= entries[i]
            /\ DOMAIN kept = DOMAIN entries \ {j}
        BY <2>2, <3>1, EvictionKeeps DEF Oldest
      <3>3. id \notin DOMAIN entries
        BY <1>1, <2>1, <2>2, <3>1, <3>2, TimeAssumption DEF InWindow, TypeOK
      <3>4. DOMAIN entries' \subseteq Newer(j)'
        BY <1>1, <1>2, <2>2, <3>1, <3>2 DEF Newer, EntriesAccepted, TypeOK
      <3>5. Cardinality(DOMAIN entries') = Cardinality(DOMAIN entries)
        <4>1. /\ IsFiniteSet(DOMAIN kept)
              /\ Cardinality(DOMAIN kept) = Cardinality(DOMAIN entries) - 1
          BY <2>2, <3>2, EvictionKeeps, FS_RemoveElement
        <4>2. Cardinality(DOMAIN kept \cup {id}) = Cardinality(DOMAIN kept) + 1
          BY <3>2, <3>3, <4>1, FS_AddElement
        <4>3. Cardinality(DOMAIN entries) \in Nat
          BY EvictionKeeps, FS_CardinalityType
        <4> QED
          BY <1>2, <4>1, <4>2, <4>3
      <3>6. IsFiniteSet(Newer(j)')
        BY SizeAssumption, FS_Subset DEF Newer
      <3>7. /\ Cardinality(DOMAIN entries') <= Cardinality(Newer(j)')
            /\ Cardinality(DOMAIN entries') \in Nat
            /\ Cardinality(Newer(j)') \in Nat
        BY <3>4, <3>6, FS_Subset, FS_CardinalityType
      <3> QED
        BY <3>2, <3>5, <3>7, SizeAssumption
    <2>3. CASE j \notin DOMAIN entries
      <3>1. Cardinality(Newer(j)) >= MaxSize
        BY <2>1, <2>3 DEF Remembered
      <3>2. /\ IsFiniteSet(Newer(j)')
            /\ Cardinality(Newer(j)') >= Cardinality(Newer(j))
        BY <1>1, NewerGrows
      <3>3. IsFiniteSet(Newer(j))
        BY SizeAssumption, FS_Subset DEF Newer
      <3>4. Cardinality(Newer(j)) \in Nat /\ Cardinality(Newer(j)') \in Nat
        BY <3>2, <3>3, FS_CardinalityType
      <3> QED
        BY <3>1, <3>2, <3>4, SizeAssumption
    <2> QED
      BY <2>2, <2>3
  <1> QED
    BY <1>3, <1>4, <1>5, <1>6, <1>7

\* The cleanup drops expired entries only, and the clock only makes ids leave
\* their window.
LEMMA OthersPreserve ==
  ASSUME IndInv, Cleanup \/ Tick \/ UNCHANGED vars
  PROVE  IndInv'
  <1> USE DEF IndInv
  <1>1. CASE Cleanup
    <2>1. /\ UNCHANGED <<now, accepted>>
          /\ DOMAIN entries' = {i \in DOMAIN entries : now - entries[i] < Window}
          /\ entries' = [i \in DOMAIN entries' |-> entries[i]]
      BY <1>1, TimeAssumption DEF Cleanup, Restrict, Expired, TypeOK
    <2>2. TypeOK' /\ EntriesAccepted'
      BY <2>1 DEF TypeOK, EntriesAccepted
    <2>3. IsFiniteSet(DOMAIN entries)
      BY SizeAssumption, FS_Subset DEF TypeOK
    <2>4. /\ Cardinality(DOMAIN entries') <= Cardinality(DOMAIN entries)
          /\ Cardinality(DOMAIN entries') \in Nat
          /\ Cardinality(DOMAIN entries) \in Nat
      BY <2>1, <2>3, FS_Subset, FS_CardinalityType
    <2>5. Capacity'
      BY <2>4, SizeAssumption DEF Capacity
    <2>6. \A id \in Ids : /\ InWindow(id)' = InWindow(id)
                          /\ Newer(id)' = Newer(id)
      BY <2>1 DEF InWindow, Newer
    <2>7. Remembered'
      BY <2>1, <2>6 DEF Remembered, EntriesAccepted, InWindow
    <2> QED
      BY <2>1, <2>2, <2>5, <2>7
  <1>2. CASE Tick
    <2>1. UNCHANGED <<entries, accepted>> /\ now' = now + 1
      BY <1>2 DEF Tick
    <2>2. TypeOK' /\ Capacity' /\ EntriesAccepted'
      BY <2>1 DEF TypeOK, Capacity, EntriesAccepted
    <2>3. \A id \in Ids : /\ InWindow(id)' => InWindow(id)
                          /\ Newer(id)' = Newer(id)
                          /\ accepted'[id] <= now'
      BY <2>1, TimeAssumption DEF InWindow, Newer, TypeOK
    <2>4. Remembered'
      BY <2>1, <2>3 DEF Remembered
    <2> QED
      BY <2>2, <2>3, <2>4
  <1>3. CASE UNCHANGED vars
    BY <1>3 DEF vars, TypeOK, Capacity, EntriesAccepted, Remembered,
                InWindow, Newer
  <1> QED
    BY <1>1, <1>2, <1>3

\* Every step of the store preserves the invariant.
LEMMA NextPreserves == IndInv /\ [Next]_vars => IndInv'
  <1> SUFFICES ASSUME IndInv, [Next]_vars PROVE IndInv'
    OBVIOUS
  <1>1. CASE \E id \in Ids : SeeNew(id)
    BY <1>1, SeeNewPreserves
  <1>2. CASE \E id \in Ids : SeeOld(id)
    BY <1>2, OthersPreserve DEF SeeOld
  <1>3. CASE Cleanup \/ Tick \/ UNCHANGED vars
    BY <1>3, OthersPreserve
  <1> QED
    BY <1>1, <1>2, <1>3 DEF Next, See

\* The invariant holds in every reachable state.
THEOREM Invariance == Spec => []IndInv
  <1> QED
    BY InitEstablishes, NextPreserves, PTL DEF Spec

\* Type correctness of the deduplication store.
THEOREM TypeCorrect == Spec => []TypeOK
  <1>1. IndInv => TypeOK
    BY DEF IndInv
  <1> QED
    BY <1>1, Invariance, PTL

\* SeenMessages.entries never outgrows maxSize, whatever arrives when.
THEOREM CapacityHolds == Spec => []Capacity
  <1>1. IndInv => Capacity
    BY DEF IndInv
  <1> QED
    BY <1>1, Invariance, PTL

\* An id accepted within the window is on record, or maxSize others came since.
THEOREM RememberedHolds == Spec => []Remembered
  <1>1. IndInv => Remembered
    BY DEF IndInv
  <1> QED
    BY <1>1, Invariance, PTL

\* See does not answer true for an id again within its window, unless maxSize
\* other ids were accepted in between.
THEOREM NoEarlyRepeatHolds == Spec => NoEarlyRepeat
  <1> DEFINE Fine == \A id \in Ids :
               SeeNew(id) /\ InWindow(id) => Cardinality(Newer(id)) >= MaxSize
  <1>1. IndInv => Fine
    <2> SUFFICES ASSUME IndInv, NEW id \in Ids, SeeNew(id), InWindow(id)
                 PROVE  Cardinality(Newer(id)) >= MaxSize
      OBVIOUS
    <2>1. id \in DOMAIN entries => now - entries[id] >= Window
      BY DEF SeeNew, Expired
    <2>2. ~(id \in DOMAIN entries /\ entries[id] = accepted[id])
      BY <2>1, TimeAssumption DEF InWindow, IndInv, TypeOK
    <2> QED
      BY <2>2 DEF IndInv, Remembered
  <1>2. IndInv => [Fine]_vars
    BY <1>1
  <1>3. Spec => [][Fine]_vars
    BY <1>2, Invariance, PTL
  <1> QED
    BY <1>3 DEF NoEarlyRepeat
=============================================================================
