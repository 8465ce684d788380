----------------------------- MODULE SendProofs -----------------------------
(***************************************************************************)
(* Proofs about the two halves of operations.SendFile, which share no      *)
(* state: StoreCommand, the file in the store and its replicas, for every  *)
(* finite set of peers, every set of replication factors and every size of *)
(* the content; and Delivery, the connection to the peer, for every list   *)
(* of addresses and every network.                                         *)
(***************************************************************************)
EXTENDS StoreCommand, Delivery, FiniteSetTheorems, TLAPS

(* The file that several calls of store.Write leave on disk *)

\* Every frame is the one the content has there or none, and the last frame is
\* one: a gap is always before a frame that was written.
Good(f) ==
    /\ \A i \in 1..Frames : f.at[i] \in {0, FrameUnits(i)}
    /\ f.n > 0 => f.at[f.n] = FrameUnits(f.n)

\* The first k frames are those of the content.
HasFrames(f, k) == k <= f.n /\ \A i \in 1..k : f.at[i] = FrameUnits(i)

\* The number of frames, and the size of the last one, by the size.
LEMMA FramesFacts ==
  /\ Frames \in Nat
  /\ 2 * Frames = Size \/ 2 * Frames = Size + 1
  /\ \A i \in 1..Frames : FrameUnits(i) \in {1, 2}
  /\ \A i \in 1..Frames : FrameUnits(i) = 1 => i = Frames /\ Size = 2 * Frames - 1
  /\ \A i \in Nat : i > 0 /\ 2 * i <= Size => i \in 1..Frames /\ FrameUnits(i) = 2
  BY SizeAssumption DEF Frames, FrameUnits

\* A file on which a frame was written is a file.
LEMMA WriteChunkType ==
  ASSUME NEW f \in Files, NEW i \in 1..Frames, NEW units \in {1, 2},
         units <= FrameUnits(i)
  PROVE  WriteChunk(f, i, units) \in Files
  <1>1. /\ f.n \in 0..Frames /\ f.at \in [1..Frames -> 0..2]
        /\ \A k \in 1..Frames : f.at[k] <= FrameUnits(k)
    BY DEF Files
  <1> DEFINE g == WriteChunk(f, i, units)
             v == IF units = 2 \/ i > f.n \/ f.at[i] = units THEN units ELSE 0
  <1>2. g = [n |-> IF i > f.n THEN i ELSE f.n, at |-> [f.at EXCEPT ![i] = v]]
    BY DEF WriteChunk
  <1>3. g.n \in 0..Frames
    BY <1>1, <1>2, FramesFacts
  <1>4. v \in 0..2 /\ v <= FrameUnits(i)
    BY FramesFacts
  <1> HIDE DEF v
  <1>5. /\ g.at \in [1..Frames -> 0..2]
        /\ \A k \in 1..Frames : g.at[k] <= FrameUnits(k)
    BY <1>1, <1>2, <1>4
  <1> HIDE DEF g
  <1>6. g = [n |-> g.n, at |-> g.at]
    BY <1>2
  <1>7. g \in Files
    BY <1>3, <1>5, <1>6 DEF Files
  <1> QED
    BY <1>7 DEF g

\* Writing the content's own frame i keeps a good file good, keeps the frames
\* that were there and adds frame i.
LEMMA WriteChunkGood ==
  ASSUME NEW f \in Files, Good(f), NEW i \in 1..Frames
  PROVE  LET g == WriteChunk(f, i, FrameUnits(i)) IN
         /\ Good(g)
         /\ \A k \in 0..Frames : HasFrames(f, k) => HasFrames(g, k)
         /\ HasFrames(f, i - 1) => HasFrames(g, i)
  <1> DEFINE g == WriteChunk(f, i, FrameUnits(i))
  <1>1. /\ f.n \in 0..Frames /\ f.at \in [1..Frames -> 0..2]
        /\ Frames \in Nat /\ FrameUnits(i) \in {1, 2}
    BY FramesFacts DEF Files
  <1>2. FrameUnits(i) = 2 \/ i > f.n \/ f.at[i] = FrameUnits(i)
    <2>1. CASE FrameUnits(i) = 1 /\ i <= f.n
      <3>1. i = f.n /\ f.n > 0
        BY <1>1, <2>1, FramesFacts
      <3> QED
        BY <3>1 DEF Good
    <2> QED
      BY <1>1, <2>1
  <1>3. g = [n |-> IF i > f.n THEN i ELSE f.n,
             at |-> [f.at EXCEPT ![i] = FrameUnits(i)]]
    BY <1>2 DEF WriteChunk
  <1>4. /\ g.n = IF i > f.n THEN i ELSE f.n
        /\ g.at[i] = FrameUnits(i)
        /\ \A k \in 1..Frames : k # i => g.at[k] = f.at[k]
    BY <1>1, <1>3
  <1> HIDE DEF g
  <1>5. Good(g)
    BY <1>1, <1>4 DEF Good
  <1>6. \A k \in 0..Frames : HasFrames(f, k) => HasFrames(g, k)
    BY <1>1, <1>4 DEF HasFrames
  <1>7. HasFrames(f, i - 1) => HasFrames(g, i)
    BY <1>1, <1>4 DEF HasFrames
  <1> QED
    BY <1>5, <1>6, <1>7 DEF g

\* The copy loop on a file, got being the number of units it has read.
LEMMA WriteUnitFile ==
  ASSUME NEW f \in Files, NEW got1 \in 0..Size, got1 + 1 <= Size
  PROVE  LET g == WriteUnit(f, got1 + 1) IN
         /\ g \in Files
         /\ Good(f) =>
              /\ Good(g)
              /\ \A k \in 0..Frames : HasFrames(f, k) => HasFrames(g, k)
              /\ HasFrames(f, got1 \div 2) => HasFrames(g, (got1 + 1) \div 2)
  <1> DEFINE i == (got1 + 1) \div 2
  <1>1. got1 \in Nat /\ Size \in Nat
    BY SizeAssumption
  <1>2. CASE (got1 + 1) % 2 = 0
    <2>1. i \in Nat /\ i > 0 /\ 2 * i <= Size /\ got1 \div 2 = i - 1
      BY <1>1, <1>2
    <2>2. i \in 1..Frames /\ FrameUnits(i) = 2
      BY <2>1, FramesFacts
    <2>3. WriteUnit(f, got1 + 1) = WriteChunk(f, i, FrameUnits(i))
      BY <1>2, <2>2 DEF WriteUnit
    <2> HIDE DEF i
    <2>4. WriteChunk(f, i, FrameUnits(i)) \in Files
      BY <2>2, WriteChunkType
    <2> QED
      BY <2>1, <2>2, <2>3, <2>4, WriteChunkGood DEF i
  <1>3. CASE (got1 + 1) % 2 # 0
    <2>1. WriteUnit(f, got1 + 1) = f
      BY <1>3 DEF WriteUnit
    <2>2. (got1 + 1) \div 2 = got1 \div 2
      BY <1>1, <1>3
    <2> QED
      BY <2>1, <2>2
  <1> QED
    BY <1>2, <1>3

\* Close on a file after got1 units.  When these are the whole content, or when
\* nothing is left in the buffer, a good file stays good.
LEMMA CloseWriterFile ==
  ASSUME NEW f \in Files, NEW got1 \in 0..Size
  PROVE  LET g == CloseWriter(f, got1) IN
         /\ g \in Files
         /\ Good(f) /\ (got1 = Size \/ got1 % 2 # 1) =>
              /\ Good(g)
              /\ \A k \in 0..Frames : HasFrames(f, k) => HasFrames(g, k)
              /\ got1 = Size /\ HasFrames(f, got1 \div 2) => HasFrames(g, Frames)
  <1> DEFINE i == (got1 + 1) \div 2
  <1>1. got1 \in Nat /\ Size \in Nat
    BY SizeAssumption
  <1>2. CASE got1 % 2 = 1
    <2>1. i \in 1..Frames /\ got1 \div 2 = i - 1
      BY <1>1, <1>2 DEF Frames
    <2>2. CloseWriter(f, got1) = WriteChunk(f, i, 1)
      BY <1>2 DEF CloseWriter
    <2>3. got1 = Size => i = Frames /\ FrameUnits(i) = 1
      BY <1>1, <1>2 DEF Frames, FrameUnits
    <2> HIDE DEF i
    <2>4. WriteChunk(f, i, 1) \in Files
      BY <2>1, WriteChunkType, FramesFacts
    <2>5. ASSUME Good(f), got1 = Size
          PROVE  LET g == WriteChunk(f, i, 1) IN
                 /\ Good(g)
                 /\ \A k \in 0..Frames : HasFrames(f, k) => HasFrames(g, k)
                 /\ HasFrames(f, got1 \div 2) => HasFrames(g, Frames)
      BY <2>1, <2>3, <2>5, WriteChunkGood
    <2> QED
      BY <1>2, <2>2, <2>4, <2>5
  <1>3. CASE got1 % 2 # 1
    <2>1. CloseWriter(f, got1) = f
      BY <1>3 DEF CloseWriter
    <2>2. got1 = Size => got1 \div 2 = Frames
      BY <1>1, <1>3 DEF Frames
    <2> QED
      BY <2>1, <2>2
  <1> QED
    BY <1>2, <1>3

\* The file that os.Create leaves is a good file.
LEMMA EmptyFileGood == EmptyFile \in Files /\ Good(EmptyFile)
  BY FramesFacts DEF EmptyFile, Files, Good

\* A file that has all frames is whole.
LEMMA AllFramesWhole ==
  ASSUME NEW f \in Files
  PROVE  HasFrames(f, Frames) <=> Whole(f)
  BY FramesFacts DEF Files, HasFrames, Whole

-----------------------------------------------------------------------------
(* The invariant *)

\* While no write is cut only frames of the content are written, and whoever
\* created the file last has all that it has read there: its file is whole, or
\* it is writing still.
DiskInv ==
    /\ step \in {"peers", "list", "network"} \/ Writing # {} => has
    /\ ~cut =>
        /\ Good(disk)
        /\ has => Whole(disk) \/ \E w \in Writing : HasFrames(disk, got[w] \div 2)

\* A peer is counted once for each turn of the loop at most, and the loop makes
\* no more turns than replicas were asked for.
LoopInv ==
    /\ step \in {"check", "open", "writing", "peers", "list"} => stored = {} /\ j = 1
    /\ Cardinality(stored) <= j - 1
    /\ j - 1 <= factor

\* A result is that of a call that has returned.
ResultInv ==
    /\ step # "idle" => result = "none"
    /\ result = "error" => stored = {}
    /\ result = "ok" => has

IndInv == TypeOK /\ DiskInv /\ LoopInv /\ ResultInv

\* The peers that can be counted are finitely many.
LEMMA StoredFinite ==
  ASSUME TypeOK
  PROVE  /\ IsFiniteSet(stored) /\ Cardinality(stored) \in Nat
         /\ factor \in Nat /\ Len(list) \in Nat /\ j \in Nat
  <1>1. IsFiniteSet(stored)
    BY StoreAssumption, FS_Subset DEF TypeOK
  <1> QED
    BY <1>1, FS_CardinalityType, StoreAssumption DEF TypeOK

\* Who is writing, by the step of StoreFile and those of the others.
LEMMA WritingFacts ==
  /\ Self \in Writing <=> step = "writing"
  /\ \A w \in Others : w \in Writing <=> other[w] = "writing"
  /\ Writing \subseteq Writers
  BY StoreAssumption DEF Writing, Writers

LEMMA InitEstablishes == Init => IndInv
  <1> SUFFICES ASSUME Init PROVE IndInv
    OBVIOUS
  <1> USE DEF Init
  <1>1. disk \in Files /\ Good(disk)
    BY EmptyFileGood
  <1>2. Cardinality(stored) = 0 /\ Cardinality(Peers) \in Nat
    BY FS_EmptySet, FS_CardinalityType, StoreAssumption
  <1>3. list \in Seq(Peers) /\ Len(list) = 0
    OBVIOUS
  <1>4. TypeOK
    <2>1. j \in 1..(Len(list) + 1) /\ Len(list) <= Cardinality(Peers)
      BY <1>2, <1>3
    <2>2. connected \subseteq Peers /\ stored \subseteq Peers /\ has \in BOOLEAN /\ cut \in BOOLEAN
      OBVIOUS
    <2>3. got \in [Writers -> 0..Size] /\ other \in [Others -> {"idle", "open", "writing", "ended"}]
      BY SizeAssumption
    <2> QED
      BY <1>1, <1>3, <2>1, <2>2, <2>3 DEF TypeOK
  <1>5. LoopInv
    BY <1>2, <1>4, StoredFinite DEF LoopInv
  <1>6. Writing = {}
    BY DEF Writing
  <1> QED
    BY <1>1, <1>4, <1>5, <1>6 DEF IndInv, DiskInv, ResultInv

-----------------------------------------------------------------------------
(* The steps of store.Write, whoever takes them *)

\* A writer that creates the file has written all that it has read: nothing.
LEMMA CreateKeeps ==
  ASSUME TypeOK, DiskInv, NEW w \in Writers, Create(w), w \in Writing', UNCHANGED cut
  PROVE  disk' \in Files /\ got' \in [Writers -> 0..Size] /\ DiskInv'
  <1>1. has' /\ disk' = EmptyFile /\ got' = [got EXCEPT ![w] = 0]
    BY DEF Create
  <1>2. got' \in [Writers -> 0..Size] /\ got'[w] = 0
    BY <1>1, SizeAssumption DEF TypeOK
  <1>3. HasFrames(disk', got'[w] \div 2)
    <2>1. EmptyFile.n = 0 /\ 0 \div 2 = 0
      BY DEF EmptyFile
    <2> QED
      BY <1>1, <1>2, <2>1 DEF HasFrames
  <1> QED
    BY <1>1, <1>2, <1>3, EmptyFileGood DEF DiskInv

\* A writer that copies one more unit spoils no frame, of its own or of others.
LEMMA CopyKeeps ==
  ASSUME TypeOK, DiskInv, NEW w \in Writers, Copy(w), UNCHANGED <<has, step, other, cut>>
  PROVE  disk' \in Files /\ got' \in [Writers -> 0..Size] /\ DiskInv'
  <1>1. /\ got[w] \in 0..Size /\ got[w] + 1 <= Size /\ got' = [got EXCEPT ![w] = got[w] + 1]
        /\ disk' = WriteUnit(disk, got[w] + 1)
    BY SizeAssumption DEF Copy, TypeOK
  <1>2. /\ disk' \in Files
        /\ Good(disk) =>
             /\ Good(disk')
             /\ \A k \in 0..Frames : HasFrames(disk, k) => HasFrames(disk', k)
             /\ HasFrames(disk, got[w] \div 2) => HasFrames(disk', (got[w] + 1) \div 2)
    BY <1>1, WriteUnitFile DEF TypeOK
  <1>3. got' \in [Writers -> 0..Size]
    BY <1>1, SizeAssumption DEF TypeOK
  <1>4. Writing' = Writing
    BY DEF Writing
  <1>5. ASSUME ~cut, has, Whole(disk)
        PROVE  Whole(disk')
    BY <1>2, <1>5, AllFramesWhole, FramesFacts DEF DiskInv, TypeOK
  <1>6. ASSUME ~cut, NEW v \in Writing, HasFrames(disk, got[v] \div 2)
        PROVE  HasFrames(disk', got'[v] \div 2)
    <2>1. v \in Writers
      BY WritingFacts
    <2>2. CASE v = w
      BY <1>1, <1>2, <1>6, <2>2 DEF DiskInv, TypeOK
    <2>3. CASE v # w
      <3>1. got'[v] = got[v] /\ got[v] \in 0..Size
        BY <1>1, <2>1, <2>3 DEF TypeOK
      <3>2. got[v] \div 2 \in 0..Frames
        BY <3>1, SizeAssumption DEF Frames
      <3> QED
        BY <1>2, <1>6, <3>1, <3>2 DEF DiskInv
    <2> QED
      BY <2>2, <2>3
  <1> QED
    BY <1>2, <1>3, <1>4, <1>5, <1>6 DEF DiskInv

\* A writer that closes with all of the content leaves the file whole, if it was
\* the one that created it last, and otherwise as good as it was.
LEMMA CloseKeeps ==
  ASSUME TypeOK, DiskInv, NEW w \in Writing, disk' = CloseWriter(disk, got[w]),
         UNCHANGED <<has, got>>, has,
         \A v \in Writing : v # w => v \in Writing',
         ~cut' => ~cut /\ got[w] = Size
  PROVE  disk' \in Files /\ DiskInv'
  <1>1. got[w] \in 0..Size
    BY WritingFacts DEF TypeOK
  <1>2. /\ disk' \in Files
        /\ Good(disk) /\ got[w] = Size =>
             /\ Good(disk')
             /\ \A k \in 0..Frames : HasFrames(disk, k) => HasFrames(disk', k)
             /\ HasFrames(disk, got[w] \div 2) => HasFrames(disk', Frames)
    BY <1>1, CloseWriterFile DEF TypeOK
  <1>3. ASSUME ~cut'
        PROVE  Good(disk') /\ (Whole(disk') \/ \E v \in Writing' : HasFrames(disk', got'[v] \div 2))
    <2>1. ~cut /\ got[w] = Size /\ Good(disk)
      BY <1>3 DEF DiskInv
    <2>2. CASE Whole(disk)
      BY <1>2, <2>1, <2>2, AllFramesWhole, FramesFacts DEF TypeOK
    <2>3. ASSUME NEW v \in Writing, HasFrames(disk, got[v] \div 2)
          PROVE  Whole(disk') \/ (HasFrames(disk', got'[v] \div 2) /\ v \in Writing')
      <3>1. CASE v = w
        BY <1>2, <2>1, <2>3, <3>1, AllFramesWhole
      <3>2. CASE v # w
        <4>1. got[v] \in 0..Size
          BY WritingFacts DEF TypeOK
        <4>2. got[v] \div 2 \in 0..Frames
          BY <4>1, SizeAssumption DEF Frames
        <4> QED
          BY <1>2, <2>1, <2>3, <3>2, <4>2
      <3> QED
        BY <3>1, <3>2
    <2> QED
      BY <1>2, <2>1, <2>2, <2>3 DEF DiskInv
  <1> QED
    BY <1>2, <1>3 DEF DiskInv

\* A step that leaves the file alone keeps its invariant, if those who stop
\* writing have their write cut.
LEMMA DiskInvKept ==
  ASSUME DiskInv, UNCHANGED <<has, disk, got>>, cut => cut',
         Writing' \subseteq Writing, cut' \/ Writing \subseteq Writing',
         step' \in {"peers", "list", "network"} => has
  PROVE  DiskInv'
  <1>1. CASE cut'
    BY <1>1 DEF DiskInv
  <1>2. CASE ~cut'
    <2>1. ~cut /\ Writing' = Writing
      BY <1>2
    <2> QED
      BY <1>2, <2>1 DEF DiskInv
  <1> QED
    BY <1>1, <1>2

-----------------------------------------------------------------------------
(* The steps of the calls and of the other writers *)

\* The local half of StoreFile.
LEMMA LocalPreserves ==
  ASSUME IndInv, Begin \/ FindLocal \/ CreateLocal \/ WriteLocal \/ CloseLocal
  PROVE  IndInv'
  <1> USE DEF IndInv, callVars
  <1>s. Self \in Writers
    BY DEF Writers
  <1>1. CASE Begin
    <2>1. TypeOK'
      BY <1>1, FS_CardinalityType, StoreAssumption DEF TypeOK, Begin
    <2>2. LoopInv'
      BY <1>1, <2>1, FS_EmptySet, StoreAssumption DEF LoopInv, Begin, TypeOK
    <2>3. DiskInv'
      <3>1. Writing' = Writing
        BY <1>1 DEF Begin, Writing
      <3> QED
        BY <1>1, <3>1, DiskInvKept DEF Begin
    <2> QED
      BY <1>1, <2>1, <2>2, <2>3 DEF Begin, ResultInv
  <1>2. CASE FindLocal
    <2>1. DiskInv'
      <3>1. Writing' = Writing
        BY <1>2 DEF FindLocal, Writing
      <3> QED
        BY <1>2, <3>1, DiskInvKept DEF FindLocal
    <2> QED
      BY <1>2, <2>1 DEF FindLocal, TypeOK, LoopInv, ResultInv
  <1>3. CASE CreateLocal
    <2>1. Self \in Writing'
      BY <1>3 DEF CreateLocal, Writing
    <2>2. disk' \in Files /\ got' \in [Writers -> 0..Size] /\ DiskInv'
      BY <1>3, <1>s, <2>1, CreateKeeps DEF CreateLocal
    <2> QED
      BY <1>3, <2>2 DEF CreateLocal, Create, TypeOK, LoopInv, ResultInv
  <1>4. CASE WriteLocal
    <2>1. disk' \in Files /\ got' \in [Writers -> 0..Size] /\ DiskInv'
      BY <1>4, <1>s, CopyKeeps DEF WriteLocal
    <2> QED
      BY <1>4, <2>1 DEF WriteLocal, TypeOK, LoopInv, ResultInv
  <1>5. CASE CloseLocal
    <2>1. Self \in Writing /\ got[Self] = Size
      BY <1>5 DEF CloseLocal, Writing
    <2>2. \A v \in Writing : v # Self => v \in Writing'
      BY <1>5 DEF CloseLocal, Writing
    <2>3. has /\ UNCHANGED cut
      BY <1>5, <2>1 DEF CloseLocal, DiskInv
    <2>4. disk' \in Files /\ DiskInv'
      BY <1>5, <2>1, <2>2, <2>3, CloseKeeps DEF CloseLocal, TypeOK
    <2> QED
      BY <1>5, <2>4 DEF CloseLocal, TypeOK, LoopInv, ResultInv
  <1> QED
    BY <1>1, <1>2, <1>3, <1>4, <1>5

\* What ends a call early, and the first look at the peers.
LEMMA EndPreserves ==
  ASSUME IndInv, OpenFails \/ WriteLocalFails \/ Killed \/ NoPeers \/ SomePeers \/ PeersGone
  PROVE  IndInv'
  <1> USE DEF IndInv, callVars
  <1>1. CASE OpenFails \/ NoPeers \/ PeersGone \/ SomePeers
    <2>1. Writing' = Writing
      BY <1>1 DEF OpenFails, NoPeers, PeersGone, SomePeers, Return, Writing
    <2>2. DiskInv'
      BY <1>1, <2>1, DiskInvKept DEF OpenFails, NoPeers, PeersGone, SomePeers, Return, DiskInv
    <2> QED
      BY <1>1, <2>2
      DEF OpenFails, NoPeers, PeersGone, SomePeers, Return, TypeOK, DiskInv, LoopInv, ResultInv
  <1>2. CASE WriteLocalFails
    <2>1. Writing' \subseteq Writing
      BY <1>2 DEF WriteLocalFails, Return, Writing
    <2>2. DiskInv'
      BY <1>2, <2>1, DiskInvKept DEF WriteLocalFails, Return
    <2> QED
      BY <1>2, <2>2 DEF WriteLocalFails, Return, TypeOK, LoopInv, ResultInv
  <1>3. CASE Killed
    <2>1. other' \in [Others -> {"idle", "open", "writing", "ended"}]
      BY <1>3 DEF Killed, TypeOK
    <2>2. Writing' \subseteq Writing
      BY <1>3 DEF Killed, Writing
    <2>3. cut' \/ Writing \subseteq Writing'
      <3>1. ASSUME Writing \subseteq Processes
            PROVE  Writing \subseteq Writing'
        BY <1>3, <3>1, StoreAssumption DEF Killed, Writing, Others
      <3> QED
        BY <1>3, <3>1 DEF Killed
    <2>4. DiskInv'
      BY <1>3, <2>2, <2>3, DiskInvKept DEF Killed
    <2> QED
      BY <1>3, <2>1, <2>4 DEF Killed, TypeOK, LoopInv, ResultInv
  <1> QED
    BY <1>1, <1>2, <1>3

\* The streams that the node receives, and other processes.
LEMMA OthersPreserve ==
  ASSUME IndInv, NEW w \in Others,
         OtherBegins(w) \/ OtherCreates(w) \/ OtherWrites(w) \/ OtherCloses(w) \/ OtherFails(w)
  PROVE  IndInv'
  <1> USE DEF IndInv, callVars
  <1>1. w \in Writers /\ other \in [Others -> {"idle", "open", "writing", "ended"}]
    BY DEF Writers, TypeOK
  <1>2. UNCHANGED <<connected, step, factor, list, j, stored, result>>
    BY DEF OtherBegins, OtherCreates, OtherWrites, OtherCloses, OtherFails
  <1>3. LoopInv' /\ (has => has') /\ has' \in BOOLEAN /\ cut' \in BOOLEAN
    BY <1>2 DEF OtherBegins, OtherCreates, OtherWrites, OtherCloses, OtherFails,
           Create, Copy, LoopInv, TypeOK
  <1>4. ResultInv'
    BY <1>2, <1>3 DEF ResultInv
  <1>5. other' \in [Others -> {"idle", "open", "writing", "ended"}]
    BY <1>1 DEF OtherBegins, OtherCreates, OtherWrites, OtherCloses, OtherFails
  <1>6. disk' \in Files /\ got' \in [Writers -> 0..Size] /\ DiskInv'
    <2>1. CASE OtherBegins(w)
      <3>1. Writing' = Writing
        BY <1>1, <2>1 DEF OtherBegins, Writing
      <3> QED
        BY <2>1, <3>1, DiskInvKept DEF OtherBegins, TypeOK, DiskInv
    <2>2. CASE OtherCreates(w)
      <3>1. w \in Writing'
        BY <1>1, <2>2 DEF OtherCreates, Writing
      <3> QED
        BY <1>1, <2>2, <3>1, CreateKeeps DEF OtherCreates
    <2>3. CASE OtherWrites(w)
      BY <1>1, <2>3, CopyKeeps DEF OtherWrites
    <2>4. CASE OtherCloses(w)
      <3>1. w \in Writing
        BY <2>4 DEF OtherCloses, Writing
      <3>2. \A v \in Writing : v # w => v \in Writing'
        BY <1>1, <2>4 DEF OtherCloses, Writing
      <3>3. has
        BY <3>1 DEF DiskInv
      <3>4. ~cut' => ~cut /\ got[w] = Size
        <4>1. cut' = (cut \/ got[w] < Size)
          BY <2>4 DEF OtherCloses
        <4>2. ~(got[w] < Size) => got[w] = Size
          BY <1>1, SizeAssumption DEF TypeOK
        <4> QED
          BY <4>1, <4>2
      <3> QED
        BY <2>4, <3>1, <3>2, <3>3, <3>4, CloseKeeps DEF OtherCloses, TypeOK
    <2>5. CASE OtherFails(w)
      <3>1. Writing' \subseteq Writing
        BY <1>1, <2>5 DEF OtherFails, Writing
      <3>2. cut' \/ Writing \subseteq Writing'
        BY <1>1, <2>5 DEF OtherFails, Writing
      <3> QED
        BY <2>5, <3>1, <3>2, DiskInvKept DEF OtherFails, TypeOK, DiskInv
    <2> QED
      BY <2>1, <2>2, <2>3, <2>4, <2>5
  <1> QED
    BY <1>2, <1>3, <1>4, <1>5, <1>6 DEF TypeOK

\* StoreFileToNetwork.
LEMMA NetworkPreserves ==
  ASSUME IndInv, ListPeers \/ StoreToPeer \/ StoreToPeerFails \/ ReturnCount
  PROVE  IndInv'
  <1> USE DEF IndInv, callVars
  <1>d. DiskInv'
    <2>1. Writing' = Writing /\ UNCHANGED <<has, disk, got, cut>> /\ step \in {"network", "list"}
      BY DEF ListPeers, StoreToPeer, StoreToPeerFails, ReturnCount, Return, Writing
    <2>2. Writing' = Writing /\ UNCHANGED <<has, disk, got, cut>> /\ has
      BY <2>1 DEF ListPeers, StoreToPeer, StoreToPeerFails, ReturnCount, Return, Writing, DiskInv
    <2> QED
      BY <2>2, DiskInvKept
  <1>1. CASE ListPeers
    <2>1. IsFiniteSet(connected) /\ Cardinality(connected) <= Cardinality(Peers)
      BY FS_Subset, StoreAssumption DEF TypeOK
    <2>2. Cardinality(connected) \in Nat /\ Cardinality(Peers) \in Nat
      BY <2>1, FS_CardinalityType, StoreAssumption
    <2>3. list' \in [1..Cardinality(connected) -> connected]
      BY <1>1 DEF ListPeers, SetToSeqs
    <2>4. list' \in Seq(Peers) /\ Len(list') = Cardinality(connected)
      BY <2>2, <2>3 DEF TypeOK
    <2>5. j = 1 /\ j' = j
      BY <1>1 DEF ListPeers, LoopInv
    <2>6. TypeOK'
      BY <1>1, <2>1, <2>2, <2>4, <2>5 DEF ListPeers, TypeOK
    <2> QED
      BY <1>1, <1>d, <2>6 DEF ListPeers, LoopInv, ResultInv
  <1>2. CASE StoreToPeer \/ StoreToPeerFails
    <2>1. /\ j <= factor /\ j <= Len(list) /\ j' = j + 1 /\ step = "network"
          /\ stored' \in {stored, stored \cup {list[j]}}
          /\ UNCHANGED <<connected, has, disk, step, factor, other, got, list, result, cut>>
      BY <1>2 DEF StoreToPeer, StoreToPeerFails, MoreToStore
    <2>2. list[j] \in Peers
      BY <2>1 DEF TypeOK
    <2>3. Cardinality(stored') <= Cardinality(stored) + 1 /\ Cardinality(stored') \in Nat
      <3>1. /\ IsFiniteSet(stored \cup {list[j]})
            /\ Cardinality(stored \cup {list[j]}) \in {Cardinality(stored), Cardinality(stored) + 1}
        BY StoredFinite, FS_AddElement
      <3>2. Cardinality(stored) \in Nat
        BY StoredFinite
      <3>3. stored' = stored \/ stored' = stored \cup {list[j]}
        BY <2>1
      <3> QED
        BY <3>1, <3>2, <3>3
    <2>4. TypeOK'
      BY <2>1, <2>2, StoredFinite DEF TypeOK
    <2>5. LoopInv'
      BY <2>1, <2>3, StoredFinite DEF LoopInv
    <2> QED
      BY <1>d, <2>1, <2>4, <2>5 DEF ResultInv
  <1>3. CASE ReturnCount
    BY <1>3, <1>d DEF ReturnCount, Return, TypeOK, DiskInv, LoopInv, ResultInv
  <1> QED
    BY <1>1, <1>2, <1>3

LEMMA NextPreserves == IndInv /\ [Next]_vars => IndInv'
  <1> SUFFICES ASSUME IndInv, [Next]_vars PROVE IndInv'
    OBVIOUS
  <1>1. CASE UNCHANGED vars
    BY <1>1 DEF vars, callVars, Writing, IndInv, TypeOK, DiskInv, LoopInv, ResultInv
  <1>2. ASSUME NEW p \in Peers, PeerComes(p) \/ PeerGoes(p) PROVE IndInv'
    BY <1>2 DEF PeerComes, PeerGoes, callVars, Writing, IndInv, TypeOK, DiskInv, LoopInv, ResultInv
  <1> QED
    BY <1>1, <1>2, LocalPreserves, EndPreserves, OthersPreserve, NetworkPreserves DEF Next

\* The file, the loop over the peers and the result stay in step with each other
\* whatever is interrupted and whoever else writes the file.
THEOREM Invariance == Spec => []IndInv
  BY InitEstablishes, NextPreserves, PTL DEF Spec

\* The types of the variables; the loop never runs past its list of peers.
THEOREM TypeCorrect == Spec => []TypeOK
  <1>1. IndInv => TypeOK
    BY DEF IndInv
  <1> QED
    BY <1>1, Invariance, PTL

\* StoreFileToNetwork counts no more peers as having taken the file than were
\* asked for, however many are connected.
THEOREM ReplicasBoundedHolds == Spec => []ReplicasBounded
  <1>1. IndInv => ReplicasBounded
    BY StoredFinite DEF IndInv, LoopInv, ReplicasBounded
  <1> QED
    BY <1>1, Invariance, PTL

\* StoreFile returns an error only when no peer was counted.
THEOREM ErrorMeansNoneHolds == Spec => []ErrorMeansNone
  <1>1. IndInv => ErrorMeansNone
    BY DEF IndInv, ResultInv, ErrorMeansNone
  <1> QED
    BY <1>1, Invariance, PTL

\* StoreFile that succeeds leaves the whole file, however many writers it has and
\* however they are mixed, unless a write was cut or somebody writes it still.
THEOREM StoredUnlessCutHolds == Spec => []StoredUnlessCut
  <1>1. IndInv => StoredUnlessCut
    BY DEF IndInv, DiskInv, ResultInv, StoredUnlessCut
  <1> QED
    BY <1>1, Invariance, PTL

-----------------------------------------------------------------------------
(* The connection before the transfer *)

\* The stages that follow a connection.
Past == {"connected", "transfer", "relayedOnly", "delivered", "broken"}

\* A direct address is waited for only where one is tried, so with hole punching
\* on a circuit address gets past its connection through the punch alone.
CircuitInv ==
    call.addrs[tried] = "circuit" =>
        /\ stage # "direct"
        /\ call.holePunch /\ stage \in Past => punched

DeliveryInv == DeliveryTypeOK /\ CircuitInv

\* What the assumption says of the call of a delivery.
LEMMA CallFacts ==
  ASSUME DeliveryTypeOK
  PROVE  /\ call.addrs \in Seq(AddrKinds)
         /\ Len(call.addrs) \in Nat /\ Len(call.addrs) >= 1
         /\ call.addrs[tried] \in AddrKinds
  <1>1. call \in CallType
    BY DeliveryAssumption DEF DeliveryTypeOK
  <1>2. call.addrs \in Seq(AddrKinds) /\ call.addrs # <<>>
    BY <1>1 DEF CallType
  <1> QED
    BY <1>2 DEF DeliveryTypeOK

LEMMA DeliveryInitEstablishes == DeliveryInit => DeliveryInv
  <1> SUFFICES ASSUME DeliveryInit PROVE DeliveryInv
    OBVIOUS
  <1>1. call \in CallType
    BY DeliveryAssumption DEF DeliveryInit
  <1>2. call.addrs \in Seq(AddrKinds) /\ call.addrs # <<>>
    BY <1>1 DEF CallType
  <1>3. 1 \in 1..Len(call.addrs)
    BY <1>2
  <1> QED
    BY <1>3 DEF DeliveryInit, DeliveryInv, DeliveryTypeOK, CircuitInv, Past

\* The steps of deliverToRequester that stay with an address.
LEMMA AddressPreserves ==
  ASSUME DeliveryInv,
         \/ TryAddress \/ DirectReturns \/ RelayReturns \/ ReservationAppears
         \/ CircuitReturns \/ PunchReturns \/ StoreDirect \/ TransferEnds
  PROVE  DeliveryInv'
  <1> USE DEF DeliveryInv, GoTo, Past, Connecting, Ended
  <1>1. CASE TryAddress
    BY <1>1, CallFacts DEF TryAddress, DeliveryTypeOK, CircuitInv, AddrKinds
  <1>2. CASE DirectReturns
    BY <1>2 DEF DirectReturns, DeliveryTypeOK, CircuitInv
  <1>3. CASE RelayReturns \/ ReservationAppears
    BY <1>3 DEF RelayReturns, ReservationAppears, DeliveryTypeOK, CircuitInv
  <1>4. CASE CircuitReturns
    BY <1>4 DEF CircuitReturns, DeliveryTypeOK, CircuitInv
  <1>5. CASE PunchReturns
    BY <1>5 DEF PunchReturns, DeliveryTypeOK, CircuitInv
  <1>6. CASE StoreDirect \/ TransferEnds
    BY <1>6 DEF StoreDirect, TransferEnds, DeliveryTypeOK, CircuitInv
  <1> QED
    BY <1>1, <1>2, <1>3, <1>4, <1>5, <1>6

\* An address that failed: the next one is begun afresh, or there is none.
LEMMA NextAddressPreserves ==
  ASSUME DeliveryInv, WaitEnds \/ SkipAddress
  PROVE  DeliveryInv'
  <1>1. tried' \in 1..Len(call.addrs) /\ stage' \in {"try", "unconnected"}
    BY CallFacts DEF DeliveryInv, DeliveryTypeOK, WaitEnds, SkipAddress, NextAddress
  <1> QED
    BY <1>1 DEF DeliveryInv, DeliveryTypeOK, WaitEnds, SkipAddress, CircuitInv, Past, Ended

\* The goroutines of Manager.connect and the network leave the delivery alone.
LEMMA NetworkLeavesAlone ==
  ASSUME DeliveryInv,
         \/ \E d \in {"direct", "relay", "circuit"} : Connect(d)
         \/ Reserve \/ Punch \/ RelayDown
         \/ \E k \in {"direct", "circuit"} : LinkDown(k)
  PROVE  DeliveryInv'
  <1>1. UNCHANGED <<call, tried, stage, punched>>
    BY DEF Connect, DialPeer, DialFails, DialRelay, Dialed, Reserve, Punch, RelayDown, LinkDown
  <1>2. links' \subseteq {"direct", "circuit"} /\ relay' \in {"none", "up", "reserved"}
        /\ dials' \subseteq {"direct", "relay", "circuit"}
    BY DEF DeliveryInv, DeliveryTypeOK, Connect, DialPeer, DialFails, DialRelay, Dialed,
           Reserve, Punch, RelayDown, LinkDown
  <1> QED
    BY <1>1, <1>2 DEF DeliveryInv, DeliveryTypeOK, CircuitInv

LEMMA DeliveryNextPreserves == DeliveryInv /\ [DeliveryNext]_deliveryVars => DeliveryInv'
  <1> SUFFICES ASSUME DeliveryInv, [DeliveryNext]_deliveryVars PROVE DeliveryInv'
    OBVIOUS
  <1>1. CASE UNCHANGED deliveryVars
    BY <1>1 DEF deliveryVars, DeliveryInv, DeliveryTypeOK, CircuitInv
  <1> QED
    BY <1>1, AddressPreserves, NextAddressPreserves, NetworkLeavesAlone DEF DeliveryNext, Deliver

\* Whatever dials, hole punches and lost connections do, a delivery gets past a
\* circuit address only through its hole punch.
THEOREM DeliveryInvariance == DeliverySpec => []DeliveryInv
  BY DeliveryInitEstablishes, DeliveryNextPreserves, PTL DEF DeliverySpec

\* The types of a delivery; the loop of deliverToRequester never runs past the
\* addresses it was given.
THEOREM DeliveryTypeCorrect == DeliverySpec => []DeliveryTypeOK
  <1>1. DeliveryInv => DeliveryTypeOK
    BY DEF DeliveryInv
  <1> QED
    BY <1>1, DeliveryInvariance, PTL

\* With hole punching on, no delivery by a circuit address gives up for want of
\* a direct connection before it has waited for a hole punch.
THEOREM CircuitPunchedHolds == DeliverySpec => []CircuitPunched
  <1>1. DeliveryInv => CircuitPunched
    BY DEF DeliveryInv, CircuitInv, CircuitPunched, Past
  <1> QED
    BY <1>1, DeliveryInvariance, PTL
=============================================================================
