--------------------------- MODULE TransferProofs ---------------------------
(***************************************************************************)
(* Proofs about Transfer for every number of nodes and of transfers, every *)
(* size of the content and every combination of faults.                    *)
(***************************************************************************)
EXTENDS Transfer, TLAPS

(* Files that only whole contents were written into *)

\* Every frame is the one the content has there or none, and the last frame is
\* one: a gap is always before a frame that was written.
Good(f) ==
    /\ \A i \in 1..Frames : f.at[i] \in {0, FrameUnits(i)}
    /\ f.n > 0 => f.at[f.n] = FrameUnits(f.n)

\* The first k frames are those of the content.
HasFrames(f, k) == k <= f.n /\ \A i \in 1..k : f.at[i] = FrameUnits(i)

\* The number of frames, and the size of the last one, by the size.
LEMMA FramesFacts ==
  /\ Frames \in Nat
  /\ 2 * Frames = Size \/ 2 * Frames = Size + 1
  /\ \A i \in 1..Frames : FrameUnits(i) \in {1, 2}
  /\ \A i \in 1..Frames : FrameUnits(i) = 1 => i = Frames /\ Size = 2 * Frames - 1
  /\ \A i \in Nat : i > 0 /\ 2 * i <= Size => i \in 1..Frames /\ FrameUnits(i) = 2
  BY SizeAssumption DEF Frames, FrameUnits

\* A file on which a frame was written is a file.
LEMMA WriteChunkType ==
  ASSUME NEW f \in Files, NEW i \in 1..Frames, NEW units \in {1, 2},
         units <= FrameUnits(i)
  PROVE  WriteChunk(f, i, units) \in Files
  <1>1. /\ f.n \in 0..Frames /\ f.at \in [1..Frames -> 0..2]
        /\ \A k \in 1..Frames : f.at[k] <= FrameUnits(k)
    BY DEF Files
  <1> DEFINE g == WriteChunk(f, i, units)
             v == IF units = 2 \/ i > f.n \/ f.at[i] = units THEN units ELSE 0
  <1>2. g = [n |-> IF i > f.n THEN i ELSE f.n, at |-> [f.at EXCEPT ![i] = v]]
    BY DEF WriteChunk
  <1>3. g.n \in 0..Frames
    BY <1>1, <1>2, FramesFacts
  <1>4. v \in 0..2 /\ v <= FrameUnits(i)
    BY FramesFacts
  <1> HIDE DEF v
  <1>5. /\ g.at \in [1..Frames -> 0..2]
        /\ \A k \in 1..Frames : g.at[k] <= FrameUnits(k)
    BY <1>1, <1>2, <1>4
  <1> HIDE DEF g
  <1>6. g = [n |-> g.n, at |-> g.at]
    BY <1>2
  <1>7. g \in Files
    BY <1>3, <1>5, <1>6 DEF Files
  <1> QED
    BY <1>7 DEF g

\* Writing the content's own frame i keeps a good file good, keeps the frames
\* that were there and adds frame i.
LEMMA WriteChunkGood ==
  ASSUME NEW f \in Files, Good(f), NEW i \in 1..Frames
  PROVE  LET g == WriteChunk(f, i, FrameUnits(i)) IN
         /\ Good(g)
         /\ \A k \in 0..Frames : HasFrames(f, k) => HasFrames(g, k)
         /\ HasFrames(f, i - 1) => HasFrames(g, i)
  <1> DEFINE g == WriteChunk(f, i, FrameUnits(i))
  <1>1. /\ f.n \in 0..Frames /\ f.at \in [1..Frames -> 0..2]
        /\ Frames \in Nat /\ FrameUnits(i) \in {1, 2}
    BY FramesFacts DEF Files
  <1>2. FrameUnits(i) = 2 \/ i > f.n \/ f.at[i] = FrameUnits(i)
    <2>1. CASE FrameUnits(i) = 1 /\ i <= f.n
      <3>1. i = f.n /\ f.n > 0
        BY <1>1, <2>1, FramesFacts
      <3> QED
        BY <3>1 DEF Good
    <2> QED
      BY <1>1, <2>1
  <1>3. g = [n |-> IF i > f.n THEN i ELSE f.n,
             at |-> [f.at EXCEPT ![i] = FrameUnits(i)]]
    BY <1>2 DEF WriteChunk
  <1>4. /\ g.n = IF i > f.n THEN i ELSE f.n
        /\ g.at[i] = FrameUnits(i)
        /\ \A k \in 1..Frames : k # i => g.at[k] = f.at[k]
    BY <1>1, <1>3
  <1> HIDE DEF g
  <1>5. Good(g)
    BY <1>1, <1>4 DEF Good
  <1>6. \A k \in 0..Frames : HasFrames(f, k) => HasFrames(g, k)
    BY <1>1, <1>4 DEF HasFrames
  <1>7. HasFrames(f, i - 1) => HasFrames(g, i)
    BY <1>1, <1>4 DEF HasFrames
  <1> QED
    BY <1>5, <1>6, <1>7 DEF g

\* The copy loop on a file, got being the number of units it has read.
LEMMA WriteUnitFile ==
  ASSUME NEW f \in Files, NEW got1 \in 0..Size, got1 + 1 <= Size
  PROVE  LET g == WriteUnit(f, got1 + 1) IN
         /\ g \in Files
         /\ Good(f) =>
              /\ Good(g)
              /\ \A k \in 0..Frames : HasFrames(f, k) => HasFrames(g, k)
              /\ HasFrames(f, got1 \div 2) => HasFrames(g, (got1 + 1) \div 2)
  <1> DEFINE i == (got1 + 1) \div 2
  <1>1. got1 \in Nat /\ Size \in Nat
    BY SizeAssumption
  <1>2. CASE (got1 + 1) % 2 = 0
    <2>1. i \in Nat /\ i > 0 /\ 2 * i <= Size /\ got1 \div 2 = i - 1
      BY <1>1, <1>2
    <2>2. i \in 1..Frames /\ FrameUnits(i) = 2
      BY <2>1, FramesFacts
    <2>3. WriteUnit(f, got1 + 1) = WriteChunk(f, i, FrameUnits(i))
      BY <1>2, <2>2 DEF WriteUnit
    <2> HIDE DEF i
    <2>4. WriteChunk(f, i, FrameUnits(i)) \in Files
      BY <2>2, WriteChunkType
    <2> QED
      BY <2>1, <2>2, <2>3, <2>4, WriteChunkGood DEF i
  <1>3. CASE (got1 + 1) % 2 # 0
    <2>1. WriteUnit(f, got1 + 1) = f
      BY <1>3 DEF WriteUnit
    <2>2. (got1 + 1) \div 2 = got1 \div 2
      BY <1>1, <1>3
    <2> QED
      BY <2>1, <2>2
  <1> QED
    BY <1>2, <1>3

\* Close on a file after got1 units.  When these are the whole content, or when
\* nothing is left in the buffer, a good file stays good.
LEMMA CloseWriterFile ==
  ASSUME NEW f \in Files, NEW got1 \in 0..Size
  PROVE  LET g == CloseWriter(f, got1) IN
         /\ g \in Files
         /\ Good(f) /\ (got1 = Size \/ got1 % 2 # 1) =>
              /\ Good(g)
              /\ \A k \in 0..Frames : HasFrames(f, k) => HasFrames(g, k)
              /\ got1 = Size /\ HasFrames(f, got1 \div 2) => HasFrames(g, Frames)
  <1> DEFINE i == (got1 + 1) \div 2
  <1>1. got1 \in Nat /\ Size \in Nat
    BY SizeAssumption
  <1>2. CASE got1 % 2 = 1
    <2>1. i \in 1..Frames /\ got1 \div 2 = i - 1
      BY <1>1, <1>2 DEF Frames
    <2>2. CloseWriter(f, got1) = WriteChunk(f, i, 1)
      BY <1>2 DEF CloseWriter
    <2>3. got1 = Size => i = Frames /\ FrameUnits(i) = 1
      BY <1>1, <1>2 DEF Frames, FrameUnits
    <2> HIDE DEF i
    <2>4. WriteChunk(f, i, 1) \in Files
      BY <2>1, WriteChunkType, FramesFacts
    <2>5. ASSUME Good(f), got1 = Size
          PROVE  LET g == WriteChunk(f, i, 1) IN
                 /\ Good(g)
                 /\ \A k \in 0..Frames : HasFrames(f, k) => HasFrames(g, k)
                 /\ HasFrames(f, got1 \div 2) => HasFrames(g, Frames)
      BY <2>1, <2>3, <2>5, WriteChunkGood
    <2> QED
      BY <1>2, <2>2, <2>4, <2>5
  <1>3. CASE got1 % 2 # 1
    <2>1. CloseWriter(f, got1) = f
      BY <1>3 DEF CloseWriter
    <2>2. got1 = Size => got1 \div 2 = Frames
      BY <1>1, <1>3 DEF Frames
    <2> QED
      BY <2>1, <2>2
  <1> QED
    BY <1>2, <1>3

-----------------------------------------------------------------------------
(* The inductive invariant *)

SendType ==
    /\ phase \in [Transfers -> Phases]
    /\ wire \in [Transfers -> {"closed", "open", "eof", "reset"}]
    /\ size \in [Transfers -> 0..Size]

RecvType ==
    /\ rx \in [Transfers -> RxStates]
    /\ got \in [Transfers -> 0..Size]
    /\ has \subseteq Nodes
    /\ disk \in [Nodes -> Files]
    /\ creator \in [Nodes -> Transfers \cup {NoTransfer}]
    /\ tainted \subseteq Nodes

NodeType ==
    /\ session \in [Nodes -> {NoSession, TheSession}]
    /\ waiting \subseteq Nodes
    /\ cmd \in [Nodes -> CmdStates]
    /\ inbox \in [Nodes -> SUBSET {"complete", "failed"}]
    /\ out \in [Nodes -> 0..Size]

\* store.Write has returned for t without an error.
Written(t) == rx[t] \in {"written", "acked", "complete", "unannounced"}

\* The two ends of a stream: nothing is read before the stream is open, the
\* end of file is only seen when the sender has given up, and a write that
\* succeeds for a sender that has not given up took all of it.
StreamInv ==
    \A t \in Transfers :
        /\ phase[t] \in {"idle", "negotiating", "accepted"} => wire[t] = "closed"
        /\ wire[t] = "closed" => rx[t] = "none"
        /\ rx[t] = "none" => got[t] = 0
        /\ wire[t] = "eof" => phase[t] = "failed"
        /\ Written(t) => got[t] = size[t] \/ phase[t] = "failed"
        /\ got[t] <= size[t]

\* What transfer t, that created the file of node n, has put there.
CreatorInv(n, t) ==
    /\ To[t] = n
    /\ rx[t] # "none"
    /\ n \notin tainted =>
        /\ rx[t] = "writing" => HasFrames(disk[n], got[t] \div 2)
        /\ Stored(t) => HasFrames(disk[n], Frames)

\* In an untainted file only whole contents are being written, so no writer
\* can spoil a frame, and every frame that the last creator wrote is there.
DiskInv ==
    /\ \A n \in Nodes \ tainted : Good(disk[n])
    /\ \A t \in Transfers :
        To[t] \notin tainted /\ rx[t] = "writing" => size[t] = Size
    /\ \A n \in Nodes : \A t \in Transfers :
        creator[n] = t => CreatorInv(n, t)

IndInv ==
    /\ SendType /\ RecvType /\ NodeType
    /\ StreamInv
    /\ SuccessMeansRead
    /\ DiskInv

\* The invariant implies the type invariant.
LEMMA IndInvType == IndInv => TypeOK
  BY DEF IndInv, SendType, RecvType, NodeType, TypeOK

\* The files that nodes start with are good files.
LEMMA InitialFiles ==
  /\ EmptyFile \in Files /\ Good(EmptyFile)
  /\ WholeFile \in Files /\ Good(WholeFile)
  <1>1. EmptyFile \in Files /\ Good(EmptyFile)
    BY FramesFacts DEF EmptyFile, Files, Good
  <1>2. WholeFile \in Files /\ Good(WholeFile)
    BY FramesFacts DEF WholeFile, Files, Good
  <1> QED
    BY <1>1, <1>2

\* Initially no transfer has begun.
LEMMA InitEstablishes == Init => IndInv
  <1> SUFFICES ASSUME Init PROVE IndInv
    OBVIOUS
  <1>1. SendType
    BY SizeAssumption DEF Init, SendType, Phases
  <1>2. RecvType
    <2>1. disk \in [Nodes -> Files]
      BY InitialFiles DEF Init
    <2> QED
      BY <2>1, SizeAssumption, ActorsAssumption DEF Init, RecvType, RxStates
  <1>3. NodeType
    BY SizeAssumption DEF Init, NodeType, CmdStates
  <1>4. StreamInv /\ SuccessMeansRead
    BY DEF Init, StreamInv, SuccessMeansRead, Written
  <1>5. DiskInv
    <2>1. \A n \in Nodes : Good(disk[n])
      BY InitialFiles DEF Init
    <2>2. \A n \in Nodes : creator[n] = NoTransfer
      BY DEF Init
    <2>3. \A t \in Transfers : rx[t] = "none"
      BY DEF Init
    <2> QED
      BY <2>1, <2>2, <2>3, ActorsAssumption DEF DiskInv
  <1> QED
    BY <1>1, <1>2, <1>3, <1>4, <1>5 DEF IndInv

-----------------------------------------------------------------------------
(* Steps of the sender, and of the connection *)

\* A step that leaves the receiver's side alone, and the size of every stream
\* that is being read, leaves the files' invariant alone.
LEMMA DiskInvKept ==
  ASSUME DiskInv, UNCHANGED recvVars,
         \A t \in Transfers : rx[t] = "writing" => size'[t] = size[t]
  PROVE  DiskInv'
  BY DEF DiskInv, CreatorInv, Stored, recvVars

\* The size that Store.Read returns is at most that of the content.
LEMMA LengthType ==
  ASSUME NEW f \in Files
  PROVE  Length(f) \in 0..Size
  <1>1. /\ f.n \in 0..Frames
        /\ \A k \in 1..Frames : f.at[k] \in 0..2 /\ f.at[k] <= FrameUnits(k)
    BY DEF Files
  <1>2. CASE f.n = 0
    BY <1>2, SizeAssumption DEF Length
  <1>3. CASE f.n # 0
    <2>1. f.n \in 1..Frames
      BY <1>1, <1>3, FramesFacts
    <2>2. 2 * (f.n - 1) + FrameUnits(f.n) <= Size
      BY <2>1, FramesFacts, SizeAssumption DEF FrameUnits
    <2>3. f.at[f.n] \in 0..2 /\ f.at[f.n] <= FrameUnits(f.n) /\ FrameUnits(f.n) \in {1, 2}
      BY <1>1, <2>1, FramesFacts
    <2> QED
      BY <1>3, <2>1, <2>2, <2>3, SizeAssumption, FramesFacts DEF Length
  <1> QED
    BY <1>2, <1>3

\* The steps of StoreFileToPeer, the answer to its request, and a connection
\* that breaks.
LEMMA SenderPreserves ==
  ASSUME IndInv, NEW t \in Transfers,
         SenderStep(t) \/ HandleStoreFile(t) \/ ConnectionBreaks(t)
  PROVE  IndInv'
  <1> USE DEF IndInv
  <1>1. UNCHANGED recvVars /\ UNCHANGED nodeVars
    BY DEF SenderStep, HandleStoreFile, ConnectionBreaks, StartTransfer,
           NegotiationFails, OpenStream, OpenFails, SenderGivesUp, ReadResponse
  <1>2. RecvType' /\ NodeType'
    BY <1>1 DEF RecvType, NodeType, recvVars, nodeVars
  <1>3. CASE OpenStream(t)
    <2>1. /\ phase[t] = "accepted"
          /\ phase' = [phase EXCEPT ![t] = "sending"]
          /\ size' = [size EXCEPT ![t] = Length(disk[From[t]])]
          /\ wire' = [wire EXCEPT ![t] = "open"]
      BY <1>3 DEF OpenStream
    <2>2. Length(disk[From[t]]) \in 0..Size
      BY LengthType, ActorsAssumption DEF RecvType
    <2>3. SendType'
      BY <2>1, <2>2 DEF SendType, Phases
    <2>4. wire[t] = "closed" /\ rx[t] = "none" /\ got[t] = 0
      BY <2>1 DEF StreamInv
    <2>5. size'[t] \in 0..Size /\ \A u \in Transfers : u # t => size'[u] = size[u]
      BY <2>1, <2>2 DEF SendType
    <2>6. DiskInv'
      BY <1>1, <2>4, <2>5, DiskInvKept
    <2>7. StreamInv'
      BY <1>1, <2>1, <2>4, <2>5, SizeAssumption DEF StreamInv, Written, recvVars, SendType
    <2>8. SuccessMeansRead'
      BY <1>1, <2>1, <2>5 DEF SuccessMeansRead, recvVars, SendType
    <2> QED
      BY <1>2, <2>3, <2>6, <2>7, <2>8
  <1>4. CASE ~OpenStream(t)
    <2>1. UNCHANGED size
      BY <1>4 DEF SenderStep, HandleStoreFile, ConnectionBreaks, StartTransfer,
           NegotiationFails, OpenFails, SenderGivesUp, ReadResponse
    <2>2. DiskInv'
      BY <1>1, <2>1, DiskInvKept
    <2>3. CASE /\ UNCHANGED wire
               /\ \E p \in Phases \ {"idle", "done", "sending"} :
                      phase' = [phase EXCEPT ![t] = p]
               /\ phase[t] \in {"idle", "negotiating"}
      BY <1>1, <1>2, <2>1, <2>2, <2>3
      DEF SendType, StreamInv, SuccessMeansRead, Written, recvVars, Phases
    <2>4. CASE /\ UNCHANGED wire
               /\ phase' = [phase EXCEPT ![t] = "failed"]
               /\ phase[t] # "done"
      BY <1>1, <1>2, <2>1, <2>2, <2>4
      DEF SendType, StreamInv, SuccessMeansRead, Written, recvVars, Phases
    <2>5. CASE SenderGivesUp(t)
      BY <1>1, <1>2, <2>1, <2>2, <2>5
      DEF SenderGivesUp, SendType, StreamInv, SuccessMeansRead, Written, recvVars, Phases
    <2>6. CASE ReadResponse(t) /\ phase'[t] = "done"
      <3>1. /\ phase[t] = "sending" /\ rx[t] \in {"acked", "complete"}
            /\ phase' = [phase EXCEPT ![t] = "done"] /\ UNCHANGED wire
        BY <2>6 DEF ReadResponse, SendType
      <3>2. got[t] = size[t]
        BY <3>1 DEF StreamInv, Written
      <3> QED
        BY <1>1, <1>2, <2>1, <2>2, <3>1, <3>2
        DEF SendType, StreamInv, SuccessMeansRead, Written, recvVars, Phases
    <2>7. CASE ConnectionBreaks(t)
      BY <1>1, <1>2, <2>1, <2>2, <2>7
      DEF ConnectionBreaks, SendType, StreamInv, SuccessMeansRead, Written, recvVars, Phases
    <2>8. CASE HandleStoreFile(t) \/ StartTransfer(t)
      BY <2>3, <2>8 DEF HandleStoreFile, StartTransfer, Phases
    <2>9. CASE NegotiationFails(t) \/ OpenFails(t) \/ (ReadResponse(t) /\ phase'[t] # "done")
      BY <2>4, <2>9 DEF NegotiationFails, OpenFails, ReadResponse, SendType
    <2> QED
      BY <1>4, <2>5, <2>6, <2>7, <2>8, <2>9 DEF SenderStep
  <1> QED
    BY <1>3, <1>4

-----------------------------------------------------------------------------
(* Steps of the receiver *)

\* A step of the receiver that touches neither the file nor what was read of
\* it, and moves transfer t to a state in which nothing more is stored.
LEMMA RxMovePreserves ==
  ASSUME IndInv, NEW t \in Transfers, NEW s \in RxStates \ {"none", "writing"},
         rx' = [rx EXCEPT ![t] = s],
         wire[t] # "closed",
         s \in {"written", "acked", "complete", "unannounced"} => Written(t),
         phase[t] = "done" => s \in {"acked", "complete", "unannounced"},
         UNCHANGED <<got, has, disk, creator, tainted, sendVars>>, NodeType'
  PROVE  IndInv'
  <1> USE DEF IndInv
  <1>1. SendType' /\ RecvType'
    BY DEF SendType, RecvType, sendVars, RxStates
  <1>2. StreamInv' /\ SuccessMeansRead'
    BY DEF StreamInv, SuccessMeansRead, Written, sendVars, RecvType
  <1>3. DiskInv'
    <2>1. \A u \in Transfers : /\ rx'[u] = "writing" => rx[u] = "writing"
                               /\ rx'[u] = "none" => rx[u] = "none"
                               /\ Stored(u)' => Stored(u)
      BY DEF Stored, Written, RecvType
    <2> QED
      BY <2>1 DEF DiskInv, CreatorInv, sendVars
  <1> QED
    BY <1>1, <1>2, <1>3

\* os.Create gives the file to transfer t, which has read nothing yet.
LEMMA BeginPreserves ==
  ASSUME IndInv, NEW t \in Transfers, BeginReceive(t)
  PROVE  IndInv'
  <1> USE DEF IndInv
  <1> DEFINE n == To[t]
  <1>1. /\ rx[t] = "none" /\ wire[t] \in {"open", "eof"}
        /\ rx' = [rx EXCEPT ![t] = "writing"]
        /\ has' = has \cup {n}
        /\ disk' = [disk EXCEPT ![n] = EmptyFile]
        /\ creator' = [creator EXCEPT ![n] = t]
        /\ tainted' = IF size[t] < Size THEN tainted \cup {n} ELSE tainted
        /\ UNCHANGED <<got, sendVars, nodeVars>>
    BY DEF BeginReceive
  <1>2. n \in Nodes /\ got[t] = 0 /\ size[t] \in 0..Size /\ phase[t] # "done"
    BY <1>1, ActorsAssumption DEF SendType, StreamInv, SuccessMeansRead
  <1> HIDE DEF n
  <1>3. SendType' /\ NodeType'
    BY <1>1 DEF SendType, NodeType, sendVars, nodeVars
  <1>4. RecvType'
    BY <1>1, <1>2, InitialFiles DEF RecvType, RxStates
  <1>5. StreamInv' /\ SuccessMeansRead'
    BY <1>1, <1>2 DEF StreamInv, SuccessMeansRead, Written, sendVars, RecvType
  <1>6. DiskInv'
    <2>1. \A k \in Nodes \ tainted' : Good(disk'[k])
      BY <1>1, <1>2, InitialFiles DEF DiskInv, RecvType
    <2>2. \A u \in Transfers :
             To[u] \notin tainted' /\ rx'[u] = "writing" => size'[u] = Size
      BY <1>1, <1>2, SizeAssumption DEF DiskInv, RecvType, sendVars, n
    <2>3. ASSUME NEW k \in Nodes, NEW u \in Transfers, creator'[k] = u
          PROVE  CreatorInv(k, u)'
      <3>1. CASE k = n
        <4>1. u = t /\ rx'[t] = "writing" /\ got'[t] = 0 /\ disk'[n] = EmptyFile
          BY <1>1, <1>2, <2>3, <3>1 DEF RecvType
        <4>2. HasFrames(EmptyFile, 0 \div 2)
          BY DEF HasFrames, EmptyFile
        <4>3. ~Stored(t)'
          BY <4>1 DEF Stored
        <4> QED
          BY <3>1, <4>1, <4>2, <4>3 DEF CreatorInv, n
      <3>2. CASE k # n
        <4>1. creator[k] = u /\ CreatorInv(k, u)
          BY <1>1, <2>3, <3>2 DEF RecvType, DiskInv
        <4>2. u # t
          BY <3>2, <4>1 DEF CreatorInv, n
        <4>3. rx'[u] = rx[u] /\ disk'[k] = disk[k] /\ got'[u] = got[u]
          BY <1>1, <3>2, <4>2 DEF RecvType
        <4>4. k \notin tainted' => k \notin tainted
          BY <1>1
        <4> QED
          BY <4>1, <4>3, <4>4 DEF CreatorInv, Stored
      <3> QED
        BY <3>1, <3>2
    <2> QED
      BY <2>1, <2>2, <2>3 DEF DiskInv
  <1> QED
    BY <1>3, <1>4, <1>5, <1>6

\* One more unit: a full frame may go into the file, at the writer's own place.
LEMMA ReceiveUnitPreserves ==
  ASSUME IndInv, NEW t \in Transfers, ReceiveUnit(t)
  PROVE  IndInv'
  <1> USE DEF IndInv
  <1> DEFINE n == To[t]
  <1>1. /\ rx[t] = "writing" /\ wire[t] \in {"open", "eof"}
        /\ got[t] < size[t]
        /\ got' = [got EXCEPT ![t] = @ + 1]
        /\ disk' = [disk EXCEPT ![n] = WriteUnit(@, got[t] + 1)]
        /\ UNCHANGED <<rx, has, creator, tainted, sendVars, nodeVars>>
    BY DEF ReceiveUnit
  <1>2. /\ n \in Nodes /\ disk[n] \in Files
        /\ got[t] \in 0..Size /\ size[t] \in 0..Size /\ got[t] + 1 <= Size
    <2>1. n \in Nodes /\ disk[n] \in Files
      BY ActorsAssumption DEF RecvType
    <2>2. got[t] \in 0..Size /\ size[t] \in 0..Size
      BY DEF SendType, RecvType
    <2>3. got[t] + 1 <= Size
      BY <1>1, <2>2, SizeAssumption
    <2> QED
      BY <2>1, <2>2, <2>3
  <1>3. /\ disk'[n] = WriteUnit(disk[n], got[t] + 1)
        /\ \A k \in Nodes : k # n => disk'[k] = disk[k]
        /\ got'[t] = got[t] + 1
        /\ \A u \in Transfers : u # t => got'[u] = got[u]
    BY <1>1, <1>2 DEF RecvType
  <1>4. /\ disk'[n] \in Files
        /\ Good(disk[n]) =>
             /\ Good(disk'[n])
             /\ \A k \in 0..Frames : HasFrames(disk[n], k) => HasFrames(disk'[n], k)
             /\ HasFrames(disk[n], got[t] \div 2) => HasFrames(disk'[n], got'[t] \div 2)
    BY <1>2, <1>3, WriteUnitFile
  <1>5. SendType' /\ NodeType'
    BY <1>1 DEF SendType, NodeType, sendVars, nodeVars
  <1>6. RecvType'
    BY <1>1, <1>2, <1>3, <1>4, SizeAssumption DEF RecvType
  <1>7. StreamInv' /\ SuccessMeansRead'
    BY <1>1, <1>2, <1>3 DEF StreamInv, SuccessMeansRead, Written, sendVars
  <1>8. DiskInv'
    <2>1. \A k \in Nodes \ tainted' : Good(disk'[k])
      BY <1>1, <1>3, <1>4 DEF DiskInv
    <2>2. \A u \in Transfers :
             To[u] \notin tainted' /\ rx'[u] = "writing" => size'[u] = Size
      BY <1>1 DEF DiskInv, sendVars
    <2>3. ASSUME NEW k \in Nodes, NEW u \in Transfers, creator'[k] = u
          PROVE  CreatorInv(k, u)'
      <3>1. creator[k] = u /\ CreatorInv(k, u) /\ rx'[u] = rx[u] /\ tainted' = tainted
        BY <1>1, <2>3 DEF DiskInv
      <3>2. k \notin tainted => Good(disk[k])
        BY DEF DiskInv
      <3>3. got[u] \div 2 \in 0..Frames /\ Frames \in 0..Frames
        <4>1. got[u] \in 0..Size
          BY DEF RecvType
        <4> QED
          BY <4>1, SizeAssumption DEF Frames
      <3>4. CASE u = t
        <4>1. k = n /\ ~Stored(t)'
          BY <1>1, <3>1, <3>4 DEF CreatorInv, Stored
        <4> QED
          BY <1>1, <1>4, <3>1, <3>2, <3>4, <4>1 DEF CreatorInv
      <3>5. CASE u # t
        <4>1. got'[u] = got[u] /\ (Stored(u)' => Stored(u))
          BY <1>3, <3>1, <3>5 DEF Stored
        <4> QED
          BY <1>3, <1>4, <3>1, <3>2, <3>3, <4>1 DEF CreatorInv
      <3> QED
        BY <3>4, <3>5
    <2> QED
      BY <2>1, <2>2, <2>3 DEF DiskInv
  <1> QED
    BY <1>5, <1>6, <1>7, <1>8

\* Close: the short last frame of a whole content belongs there; any other
\* short frame taints the file.
LEMMA FinishPreserves ==
  ASSUME IndInv, NEW t \in Transfers, FinishWrite(t)
  PROVE  IndInv'
  <1> USE DEF IndInv
  <1> DEFINE n == To[t]
  <1>1. /\ rx[t] = "writing"
        /\ got[t] = size[t] \/ wire[t] = "eof"
        /\ rx' = [rx EXCEPT ![t] = "written"]
        /\ disk' = [disk EXCEPT ![n] = CloseWriter(@, got[t])]
        /\ tainted' = IF got[t] < Size /\ got[t] % 2 = 1
                      THEN tainted \cup {n} ELSE tainted
        /\ UNCHANGED <<got, has, creator, sendVars, nodeVars>>
    BY DEF FinishWrite, AtEnd
  <1>2. n \in Nodes /\ disk[n] \in Files /\ got[t] \in 0..Size /\ size[t] \in 0..Size
    BY ActorsAssumption DEF RecvType, SendType
  <1>3. /\ disk'[n] = CloseWriter(disk[n], got[t])
        /\ \A k \in Nodes : k # n => disk'[k] = disk[k]
        /\ rx'[t] = "written"
        /\ \A u \in Transfers : u # t => rx'[u] = rx[u]
    BY <1>1, <1>2 DEF RecvType
  <1>4. n \notin tainted' => n \notin tainted /\ (got[t] = Size \/ got[t] % 2 # 1)
    BY <1>1, <1>2, SizeAssumption
  <1>5. /\ disk'[n] \in Files
        /\ n \notin tainted' =>
             /\ Good(disk'[n])
             /\ \A k \in 0..Frames : HasFrames(disk[n], k) => HasFrames(disk'[n], k)
             /\ got[t] = Size /\ HasFrames(disk[n], got[t] \div 2)
                   => HasFrames(disk'[n], Frames)
    BY <1>2, <1>3, <1>4, CloseWriterFile DEF DiskInv
  <1>6. SendType' /\ NodeType'
    BY <1>1 DEF SendType, NodeType, sendVars, nodeVars
  <1>7. RecvType'
    BY <1>1, <1>2, <1>3, <1>5 DEF RecvType, RxStates
  <1>8. got[t] = size[t] \/ phase[t] = "failed"
    BY <1>1 DEF StreamInv
  <1>9. StreamInv' /\ SuccessMeansRead'
    BY <1>1, <1>3, <1>8 DEF StreamInv, SuccessMeansRead, Written, sendVars
  <1>10. DiskInv'
    <2>1. \A k \in Nodes \ tainted' : k \notin tainted /\ Good(disk'[k])
      BY <1>1, <1>3, <1>5 DEF DiskInv
    <2>2. \A u \in Transfers :
             To[u] \notin tainted' /\ rx'[u] = "writing" => size'[u] = Size
      BY <1>1, <1>3 DEF DiskInv, sendVars
    <2>3. ASSUME NEW k \in Nodes, NEW u \in Transfers, creator'[k] = u
          PROVE  CreatorInv(k, u)'
      <3>1. creator[k] = u /\ CreatorInv(k, u) /\ got'[u] = got[u]
        BY <1>1, <2>3 DEF DiskInv
      <3>2. got[u] \div 2 \in 0..Frames /\ Frames \in 0..Frames
        <4>1. got[u] \in 0..Size
          BY DEF RecvType
        <4> QED
          BY <4>1, SizeAssumption DEF Frames
      <3>3. CASE u = t
        <4>1. k = n
          BY <3>1, <3>3 DEF CreatorInv
        <4>2. n \notin tainted' /\ Stored(t)' => HasFrames(disk'[n], Frames)
          BY <1>1, <1>4, <1>5, <3>1, <3>3, <4>1 DEF CreatorInv, Stored
        <4> QED
          BY <1>3, <3>1, <3>3, <4>1, <4>2 DEF CreatorInv
      <3>4. CASE u # t
        <4>1. rx'[u] = rx[u] /\ (Stored(u)' => Stored(u))
          BY <1>3, <3>1, <3>4 DEF Stored
        <4> QED
          BY <1>3, <1>5, <2>1, <3>1, <3>2, <4>1 DEF CreatorInv
      <3> QED
        BY <3>3, <3>4
    <2> QED
      BY <2>1, <2>2, <2>3 DEF DiskInv
  <1> QED
    BY <1>6, <1>7, <1>9, <1>10

\* The other steps of handleIncomingStream move the transfer on and touch
\* neither the file nor the stream.
LEMMA AnnouncePreserves ==
  ASSUME IndInv, NEW t \in Transfers,
         HeaderFails(t) \/ ReceiveFails(t) \/ Ack(t) \/ AnnounceComplete(t)
  PROVE  IndInv'
  <1> USE DEF IndInv
  <1>1. wire[t] # "closed"
    BY DEF HeaderFails, ReceiveFails, Ack, AnnounceComplete, StreamInv
  <1>2. phase[t] = "done" => rx[t] \in {"acked", "complete", "unannounced"}
    BY DEF SuccessMeansRead
  <1>3. UNCHANGED <<got, has, disk, creator, tainted, sendVars>>
    BY DEF HeaderFails, ReceiveFails, Ack, AnnounceComplete
  <1>4. NodeType'
    <2>1. To[t] \in Nodes
      BY ActorsAssumption
    <2>2. CASE UNCHANGED nodeVars
      BY <2>2 DEF NodeType, nodeVars
    <2>3. ASSUME NEW e \in {"complete", "failed"}, Publish(To[t], e)
          PROVE  NodeType'
      BY <2>1, <2>3 DEF Publish, NodeType
    <2> QED
      BY <2>2, <2>3 DEF HeaderFails, ReceiveFails, Ack, AnnounceComplete
  <1>5. CASE HeaderFails(t)
    <2>1. rx[t] = "none" /\ rx' = [rx EXCEPT ![t] = "dead"]
      BY <1>5 DEF HeaderFails
    <2> QED
      BY <1>1, <1>2, <1>3, <1>4, <2>1, RxMovePreserves DEF RxStates
  <1>6. CASE ReceiveFails(t)
    <2>1. rx[t] \in {"none", "writing"} /\ rx' = [rx EXCEPT ![t] = "failed"]
      BY <1>6 DEF ReceiveFails
    <2> QED
      BY <1>1, <1>2, <1>3, <1>4, <2>1, RxMovePreserves DEF RxStates
  <1>7. CASE Ack(t)
    <2>1. rx[t] = "written" /\ rx' = [rx EXCEPT ![t] = "acked"]
      BY <1>7 DEF Ack
    <2> QED
      BY <1>1, <1>2, <1>3, <1>4, <2>1, RxMovePreserves DEF RxStates, Written
  <1>8. CASE AnnounceComplete(t)
    <2>1. rx[t] = "acked" /\ rx' = [rx EXCEPT ![t] = "complete"]
      BY <1>8 DEF AnnounceComplete
    <2> QED
      BY <1>1, <1>2, <1>3, <1>4, <2>1, RxMovePreserves DEF RxStates, Written
  <1> QED
    BY <1>5, <1>6, <1>7, <1>8

-----------------------------------------------------------------------------
(* Steps of the commands, and processes that end *)

\* The end of a process cuts its transfers short but changes no file.
LEMMA StopPreserves ==
  ASSUME IndInv, NEW n \in Nodes, StopNode(n), NodeType'
  PROVE  IndInv'
  <1> USE DEF IndInv
  <1>1. /\ UNCHANGED <<size, got, has, disk, creator, tainted>>
        /\ \A t \in Transfers :
             /\ phase'[t] = IF From[t] = n /\ phase[t] \in {"negotiating", "accepted", "sending"}
                            THEN "failed" ELSE phase[t]
             /\ wire'[t] = IF \/ To[t] = n /\ wire[t] # "closed"
                              \/ From[t] = n /\ wire[t] = "open"
                           THEN "reset" ELSE wire[t]
             /\ rx'[t] = IF To[t] # n THEN rx[t]
                         ELSE IF rx[t] = "writing" THEN "dead"
                         ELSE IF rx[t] \in {"written", "acked"} THEN "unannounced"
                         ELSE rx[t]
    BY DEF StopNode
  <1>2. SendType' /\ RecvType'
    <2>1. phase' \in [Transfers -> Phases]
      BY DEF StopNode, SendType, Phases
    <2>2. wire' \in [Transfers -> {"closed", "open", "eof", "reset"}]
      BY DEF StopNode, SendType
    <2>3. rx' \in [Transfers -> RxStates]
      BY DEF StopNode, RecvType, RxStates
    <2> QED
      BY <1>1, <2>1, <2>2, <2>3 DEF SendType, RecvType
  <1>3. StreamInv'
    BY <1>1 DEF StreamInv, Written
  <1>4. SuccessMeansRead'
    BY <1>1 DEF SuccessMeansRead
  <1>5. DiskInv'
    <2>1. \A u \in Transfers : /\ rx'[u] = "writing" => rx[u] = "writing"
                               /\ rx'[u] = "none" => rx[u] = "none"
                               /\ Stored(u)' => Stored(u)
      BY <1>1 DEF Stored
    <2> QED
      BY <1>1, <2>1 DEF DiskInv, CreatorInv
  <1> QED
    BY <1>2, <1>3, <1>4, <1>5

\* The steps of the commands.
LEMMA CommandPreserves ==
  ASSUME IndInv, NEW n \in Nodes, CommandStep(n) \/ Restart(n)
  PROVE  IndInv'
  <1> USE DEF IndInv
  <1>1. ASSUME WriteFileTo(n), UNCHANGED <<session, waiting, inbox>>
        PROVE  NodeType'
    <2>1. Length(disk[n]) \in 0..Size
      BY LengthType DEF RecvType
    <2> QED
      BY <1>1, <2>1 DEF WriteFileTo, NodeType, CmdStates
  <1>2. CASE GetFromStore(n) \/ GetSaves(n)
    BY <1>1, <1>2, StopPreserves DEF GetFromStore, GetSaves
  <1>3. CASE GetFails(n) \/ ReceiveEnds(n)
    <2>1. NodeType'
      BY <1>3 DEF GetFails, ReceiveEnds, NodeType, CmdStates
    <2> QED
      BY <1>3, <2>1, StopPreserves DEF GetFails, ReceiveEnds
  <1>4. CASE Restart(n)
    <2>1. NodeType'
      BY <1>4, SizeAssumption DEF Restart, NodeType, CmdStates
    <2> QED
      BY <1>4, <2>1, StopPreserves DEF Restart
  <1>5. CASE \/ SetSession(n) \/ ClearSession(n) \/ GetFromPeers(n)
            \/ GetBroadcasts(n) \/ GetSeesComplete(n)
    <2>1. UNCHANGED <<sendVars, recvVars>>
      BY <1>5 DEF SetSession, ClearSession, GetFromPeers, GetBroadcasts, GetSeesComplete
    <2>2. NodeType'
      BY <1>5 DEF SetSession, ClearSession, GetFromPeers, GetBroadcasts, GetSeesComplete,
                  NodeType, CmdStates
    <2>3. SendType' /\ RecvType'
      BY <2>1 DEF SendType, RecvType, sendVars, recvVars
    <2>4. StreamInv' /\ SuccessMeansRead'
      BY <2>1 DEF StreamInv, SuccessMeansRead, Written, sendVars, recvVars
    <2>5. DiskInv'
      BY <2>1, DiskInvKept DEF sendVars
    <2> QED
      BY <2>2, <2>3, <2>4, <2>5
  <1> QED
    BY <1>2, <1>3, <1>4, <1>5 DEF CommandStep

\* Every step of the system keeps the invariant.
LEMMA NextPreserves == IndInv /\ [Next]_vars => IndInv'
  <1> SUFFICES ASSUME IndInv, [Next]_vars PROVE IndInv'
    OBVIOUS
  <1>1. CASE UNCHANGED vars
    <2>1. UNCHANGED <<sendVars, recvVars, nodeVars>>
      BY <1>1 DEF vars
    <2>2. DiskInv'
      BY <2>1, DiskInvKept DEF IndInv, sendVars
    <2> QED
      BY <2>1, <2>2 DEF IndInv, SendType, RecvType, NodeType, StreamInv,
         SuccessMeansRead, Written, sendVars, recvVars, nodeVars
  <1>2. ASSUME NEW t \in Transfers,
               SenderStep(t) \/ ReceiverStep(t) \/ ConnectionBreaks(t)
        PROVE  IndInv'
    BY <1>2, SenderPreserves, BeginPreserves, ReceiveUnitPreserves,
       FinishPreserves, AnnouncePreserves DEF ReceiverStep
  <1>3. ASSUME NEW n \in Nodes, CommandStep(n) \/ Restart(n)
        PROVE  IndInv'
    BY <1>3, CommandPreserves
  <1> QED
    BY <1>1, <1>2, <1>3 DEF Next

-----------------------------------------------------------------------------
(* The theorems *)

\* The inductive invariant holds in every reachable state.
THEOREM Invariance == Spec => []IndInv
  BY InitEstablishes, NextPreserves, PTL DEF Spec

\* Type correctness: in particular no receiver reads more than was announced,
\* and no frame of a file is longer than the content's.
THEOREM TypeCorrect == Spec => []TypeOK
  BY Invariance, IndInvType, PTL

\* Between StoreFileToPeer and handleIncomingStream: a sender that reports
\* success was read to the last unit, for any number of concurrent transfers,
\* deadlines, broken connections and killed processes.
THEOREM SuccessMeansReadHolds == Spec => []SuccessMeansRead
  <1>1. IndInv => SuccessMeansRead
    BY DEF IndInv
  <1> QED
    BY <1>1, Invariance, PTL

\* store.Write under concurrent deliveries: if the transfer that truncated the
\* file last stored the whole content, the file is whole.
THEOREM LastCreatorWinsHolds == Spec => []LastCreatorWins
  <1>1. IndInv => LastCreatorWins
    <2> SUFFICES ASSUME IndInv, NEW n \in Nodes \ tainted, NEW t \in Transfers,
                        creator[n] = t, Stored(t)
                 PROVE  Whole(disk[n])
      BY DEF LastCreatorWins
    <2>1. HasFrames(disk[n], Frames)
      BY DEF IndInv, DiskInv, CreatorInv
    <2>2. disk[n].n \in 0..Frames /\ Frames \in Nat
      BY FramesFacts DEF IndInv, RecvType, Files
    <2> QED
      BY <2>1, <2>2 DEF HasFrames, Whole
  <1> QED
    BY <1>1, Invariance, PTL
=============================================================================
