--------------------------- MODULE EncryptedFile ----------------------------
(***************************************************************************)
(* What internal/store keeps on disk for one key, and how encryption.go    *)
(* writes and reads it.  The content of a key is fixed (the key is its     *)
(* hash), so a piece of content is a length: the prefix of that many       *)
(* units.  A unit is half a chunk: enough to tell a full frame from the    *)
(* short one that Close flushes.                                           *)
(*                                                                         *)
(* A file is [n, at]: n frames long, at[i] the units that frame i decrypts *)
(* to, 0 when the bytes there are no frame (a gap that a write past the    *)
(* end left, or a short frame over a longer one).  A frame is written as a *)
(* whole: the torn one that a kill or a full disk can leave at the end of  *)
(* a file, whose writer is cut by then, is left out.                       *)
(***************************************************************************)
EXTENDS Integers

CONSTANT Size       \* the units of the whole content

ASSUME SizeAssumption == Size \in Nat

Frames == (Size + 1) \div 2     \* frames of the whole content

\* The units of frame i of the whole content.
FrameUnits(i) == IF 2 * i <= Size THEN 2 ELSE 1

Files ==
    [n  : 0..Frames,
     at : {g \in [1..Frames -> 0..2] : \A i \in 1..Frames : g[i] <= FrameUnits(i)}]

\* os.Create: the file is there, and empty.
EmptyFile == [n |-> 0, at |-> [i \in 1..Frames |-> 0]]

\* The file that StoreFile leaves on a node where it ran to its end.
WholeFile == [n |-> Frames, at |-> [i \in 1..Frames |-> FrameUnits(i)]]

\* writeChunk at frame i through a descriptor of its own: a full frame covers
\* what was there; a short one is good past the end or over one of its size.
WriteChunk(f, i, units) ==
    [n  |-> IF i > f.n THEN i ELSE f.n,
     at |-> [f.at EXCEPT ![i] =
                IF units = 2 \/ i > f.n \/ @ = units THEN units ELSE 0]]

\* encryptingWriter.Write of one more unit, the got-th: full chunks go out.
WriteUnit(f, got) == IF got % 2 = 0 THEN WriteChunk(f, got \div 2, 2) ELSE f

\* Mutant: the writer is dropped without Close.
NoClose(f, got) == f

\* encryptingWriter.Close after got units: the rest of the buffer goes out.
CloseWriter(f, got) ==
    IF got % 2 = 1 THEN WriteChunk(f, (got + 1) \div 2, 1) ELSE f

\* decryptingReader reads to the end of the file without an error.  Nothing
\* marks the end: a file that stops early reads like a shorter one.
Readable(f) == \A i \in 1..f.n : f.at[i] > 0 /\ (i < f.n => f.at[i] = 2)

\* What Store.Read returns of a readable file.
Length(f) == IF f.n = 0 THEN 0 ELSE 2 * (f.n - 1) + f.at[f.n]

Whole(f) == f.n = Frames /\ \A i \in 1..Frames : f.at[i] = FrameUnits(i)
=============================================================================
