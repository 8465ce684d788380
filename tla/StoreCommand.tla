---------------------------- MODULE StoreCommand ----------------------------
(***************************************************************************)
(* StoreFile and StoreFileToNetwork of internal/fileserver/fileserver.go   *)
(* as the store and send commands of one node call them, one after the     *)
(* other, for one file: operations.StoreLocally and SendFile with          *)
(* replication factor 0, other callers with more.  Meanwhile others write  *)
(* the same file: the streams that the node receives, and the processes    *)
(* that share its storage root.  The file is the one of EncryptedFile; a   *)
(* transfer to a peer is module Transfer, of which only the outcome        *)
(* matters here.                                                           *)
(***************************************************************************)
EXTENDS EncryptedFile, Sequences, FiniteSets, SequencesExt

CONSTANTS
    Peers,          \* the storage peers there may be
    Factors,        \* the replication factors that callers ask for
    Streams,        \* the transfers of the file that the node receives
    Processes,      \* the stores and transfers of the file in other processes
    Self            \* the store.Write of StoreFile itself

Others == Streams \cup Processes
Writers == Others \cup {Self}

ASSUME StoreAssumption ==
    /\ IsFiniteSet(Peers) /\ Factors \subseteq Nat
    /\ Self \notin Others /\ Streams \cap Processes = {}

VARIABLES
    connected,      \* FileServer.peers
    has,            \* store.Has(key)
    disk,           \* the file of the key
    step,           \* where StoreFile is
    factor,         \* replicationFactor
    other,          \* other[w]: how far another writer is
    got,            \* got[w]: the units that a store.Write has read
    list,           \* the peers that StoreFileToNetwork goes through
    j,              \* its loop variable, from 1
    stored,         \* the peers counted in successCount
    result,         \* what the last call returned
    cut             \* history: a write of the file ended before it had all of it

callVars == <<factor, list, j, stored>>
vars == <<connected, has, disk, step, other, got, callVars, result, cut>>

TypeOK ==
    /\ connected \subseteq Peers
    /\ has \in BOOLEAN
    /\ disk \in Files
    /\ step \in {"idle", "check", "open", "writing", "peers", "list", "network"}
    /\ factor \in Factors
    /\ other \in [Others -> {"idle", "open", "writing", "ended"}]
    /\ got \in [Writers -> 0..Size]
    /\ list \in Seq(Peers) /\ Len(list) <= Cardinality(Peers)
    /\ j \in 1..(Len(list) + 1)
    /\ stored \subseteq Peers
    /\ result \in {"none", "ok", "error"}
    /\ cut \in BOOLEAN

Init ==
    /\ connected = {}
    /\ has = FALSE
    /\ disk = EmptyFile
    /\ step = "idle"
    /\ factor \in Factors
    /\ other = [w \in Others |-> "idle"]
    /\ got = [w \in Writers |-> 0]
    /\ list = <<>>
    /\ j = 1
    /\ stored = {}
    /\ result = "none"
    /\ cut = FALSE

-----------------------------------------------------------------------------
(* store.Write, of whatever writer *)

\* os.Create: what another writer has written by then is gone.
Create(w) ==
    /\ has' = TRUE
    /\ disk' = EmptyFile
    /\ got' = [got EXCEPT ![w] = 0]

\* io.Copy reads one more unit and writes it.
Copy(w) ==
    /\ got[w] < Size
    /\ got' = [got EXCEPT ![w] = @ + 1]
    /\ disk' = WriteUnit(disk, got[w] + 1)

\* The writers that are between the creation of the file and its Close.
Writing ==
    {w \in Others : other[w] = "writing"} \cup {w \in {Self} : step = "writing"}

-----------------------------------------------------------------------------
(* StoreFile *)

Begin ==
    /\ step = "idle"
    /\ factor' \in Factors
    /\ step' = "check"
    /\ list' = <<>>
    /\ j' = 1
    /\ stored' = {}
    /\ result' = "none"
    /\ UNCHANGED <<connected, has, disk, other, got, cut>>

\* store.Has: a file that is there, whole or not, is not written again.
FindLocal ==
    /\ step = "check"
    /\ step' = IF has THEN "peers" ELSE "open"
    /\ UNCHANGED <<connected, has, disk, other, got, callVars, result, cut>>

\* store.Write creates the file, which another writer may have done since.
CreateLocal ==
    /\ step = "open"
    /\ Create(Self)
    /\ step' = "writing"
    /\ UNCHANGED <<connected, other, callVars, result, cut>>

\* Mutant: the copy goes on past the end of the source.
WriteLocalPast ==
    /\ step = "writing"
    /\ got[Self] <= Size
    /\ got' = [got EXCEPT ![Self] = @ + 1]
    /\ UNCHANGED <<connected, has, disk, step, other, callVars, result, cut>>

WriteLocal ==
    /\ step = "writing"
    /\ Copy(Self)
    /\ UNCHANGED <<connected, has, step, other, callVars, result, cut>>

CloseLocal ==
    /\ step = "writing"
    /\ got[Self] = Size
    /\ disk' = CloseWriter(disk, got[Self])
    /\ step' = "peers"
    /\ UNCHANGED <<connected, has, other, got, callVars, result, cut>>

Return(r) ==
    /\ step' = "idle"
    /\ result' = r
    /\ UNCHANGED <<connected, has, disk, other, got, callVars>>

\* The source cannot be read, or the disk is full: what was written stays.
WriteLocalFails == step = "writing" /\ Return("error") /\ cut' = TRUE

\* os.Open of the source, or os.Create, fails.
OpenFails == step = "open" /\ Return("error") /\ UNCHANGED cut

\* The process is killed, and the streams that it receives end with it: what
\* was written stays, and is all that stays.
Killed ==
    /\ step # "idle"
    /\ connected' = {}
    /\ step' = "idle"
    /\ other' = [w \in Others |-> IF w \in Streams THEN "ended" ELSE other[w]]
    /\ cut' = (cut \/ Writing \ Processes # {})
    /\ UNCHANGED <<has, disk, got, callVars, result>>

\* The first ListPeers: stored locally only.
NoPeers == step = "peers" /\ connected = {} /\ Return("ok") /\ UNCHANGED cut

SomePeers ==
    /\ step = "peers"
    /\ connected # {}
    /\ step' = "list"
    /\ UNCHANGED <<connected, has, disk, other, got, callVars, result, cut>>

-----------------------------------------------------------------------------
(* The other writers *)

\* handleStoreFileMessage, or the StoreFile of another process, does not find
\* the file.  (If it does, nothing is written.)
OtherBegins(w) ==
    /\ other[w] = "idle"
    /\ ~has
    /\ other' = [other EXCEPT ![w] = "open"]
    /\ UNCHANGED <<connected, has, disk, step, got, callVars, result, cut>>

\* The stream has come; or it never does.
OtherCreates(w) ==
    /\ other[w] = "open"
    /\ other' = [other EXCEPT ![w] = "writing"]
    /\ Create(w)
    /\ UNCHANGED <<connected, step, callVars, result, cut>>

OtherWrites(w) ==
    /\ other[w] = "writing"
    /\ Copy(w)
    /\ UNCHANGED <<connected, has, step, other, callVars, result, cut>>

\* The reader is at its end, which is that of the content, or the one that an
\* early end of the stream, or a sender with a part of the file, gave it.
OtherCloses(w) ==
    /\ other[w] = "writing"
    /\ disk' = CloseWriter(disk, got[w])
    /\ other' = [other EXCEPT ![w] = "ended"]
    /\ cut' = (cut \/ got[w] < Size)
    /\ UNCHANGED <<connected, has, step, got, callVars, result>>

\* store.Write returns an error, or its process is killed.
OtherFails(w) ==
    /\ other[w] \in {"open", "writing"}
    /\ other' = [other EXCEPT ![w] = "ended"]
    /\ cut' = (cut \/ other[w] = "writing")
    /\ UNCHANGED <<connected, has, disk, step, got, callVars, result>>

-----------------------------------------------------------------------------
(* StoreFileToNetwork *)

\* Its own ListPeers finds that they have all gone.
PeersGone == step = "list" /\ connected = {} /\ Return("error") /\ UNCHANGED cut

\* The peers in the order of the map's iteration.
ListPeers ==
    /\ step = "list"
    /\ connected # {}
    /\ list' \in SetToSeqs(connected)
    /\ step' = "network"
    /\ UNCHANGED <<connected, has, disk, other, got, factor, j, stored, result, cut>>

\* Mutant: <= for < in the test of the loop.
MoreToStoreLate == j <= factor + 1 /\ j <= Len(list)

\* The test of the loop, after replicationFactor was cut to the peers.
MoreToStore == j <= factor /\ j <= Len(list)

StoreToPeer ==
    /\ step = "network"
    /\ MoreToStore
    /\ stored' = stored \cup {list[j]}
    /\ j' = j + 1
    /\ UNCHANGED <<connected, has, disk, step, other, got, factor, list, result, cut>>

\* StoreFileToPeer returns an error, "already exists" among them.
StoreToPeerFails ==
    /\ step = "network"
    /\ MoreToStore
    /\ j' = j + 1
    /\ UNCHANGED <<connected, has, disk, step, other, got, factor, list, stored, result, cut>>

\* Mutant: the error of the last peer decides.
ReturnLastError ==
    /\ step = "network"
    /\ ~MoreToStore
    /\ Return(IF j > 1 /\ list[j - 1] \in stored THEN "ok" ELSE "error")
    /\ UNCHANGED cut

\* successCount decides.
ReturnCount ==
    /\ step = "network"
    /\ ~MoreToStore
    /\ Return(IF stored = {} THEN "error" ELSE "ok")
    /\ UNCHANGED cut

\* OnPeerConnect and OnPeerDisconnect, in the meantime.
PeerComes(p) ==
    /\ p \notin connected
    /\ connected' = connected \cup {p}
    /\ UNCHANGED <<has, disk, step, other, got, callVars, result, cut>>

PeerGoes(p) ==
    /\ p \in connected
    /\ connected' = connected \ {p}
    /\ UNCHANGED <<has, disk, step, other, got, callVars, result, cut>>

-----------------------------------------------------------------------------
Next ==
    \/ Begin \/ FindLocal \/ CreateLocal \/ WriteLocal \/ CloseLocal
    \/ OpenFails \/ WriteLocalFails \/ Killed \/ NoPeers \/ SomePeers
    \/ PeersGone \/ ListPeers \/ StoreToPeer \/ StoreToPeerFails \/ ReturnCount
    \/ \E p \in Peers : PeerComes(p) \/ PeerGoes(p)
    \/ \E w \in Others :
        OtherBegins(w) \/ OtherCreates(w) \/ OtherWrites(w) \/ OtherCloses(w) \/ OtherFails(w)

Spec == Init /\ [][Next]_vars

-----------------------------------------------------------------------------
\* No more peers are counted to have taken the file than were asked for, whoever
\* comes and goes while the loop runs.
ReplicasBounded == Cardinality(stored) <= factor

\* An error is never returned for a file that some peer was counted to have
\* taken, so that the caller does not repeat a replication that worked.
ErrorMeansNone == result = "error" => stored = {}

\* After a call that succeeded the whole file is in the store, whoever wrote it
\* and however their writes were mixed, with two exceptions: a write of it was
\* cut short, or somebody is writing it still.  (store.Has tells StoreFile
\* neither: it takes a file that another writer has only begun for stored.)
StoredUnlessCut == result = "ok" => has /\ (Whole(disk) \/ cut \/ Writing # {})
=============================================================================
