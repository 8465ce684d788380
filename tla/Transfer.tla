------------------------------ MODULE Transfer ------------------------------
(***************************************************************************)
(* Moving one file between nodes: StoreFileToPeer and its negotiation      *)
(* (internal/fileserver/fileserver.go), the transfer stream (transfer.go), *)
(* the store it ends in (internal/store), and the get and receive commands *)
(* around it (cmd/node/main.go, pkg/operations).                           *)
(*                                                                         *)
(* A transfer t is one call of StoreFileToPeer, at node From[t], for node  *)
(* To[t]: a holder that answers a get, a send command, or a replication.   *)
(* All transfers are of the same key.  What the receiving node has written *)
(* is a file of module EncryptedFile.                                      *)
(***************************************************************************)
EXTENDS EncryptedFile

CONSTANTS
    Nodes,
    Transfers,
    From, To,       \* the sending and the receiving node of a transfer
    Answers,        \* the transfers that answer the request of a get command
    Holders,        \* the nodes that start with the whole file
    Getters,        \* the nodes that run the get command
    Receivers,      \* the nodes that run receive --session
    Session,        \* Session[t]: the session name that the sender supplies
    NoSession,      \* the empty session name
    TheSession,     \* the session name of the receive commands
    NoTransfer,     \* no transfer has created the file
    Faults          \* which of FaultKinds may happen

\* A deadline of the stream passes; the connection breaks; store.Write fails;
\* a process is killed; a command is interrupted with Ctrl+C.
FaultKinds == {"deadline", "connection", "disk", "crash", "interrupt"}

ASSUME ActorsAssumption ==
    /\ From \in [Transfers -> Nodes]
    /\ To \in [Transfers -> Nodes]
    /\ \A t \in Transfers : From[t] # To[t]
    /\ Answers \subseteq {t \in Transfers : To[t] \in Getters}
    /\ Holders \subseteq Nodes
    /\ Getters \subseteq Nodes \ Holders
    /\ Receivers \subseteq Nodes \ Getters
    /\ Session \in [Transfers -> {NoSession, TheSession}]
    /\ NoSession # TheSession
    /\ NoTransfer \notin Transfers
    /\ Faults \subseteq FaultKinds

VARIABLES
    phase,      \* phase[t]: how far StoreFileToPeer has come
    wire,       \* wire[t]: the transfer stream, as its receiver finds it
    size,       \* size[t]: the size announced in the stream's header
    rx,         \* rx[t]: how far handleIncomingStream has come
    got,        \* got[t]: the units that the receiver has read
    has,        \* the nodes with a file for the key: store.Has
    disk,       \* disk[n]: that file
    session,    \* session[n]: FileServer.sessionName
    waiting,    \* the nodes with an entry for the key in FileServer.waiters
    cmd,        \* cmd[n]: how far the get or the receive command has come
    inbox,      \* inbox[n]: the events in its completeCh and failedCh
    out,        \* out[n]: the units that it saved to its output path
    creator,    \* history: the transfer that last truncated disk[n]
    tainted     \* history: a stream wrote a shortened content into disk[n]

sendVars == <<phase, wire, size>>
recvVars == <<rx, got, has, disk, creator, tainted>>
nodeVars == <<session, waiting, cmd, inbox, out>>
vars == <<sendVars, recvVars, nodeVars>>

Phases == {"idle", "negotiating", "accepted", "sending", "done", "exists",
           "rejected", "failed"}
RxStates == {"none", "writing", "written", "acked", "complete", "failed",
             "dead", "unannounced"}
CmdStates == {"idle", "asking", "waiting", "copying", "saved", "error",
              "receiving", "closing", "ended"}

TypeOK ==
    /\ phase \in [Transfers -> Phases]
    /\ wire \in [Transfers -> {"closed", "open", "eof", "reset"}]
    /\ size \in [Transfers -> 0..Size]
    /\ rx \in [Transfers -> RxStates]
    /\ got \in [Transfers -> 0..Size]
    /\ has \subseteq Nodes
    /\ disk \in [Nodes -> Files]
    /\ session \in [Nodes -> {NoSession, TheSession}]
    /\ waiting \subseteq Nodes
    /\ cmd \in [Nodes -> CmdStates]
    /\ inbox \in [Nodes -> SUBSET {"complete", "failed"}]
    /\ out \in [Nodes -> 0..Size]
    /\ creator \in [Nodes -> Transfers \cup {NoTransfer}]
    /\ tainted \subseteq Nodes

Init ==
    /\ phase = [t \in Transfers |-> "idle"]
    /\ wire = [t \in Transfers |-> "closed"]
    /\ size = [t \in Transfers |-> 0]
    /\ rx = [t \in Transfers |-> "none"]
    /\ got = [t \in Transfers |-> 0]
    /\ has = Holders
    /\ disk = [n \in Nodes |-> IF n \in Holders THEN WholeFile ELSE EmptyFile]
    /\ session = [n \in Nodes |-> NoSession]
    /\ waiting = {}
    /\ cmd = [n \in Nodes |-> "idle"]
    /\ inbox = [n \in Nodes |-> {}]
    /\ out = [n \in Nodes |-> 0]
    /\ creator = [n \in Nodes |-> NoTransfer]
    /\ tainted = {}

\* The command at n has not ended, and its node not stopped.
Up(n) == cmd[n] \notin {"saved", "error", "ended"}

-----------------------------------------------------------------------------
(* StoreFileToPeer, at the sending node *)

\* deliverToRequester (after the broadcast of a get), SendFile and
\* StoreFileToNetwork call it for a file that the local store Has, and it asks
\* the receiver.
StartTransfer(t) ==
    /\ phase[t] = "idle"
    /\ From[t] \in has
    /\ Up(From[t]) /\ Up(To[t])
    /\ t \in Answers => cmd[To[t]] \in {"waiting", "copying"}
    /\ phase' = [phase EXCEPT ![t] = "negotiating"]
    /\ UNCHANGED <<wire, size, recvVars, nodeVars>>

\* The answer does not come: no connection, or the limits refuse the request.
NegotiationFails(t) ==
    /\ phase[t] = "negotiating"
    /\ phase' = [phase EXCEPT ![t] = "failed"]
    /\ UNCHANGED <<wire, size, recvVars, nodeVars>>

\* store.Read decrypts the whole local file into memory, before the stream is
\* opened and its header, with the size of what was read, is written.
OpenStream(t) ==
    /\ phase[t] = "accepted"
    /\ Up(To[t])
    /\ Readable(disk[From[t]])
    /\ phase' = [phase EXCEPT ![t] = "sending"]
    /\ size' = [size EXCEPT ![t] = Length(disk[From[t]])]
    /\ wire' = [wire EXCEPT ![t] = "open"]
    /\ UNCHANGED <<recvVars, nodeVars>>

\* store.Read meets an undecryptable frame, or the stream cannot be opened.
OpenFails(t) ==
    /\ phase[t] = "accepted"
    /\ phase' = [phase EXCEPT ![t] = "failed"]
    /\ UNCHANGED <<wire, size, recvVars, nodeVars>>

\* SendFile returns an error after its write deadline or after 30 s without an
\* answer; the deferred Close ends the stream like the end of a file.
SenderGivesUp(t) ==
    /\ "deadline" \in Faults
    /\ phase[t] = "sending"
    /\ phase' = [phase EXCEPT ![t] = "failed"]
    /\ wire' = [wire EXCEPT ![t] = IF @ = "open" THEN "eof" ELSE @]
    /\ UNCHANGED <<size, recvVars, nodeVars>>

\* SendFile reads the byte that the receiver answers with.
ReadResponse(t) ==
    /\ phase[t] = "sending"
    /\ \/ /\ rx[t] \in {"acked", "complete"}
          /\ phase' = [phase EXCEPT ![t] = "done"]
       \/ /\ rx[t] \in {"failed", "dead"} \/ wire[t] = "reset"
          /\ phase' = [phase EXCEPT ![t] = "failed"]
    /\ UNCHANGED <<wire, size, recvVars, nodeVars>>

-----------------------------------------------------------------------------
(* The receiving node *)

\* handleStoreFileMessage: an awaited key passes whatever the session.
HandleStoreFile(t) ==
    LET n == To[t] IN
    /\ phase[t] = "negotiating"
    /\ Up(n)
    /\ phase' = [phase EXCEPT ![t] =
            IF n \notin waiting /\ session[n] # NoSession /\ Session[t] # session[n]
            THEN "rejected"
            ELSE IF n \in has THEN "exists" ELSE "accepted"]
    /\ UNCHANGED <<wire, size, recvVars, nodeVars>>

\* handleIncomingStream has read the header and enters store.Write.
BeginReceive(t) ==
    LET n == To[t] IN
    /\ rx[t] = "none"
    /\ wire[t] \in {"open", "eof"}
    /\ Up(n)
    /\ rx' = [rx EXCEPT ![t] = "writing"]
    /\ has' = has \cup {n}
    /\ disk' = [disk EXCEPT ![n] = EmptyFile]
    /\ creator' = [creator EXCEPT ![n] = t]
    /\ tainted' = IF size[t] < Size THEN tainted \cup {n} ELSE tainted
    /\ UNCHANGED <<got, sendVars, nodeVars>>

\* The header does not arrive, or not in 30 s: handleIncomingStream returns and
\* its deferred Close leaves the sender without an answer.
HeaderFails(t) ==
    /\ rx[t] = "none"
    /\ wire[t] \in {"eof", "reset"} \/ (wire[t] = "open" /\ "deadline" \in Faults)
    /\ rx' = [rx EXCEPT ![t] = "dead"]
    /\ UNCHANGED <<got, has, disk, creator, tainted, sendVars, nodeVars>>

\* Mutant: the stream is read without the LimitReader.
ReceiveUnlimited(t) ==
    LET n == To[t] IN
    /\ rx[t] = "writing"
    /\ wire[t] \in {"open", "eof"}
    /\ got[t] <= size[t]
    /\ got' = [got EXCEPT ![t] = @ + 1]
    /\ disk' = [disk EXCEPT ![n] = WriteUnit(@, got[t] + 1)]
    /\ UNCHANGED <<rx, has, creator, tainted, sendVars, nodeVars>>

\* The copy loop reads one more unit, reports the progress and writes it.
ReceiveUnit(t) ==
    LET n == To[t] IN
    /\ rx[t] = "writing"
    /\ wire[t] \in {"open", "eof"}
    /\ got[t] < size[t]
    /\ got' = [got EXCEPT ![t] = @ + 1]
    /\ disk' = [disk EXCEPT ![n] = WriteUnit(@, got[t] + 1)]
    /\ UNCHANGED <<rx, has, creator, tainted, sendVars, nodeVars>>

\* The reader is at its end: the announced size has come, or the stream ended.
AtEnd(t) == got[t] = size[t] \/ wire[t] = "eof"

\* Close flushes the last chunk and store.Write returns without an error; the
\* size that was written is not compared with the size that was announced.
FinishWrite(t) ==
    LET n == To[t] IN
    /\ rx[t] = "writing"
    /\ AtEnd(t)
    /\ rx' = [rx EXCEPT ![t] = "written"]
    /\ disk' = [disk EXCEPT ![n] = CloseWriter(@, got[t])]
    /\ tainted' = IF got[t] < Size /\ got[t] % 2 = 1
                  THEN tainted \cup {n} ELSE tainted
    /\ UNCHANGED <<got, has, creator, sendVars, nodeVars>>

\* Mutant: the sender is told of the success before the file is written.
AckEarly(t) ==
    /\ rx[t] \in {"writing", "written"}
    /\ rx' = [rx EXCEPT ![t] = "acked"]
    /\ UNCHANGED <<got, has, disk, creator, tainted, sendVars, nodeVars>>

\* s.Write([]byte{1})
Ack(t) ==
    /\ rx[t] = "written"
    /\ rx' = [rx EXCEPT ![t] = "acked"]
    /\ UNCHANGED <<got, has, disk, creator, tainted, sendVars, nodeVars>>

\* Publish to the get command at n, if it has subscribed; and
\* notifyTransferComplete.
Publish(n, event) ==
    /\ inbox' = IF cmd[n] = "waiting"
                THEN [inbox EXCEPT ![n] = @ \cup {event}] ELSE inbox
    /\ waiting' = waiting \ {n}
    /\ UNCHANGED <<session, cmd, out>>

\* FileReceiveComplete is published and the waiters are notified.
AnnounceComplete(t) ==
    /\ rx[t] = "acked"
    /\ rx' = [rx EXCEPT ![t] = "complete"]
    /\ Publish(To[t], "complete")
    /\ UNCHANGED <<got, has, disk, creator, tainted, sendVars>>

\* store.Write returns an error: the file cannot be created; or the stream was
\* reset, its read deadline has passed or the disk is full, and then the chunks
\* on disk stay and the buffered one is lost.  FileReceiveFailed is published
\* and the waiters are notified.
ReceiveFails(t) ==
    /\ \/ /\ rx[t] = "none"
          /\ wire[t] \in {"open", "eof"}
          /\ Up(To[t])
          /\ "disk" \in Faults
       \/ /\ rx[t] = "writing"
          /\ wire[t] = "reset" \/ Faults \cap {"deadline", "disk"} # {}
    /\ rx' = [rx EXCEPT ![t] = "failed"]
    /\ Publish(To[t], "failed")
    /\ UNCHANGED <<got, has, disk, creator, tainted, sendVars>>

\* The connection under a transfer stream breaks.
ConnectionBreaks(t) ==
    /\ "connection" \in Faults
    /\ wire[t] = "open"
    /\ wire' = [wire EXCEPT ![t] = "reset"]
    /\ UNCHANGED <<phase, size, recvVars, nodeVars>>

-----------------------------------------------------------------------------
(* Commands and processes *)

\* What the end of the process at n does to the transfers it takes part in.
\* Its files stay as they are.
StopNode(n) ==
    /\ phase' = [t \in Transfers |->
            IF From[t] = n /\ phase[t] \in {"negotiating", "accepted", "sending"}
            THEN "failed" ELSE phase[t]]
    /\ wire' = [t \in Transfers |->
            IF \/ To[t] = n /\ wire[t] # "closed"
               \/ From[t] = n /\ wire[t] = "open"
            THEN "reset" ELSE wire[t]]
    /\ rx' = [t \in Transfers |->
            IF To[t] # n THEN rx[t]
            ELSE IF rx[t] = "writing" THEN "dead"
            ELSE IF rx[t] \in {"written", "acked"} THEN "unannounced"
            ELSE rx[t]]
    /\ UNCHANGED <<size, got, has, disk, creator, tainted>>

\* runReceive: startServer, the wait for the relay, and then SetSession.
SetSession(n) ==
    /\ n \in Receivers
    /\ cmd[n] = "idle"
    /\ session' = [session EXCEPT ![n] = TheSession]
    /\ cmd' = [cmd EXCEPT ![n] = "receiving"]
    /\ UNCHANGED <<sendVars, recvVars, waiting, inbox, out>>

\* Ctrl+C: StartReceiveSession returns and its deferred ClearSession runs, with
\* the node still up.
ClearSession(n) ==
    /\ "interrupt" \in Faults
    /\ cmd[n] = "receiving"
    /\ session' = [session EXCEPT ![n] = NoSession]
    /\ cmd' = [cmd EXCEPT ![n] = "closing"]
    /\ UNCHANGED <<sendVars, recvVars, waiting, inbox, out>>

\* The end of runReceive, and its deferred Stop.
ReceiveEnds(n) ==
    /\ cmd[n] = "closing"
    /\ cmd' = [cmd EXCEPT ![n] = "ended"]
    /\ StopNode(n)
    /\ UNCHANGED <<session, waiting, inbox, out>>

\* WriteFileTo: read the store, write what was read to the output path.
WriteFileTo(n) ==
    IF Readable(disk[n])
    THEN /\ cmd' = [cmd EXCEPT ![n] = "saved"]
         /\ out' = [out EXCEPT ![n] = Length(disk[n])]
    ELSE /\ cmd' = [cmd EXCEPT ![n] = "error"]
         /\ UNCHANGED out

\* runGet finds the file in the local store, saves it and ends.
GetFromStore(n) ==
    /\ n \in Getters
    /\ cmd[n] = "idle"
    /\ n \in has
    /\ WriteFileTo(n)
    /\ StopNode(n)
    /\ UNCHANGED <<session, waiting, inbox>>

\* runGet does not find it and waits for peers.
GetFromPeers(n) ==
    /\ n \in Getters
    /\ cmd[n] = "idle"
    /\ n \notin has
    /\ cmd' = [cmd EXCEPT ![n] = "asking"]
    /\ UNCHANGED <<sendVars, recvVars, session, waiting, inbox, out>>

\* runGet subscribes, registers the waiter and broadcasts the request.
GetBroadcasts(n) ==
    /\ cmd[n] = "asking"
    /\ cmd' = [cmd EXCEPT ![n] = "waiting"]
    /\ waiting' = waiting \cup {n}
    /\ UNCHANGED <<sendVars, recvVars, session, inbox, out>>

\* FileReceiveComplete ends the loop of runGet.
GetSeesComplete(n) ==
    /\ cmd[n] = "waiting"
    /\ "complete" \in inbox[n]
    /\ cmd' = [cmd EXCEPT ![n] = "copying"]
    /\ UNCHANGED <<sendVars, recvVars, session, waiting, inbox, out>>

\* There are no peers; or FileReceiveFailed, or Ctrl+C, ends the loop: the
\* command ends with an error.
GetFails(n) ==
    /\ \/ cmd[n] = "asking"
       \/ cmd[n] = "waiting" /\ ("failed" \in inbox[n] \/ "interrupt" \in Faults)
    /\ cmd' = [cmd EXCEPT ![n] = "error"]
    /\ StopNode(n)
    /\ UNCHANGED <<session, waiting, inbox, out>>

\* The copy to the output path, and the end of the command.
GetSaves(n) ==
    /\ cmd[n] = "copying"
    /\ WriteFileTo(n)
    /\ StopNode(n)
    /\ UNCHANGED <<session, waiting, inbox>>

\* The process at n is killed, or has ended, and is started again.
Restart(n) ==
    /\ "crash" \in Faults
    /\ StopNode(n)
    /\ session' = [session EXCEPT ![n] = NoSession]
    /\ waiting' = waiting \ {n}
    /\ cmd' = [cmd EXCEPT ![n] = "idle"]
    /\ inbox' = [inbox EXCEPT ![n] = {}]
    /\ out' = [out EXCEPT ![n] = 0]

-----------------------------------------------------------------------------
SenderStep(t) ==
    \/ StartTransfer(t) \/ NegotiationFails(t)
    \/ OpenStream(t) \/ OpenFails(t)
    \/ SenderGivesUp(t) \/ ReadResponse(t)

ReceiverStep(t) ==
    \/ HandleStoreFile(t)
    \/ BeginReceive(t) \/ HeaderFails(t)
    \/ ReceiveUnit(t) \/ FinishWrite(t) \/ ReceiveFails(t)
    \/ Ack(t) \/ AnnounceComplete(t)

CommandStep(n) ==
    \/ SetSession(n) \/ ClearSession(n) \/ ReceiveEnds(n)
    \/ GetFromStore(n) \/ GetFromPeers(n) \/ GetBroadcasts(n)
    \/ GetSeesComplete(n) \/ GetFails(n) \/ GetSaves(n)

Next ==
    \/ \E t \in Transfers : SenderStep(t) \/ ReceiverStep(t) \/ ConnectionBreaks(t)
    \/ \E n \in Nodes : CommandStep(n) \/ Restart(n)

Spec == Init /\ [][Next]_vars

-----------------------------------------------------------------------------
\* store.Write of the whole content has returned for t, announced or not.
Stored(t) ==
    rx[t] \in {"written", "acked", "complete", "unannounced"} /\ got[t] = Size

\* Several deliveries may write one file at once, each through its own
\* descriptor.  If the one that truncated the file last has stored the whole
\* content, the file is whole, whatever the others did before and since - as
\* long as no stream with a shortened content was mixed in.
LastCreatorWins ==
    \A n \in Nodes \ tainted : \A t \in Transfers :
        creator[n] = t /\ Stored(t) => Whole(disk[n])

\* A sender that reports success has been read to the last unit, and all of
\* it was written before the receiver said so: no error path of the stream is
\* mistaken for success by the sender.
SuccessMeansRead ==
    \A t \in Transfers : phase[t] = "done" =>
        got[t] = size[t] /\ rx[t] \in {"acked", "complete", "unannounced"}

\* "The command waits until delivery completes" (README.md:55): what the get
\* command saves is the file.
SavedIsWhole == \A n \in Nodes : cmd[n] = "saved" => out[n] = Size
=============================================================================
