----------------------------- MODULE GetCommand -----------------------------
(***************************************************************************)
(* The get command (runGet of cmd/node/main.go and operations.Get) on the  *)
(* event bus of its process, with the deliveries that come in meanwhile:   *)
(* the publishers of EventBus are the streams of handleIncomingStream      *)
(* (internal/fileserver/transfer.go), and "get" is the only subscriber of  *)
(* their types in its process.                                             *)
(*                                                                         *)
(* The command draws a progress bar per FileReceiveStarted and waits for   *)
(* all bars (p.Wait) between its loop and its return.  The bars belong to  *)
(* the library mpb: a bar is complete when it is told so or when its       *)
(* current value reaches its total, and the end of ctx completes them all. *)
(***************************************************************************)
EXTENDS EventBus, FiniteSets

CONSTANTS get       \* the subscriber that is the get command

ASSUME GetAssumption ==
    /\ Subscribers = {get} /\ Quitters = {get}
    /\ Types = {"started", "progress", "complete", "failed"}
    /\ Wants[get] = <<"started", "progress", "complete", "failed">>
    /\ Publishes = [d \in Publishers |-> Types]
    /\ IsFiniteSet(Publishers)

VARIABLES
    rx,         \* rx[d]: how far the delivery d has come
    has,        \* store.Has
    cmd,        \* how far runGet has come, as far as the bus does not say so
    cancelled,  \* ctx is done: Ctrl+C
    bar,        \* the progress bar that the variable bar of runGet points to
    lost        \* the bars that it pointed to before and that are not complete

delivery == <<rx, has>>
command == <<cmd, cancelled, bar, lost>>
getVars == <<vars, delivery, command>>

RxStates == {"none", "accepted", "exists", "started", "writing", "complete", "failed"}
CmdStates == {"idle", "finding", "asking", "complete", "failed", "cancelled",
              "saved", "error"}

GetTypeOK ==
    /\ TypeOK
    /\ rx \in [Publishers -> RxStates]
    /\ has \in BOOLEAN
    /\ cmd \in CmdStates
    /\ cancelled \in BOOLEAN
    /\ bar \in {"none", "open", "done"}
    /\ lost \in 0..Cardinality(Publishers)

GetInit ==
    /\ Init
    /\ rx = [d \in Publishers |-> "none"]
    /\ has = FALSE
    /\ cmd = "idle"
    /\ cancelled = FALSE
    /\ bar = "none"
    /\ lost = 0

-----------------------------------------------------------------------------
(* A delivery: the answer to a get, or a file that a peer sends anyway *)

\* handleStoreFileMessage: a file that is there, whole or not, is not taken in
\* again, and nothing is published for it.
Negotiate(d) ==
    /\ rx[d] = "none"
    /\ rx' = [rx EXCEPT ![d] = IF has THEN "exists" ELSE "accepted"]
    /\ UNCHANGED <<vars, has, command>>

\* The header has been read: FileReceiveStarted is published.
PublishStarted(d) ==
    /\ rx[d] = "accepted"
    /\ BeginPublish(d, "started")
    /\ rx' = [rx EXCEPT ![d] = "started"]
    /\ UNCHANGED <<has, command>>

\* store.Write creates the file.
CreateFile(d) ==
    /\ rx[d] = "started"
    /\ d \notin readers
    /\ rx' = [rx EXCEPT ![d] = "writing"]
    /\ has' = TRUE
    /\ UNCHANGED <<vars, command>>

\* store.Write fails before there is a file: FileReceiveFailed.
CreateFails(d) ==
    /\ rx[d] = "started"
    /\ BeginPublish(d, "failed")
    /\ rx' = [rx EXCEPT ![d] = "failed"]
    /\ UNCHANGED <<has, command>>

\* progressTrackingReader.Read: one event per read, in the middle of the write.
PublishProgress(d) ==
    /\ rx[d] = "writing"
    /\ left[d] > 1
    /\ BeginPublish(d, "progress")
    /\ UNCHANGED <<delivery, command>>

\* store.Write has returned: FileReceiveComplete or FileReceiveFailed.
PublishOutcome(d) ==
    /\ rx[d] = "writing"
    /\ \E outcome \in {"complete", "failed"} :
        /\ BeginPublish(d, outcome)
        /\ rx' = [rx EXCEPT ![d] = outcome]
    /\ UNCHANGED <<has, command>>

\* The rest of a Publish that d is in.
Publishing(d) == (Send(d) \/ EndPublish(d)) /\ UNCHANGED <<delivery, command>>

-----------------------------------------------------------------------------
(* runGet, up to its loop *)

\* fs.HasFile: a file in the store is saved and the command ends.
CheckLocal ==
    /\ cmd = "idle"
    /\ cmd' = IF has THEN "saved" ELSE "finding"
    /\ UNCHANGED <<vars, delivery, cancelled, bar, lost>>

\* WaitForPeers: without a peer the command ends; otherwise Ctrl+C is caught
\* from here on, and the subscriptions follow.
FindPeers ==
    /\ cmd = "finding"
    /\ cmd' \in {"asking", "error"}
    /\ UNCHANGED <<vars, delivery, cancelled, bar, lost>>

SubscribeAll ==
    /\ cmd = "asking"
    /\ state[get] = "subscribing"
    /\ Lock(get) \/ Subscribe(get)
    /\ UNCHANGED <<delivery, command>>

\* operations.Get: the waiter, the relay reservation, which may not come before
\* ctx is done, and the broadcast.
Broadcast == Enter(get) /\ UNCHANGED <<delivery, command>>

\* Ctrl+C: the signal's goroutine cancels ctx.
Interrupt ==
    /\ cmd \notin {"idle", "finding", "saved", "error"}
    /\ ~cancelled
    /\ cancelled' = TRUE
    /\ UNCHANGED <<vars, delivery, cmd, bar, lost>>

-----------------------------------------------------------------------------
(* The loop of runGet: select takes any channel that has an event *)

SeeCancelled ==
    /\ cancelled
    /\ Leave(get)
    /\ cmd' = "cancelled"
    /\ UNCHANGED <<delivery, cancelled, bar, lost>>

\* p.AddBar: the variable bar forgets the bar that was there.
SeeStarted ==
    /\ Take(get, 1)
    /\ lost' = IF bar = "open" THEN lost + 1 ELSE lost
    /\ bar' = "open"
    /\ UNCHANGED <<delivery, cmd, cancelled>>

\* bar.SetCurrent: an event that reports the last byte completes the bar.
SeeProgress ==
    /\ Take(get, 2)
    /\ bar' \in {bar, IF bar = "open" THEN "done" ELSE bar}
    /\ UNCHANGED <<delivery, cmd, cancelled, lost>>

\* Mutant: the bar is not told that it is complete.
SeeCompleteOnly ==
    /\ TakeLast(get, 3)
    /\ cmd' = "complete"
    /\ UNCHANGED <<delivery, cancelled, bar, lost>>

\* Mutant: "break" ends the select and not the loop.
SeeCompleteBreaksSelect ==
    /\ Take(get, 3)
    /\ bar' = IF bar = "open" THEN "done" ELSE bar
    /\ UNCHANGED <<delivery, cmd, cancelled, lost>>

\* bar.SetTotal(size, true), and the end of the loop.
SeeComplete ==
    /\ TakeLast(get, 3)
    /\ bar' = IF bar = "open" THEN "done" ELSE bar
    /\ cmd' = "complete"
    /\ UNCHANGED <<delivery, cancelled, lost>>

\* bar.Abort(true), and the end of the loop.
SeeFailed ==
    /\ TakeLast(get, 4)
    /\ bar' = IF bar = "open" THEN "done" ELSE bar
    /\ cmd' = "failed"
    /\ UNCHANGED <<delivery, cancelled, lost>>

-----------------------------------------------------------------------------
(* runGet, after its loop *)

\* Mutant: the container of the bars is made without ctx.
BarsCompleteAlone == bar # "open" /\ lost = 0

\* p.Wait returns.
BarsComplete == cancelled \/ (bar # "open" /\ lost = 0)

\* p.Wait, and WriteFileTo after a complete delivery.
Save ==
    /\ BarsComplete
    /\ Return(get)
    /\ cmd' \in IF cmd = "complete" THEN {"saved", "error"} ELSE {"error"}
    /\ UNCHANGED <<delivery, cancelled, bar, lost>>

UnsubscribeAll ==
    /\ state[get] = "leaving"
    /\ Lock(get) \/ Unsubscribe(get)
    /\ UNCHANGED <<delivery, command>>

-----------------------------------------------------------------------------
Deliver(d) ==
    \/ PublishStarted(d) \/ CreateFile(d) \/ CreateFails(d) \/ PublishProgress(d)
    \/ PublishOutcome(d) \/ Publishing(d)

RunGet ==
    \/ CheckLocal \/ FindPeers \/ SubscribeAll
    \/ SeeCancelled \/ SeeStarted \/ SeeProgress \/ SeeComplete \/ SeeFailed
    \/ Save \/ UnsubscribeAll

GetNext ==
    \/ \E d \in Publishers : Negotiate(d) \/ Deliver(d)
    \/ RunGet \/ Broadcast \/ Interrupt

\* The Go scheduler runs every goroutine that can run, and every read of a
\* stream ends with its deadline at the latest.  Nothing makes a peer answer,
\* the user press Ctrl+C or a relay reservation appear; but Ctrl+C ends the
\* wait for it.
GetSpec ==
    /\ GetInit /\ [][GetNext]_getVars
    /\ \A d \in Publishers : WF_getVars(Deliver(d))
    /\ WF_getVars(RunGet)
    /\ WF_getVars(cancelled /\ Broadcast)

-----------------------------------------------------------------------------
\* The deliveries that have sent a FileReceiveStarted.
Started == {d \in Publishers : rx[d] \in {"started", "writing", "complete", "failed"}}

\* p.Wait has a bar to wait for only if two deliveries have started: every way
\* out of the loop completes the bar of a single one, although select may take
\* its events out of their order.
WaitsForCause ==
    state[get] = "left" /\ ~BarsComplete => Cardinality(Started) > 1

\* Ctrl+C ends the command from anywhere, lost bars included, as long as its
\* channels do not fill up outside of its loop.
InterruptEnds == [](~Unread(get)) => (cancelled ~> state[get] = "ended")

\* A single delivery that completes or fails while the command is in its loop
\* ends it, as long as no channel fills up outside of the loop.
OutcomeEnds ==
    [](~Unread(get) /\ Cardinality(Started) <= 1) =>
        ((state[get] = "running" /\ (buf[<<get, 3>>] > 0 \/ buf[<<get, 4>>] > 0))
            ~> state[get] = "ended")
=============================================================================
