# A TLA+ verification of p2p-storage

This directory models p2p-storage, a peer-to-peer file store on libp2p, in TLA+.
TLC checks the models on small instances, and TLAPS proves every safety property
of theirs for every value of their constants. Paths below are relative to
the root of the repository (in `PROJECT.json` they start with `src/`).

Check a run with `tlc -config X.cfg MCModule`, a proof with `tlapm M.tla`.

## 1. The system

A node (`FileServer`) keeps encrypted files under their content hash. It serves
two stream protocols: `/storage/1.0.0` for JSON messages (`STORE_FILE`,
`GET_FILE`) and a raw one for file contents. The commands `store`, `get`,
`send`, `receive` and `daemon` each start a node of their own.

| component | state | operations | talks to |
|---|---|---|---|
| deduplication, `fileserver/seenmsgs.go` | id -> time, at most 10000, 60 s | `See`, cleanup | hop-get |
| hop-get, `fileserver/get.go`, `peerselector.go` | none of its own | `BroadcastGet`, `processGet`, `Select`, `deliverToRequester` | deduplication, store, control protocol, delivery |
| delivery connections, `fileserver.go:689-906` | libp2p's connections | `ConnectToPeer`, `ConnectWithHolePunch`, `WaitForDirectConnection`, `StoreFileToPeerDirect` | bus, `network.Manager`, transfer |
| file transfer, `fileserver/transfer.go`, `fileserver.go:387-527` | waiters, session name | `StoreFileToPeer`, `handleStoreFileMessage`, `SendFile`, `handleIncomingStream` | control protocol, store, bus |
| store, `internal/store` | files, encryption key | `Has`, `Read`, `Write` | file system |
| replication, `fileserver.go:529-595` | none | `StoreFile`, `StoreFileToNetwork` | store, peer table, transfer |
| control protocol, `internal/protocol` | streams | `Send`, `SendOneWay`, `handleStream` | limits, handlers |
| limits, `internal/middleware` | slots; request times per peer | `Acquire`/`Release`; `allow`, cleanup | control protocol |
| event bus, `internal/event` | channels per type, RW lock | `Subscribe`, `Unsubscribe`, `Publish` | everything |
| peer table, `fileserver.go:177-286`, `internal/network` | `peers` under `peerLock` | `OnPeerConnect`, `OnPeerDisconnect`, `ListPeers`, `Manager.connect` | bus, libp2p |
| commands, `cmd/node`, `pkg/operations` | progress, channels | `runGet`, `runReceive`, `runSend`, `runStoreLocally`, `runDaemon` | all of the above |
| discovery, `internal/discovery` | started methods, retries, seen peers | `Manager.Start`/`Stop`, `connectWithRetry`, `discoveryLoop`, `HandlePeerFound` | libp2p, bus |
| key and identity, `store/encryption.go`, `internal/node` | a key file, an identity file | `loadOrCreateEncryptionKey`, `LoadOrCreateIdentity`, `NewNode` | file system, libp2p |
| configuration, `internal/config` | the merged settings | `Load`, `To*Config` | flags, a YAML file |
| startup, `pkg/operations`, `FileServer.Start`/`Stop` | what has been started | the order of all of the above | all of the above |
| logging, metrics, peer scores | - | - | - |

What is hard about it:

* several holders answer one `get`, and all of them write one path of the store;
* what is checked when a transfer is negotiated (`Has`, the session) is used when
  its stream arrives, in another goroutine and possibly much later;
* a file that is there is a file, to `Has`: a failed, cut or running write counts;
* copies of one request overtake each other with different TTLs;
* every wait has a deadline, or is meant to, and the other side goes on after it;
* `Publish` blocks with the bus locked, and the peer table's handlers publish with
  `peerLock` held; the table is checked outside its lock;
* key and identity files are created in place, and several processes may share
  them; what a start subscribes to has to be there before anything publishes;
* slots, windows, entries and channels at their limits.

`PROJECT.json` lists these as hazards, each at its line and with the properties
that watch it.

## 2. Modules

| module | models | role |
|---|---|---|
| `SeenMessages` | `seenmsgs.go` | component |
| `HopGet` | one request through a graph of nodes | composition: uses of `SeenMessages` by every node are abstracted to "remembers the id / forgot it" |
| `EncryptedFile` | what `internal/store` writes and reads | operators, used by the next two |
| `Transfer` | any number of transfers of one key, with the commands around them | composition of negotiation, stream, store, get and receive |
| `StoreCommand` | `StoreFile`, `StoreFileToNetwork` | component |
| `RateLimiter` | `ratelimit.go` | component |
| `Protocol` | `protocol.go`, `backpressure.go` | composition with `RateLimiter`, whose actions its own contain |
| `EventBus` | `event.go` and the loops around it | component |
| `GetCommand` | `runGet` with its progress bars, and the deliveries that reach it | composition: its actions contain those of `EventBus` |
| `PeerConns` | which connection leads to which peer | constants of the next two |
| `PeerRegistry` | the peer table and its two handlers | abstract specification |
| `PeerEvents` | the notifier, the bus, its channels, `peerLock` and the handlers | detailed specification, implements `PeerRegistry` |
| `Delivery` | the connection before a transfer | component |
| `Config` | `config.go` and the flags | operators, used by `Startup` |
| `KeyFile` | `encryption.go`, `identity.go` | component |
| `Discovery` | `internal/discovery`, and `network.Manager`'s dials of what it finds | component |
| `Startup` | `StartServer`, `FileServer.Start`, `Stop`, crashes | composition of the three above |

`MC*` modules give TLC the constants; `*Proofs` modules hold the proofs, those of a
composition together with those of the components it is composed of.

An operator defined just before another one and marked "Mutant" is a form that a
plausible mistake would give the definition after it. TLC, run with the mutant
in its place, finds the property violated that `PROJECT.json` names for it; so
each property depends on the code it is about.

### How state and actions correspond to the code

* **SeenMessages.** Every method holds `mu`, so every method is an action; time is
  a variable. `Oldest` is a set, because ties are broken by the map's order. The
  history `accepted` records when `See` answered true.
* **HopGet.** A message is a stream in flight; a task is a goroutine of
  `processGet`, split after `See`, because the store may change before `Has`.
  `Peers` (what `ListPeers` answers) is fixed during the request. `Lose` is any
  way in which a one-way message disappears, refusals by the limits included.
* **EncryptedFile.** A content is a prefix length in units of half a chunk (32 KB):
  enough to tell a full frame from the short last one. A file is a number of
  frames and what each decrypts to. The two `Write` calls of a frame are one
  step, so the torn frame that a kill or a full disk may leave at the end of a
  file is not there: reading it is an error instead of a shorter content, and the
  file is cut (`cut`, `tainted`) in either case. Frames are all equally long but for the last, so two writers of the same
  content write the same frame to the same offset, and which nonce wins does not
  matter; a short frame over a longer one, or a gap, decrypts to nothing (0).
* **Transfer.** Per transfer, `phase` is the sender (`StoreFileToPeer` and
  `SendFile`), `rx` and `got` the receiver (`handleIncomingStream`), `wire` what
  the receiver's reads meet. `store.Read` decrypts everything into memory before
  the stream is opened, so the size is fixed there. `Faults` selects which of
  the faults may happen in a run. `creator` and `tainted` are history.
* **Protocol.** One request is one stream. Each deadline is an action that may come
  at any time, so the durations do not matter.
* **EventBus.** `readers` and `writer` are the `sync.RWMutex`: a waiting writer
  keeps new readers out, as Go's does. A command's deferred `Unsubscribe` calls
  are one `Lock`/`Unsubscribe` pair per channel, in reverse order.
* **GetCommand.** Publishers are the incoming streams, the subscriber is `runGet`.
  `rx` is how far a delivery has come, `cmd` the part of `runGet` that the bus does
  not show. Of the bars only what `p.Wait` waits for is kept: the one that the
  variable `bar` points to, and how many open ones it pointed to before. `select`
  takes from any channel that has an event, so events of one delivery may be
  seen out of order. A delivery fails before its file is there (`CreateFails`) or
  after.
* **PeerRegistry.** The table as its users see it: an event of a connection is
  pending from the moment the connection changes, and may be handled at any time
  after. `OnPeerDisconnect` looks and removes in two steps under `peerLock`.
* **PeerEvents.** `notify[c]` is the notifier's call, `connectCh` and `disconnectCh`
  are the two channels, `joining[c]` a goroutine of `OnPeerConnect`, `leaving[c]`
  the listener in `OnPeerDisconnect`. `locking` is a command's `Subscribe` or
  `Unsubscribe`: waiting for the lock, it keeps new `Publish` calls out. Of the
  other types of events no `Publish` is there; one that waits for room in a channel
  of a command would keep the lock from `locking`, too (`GetCommand` has that). The
  refinement mapping forgets where an event is on its way and counts a change of
  the table as done when it is made. `late` is history.
* **Delivery.** `stage` is the program counter of `deliverToRequester`; `dials` are
  the goroutines of `Manager.connect`, which dial once. An address that does not
  parse is skipped (`SkipAddress`). What libp2p does
  (reservation, hole punch, lost connections) is external and may happen or not.
* **StoreCommand.** One call after another on one node, with kills in between, and
  the other writers of the file: `Streams` are transfers that the node receives,
  `Processes` are stores and transfers of other processes on the same root.
  `other[w]` is how far such a writer is between its own look at `store.Has` and the
  end of its `store.Write`, `got[w]` what a writer has read. `cut` is history: some
  `store.Write` of the file ended, in success or not, without all of the content.
* **Config.** A setting's value is where it comes from (unset, default, file or flag),
  because only that decides what a merge does. The settings fall into classes by
  how they are merged. `KnownMethods` is the loop over the names of the methods,
  as a recursive function of how many of them have been looked at.
* **KeyFile.** A secret is a number, new for each one generated. `os.WriteFile` is
  two steps, truncate and write, with failures and crashes between. `incidents` is
  history: a read error taken for a missing file (`misread`), two first starts at
  once (`overlap`), an operation that failed (`failed`), a write that was cut
  (`cut`).
* **Discovery.** `boot[n][a]` is a `connectWithRetry` goroutine, `joining` the loop over
  the public peers, `recent` is `seenPeers`, `found` the `PeerDiscovered` events that
  `network.Manager` has yet to read. `host.Connect` is external: it returns at once
  for a connected peer, otherwise it succeeds or fails.
* **Startup.** `pc[p]` is how far process `p` is between `config.Load` and the end of
  `main`. Failures, crashes and moves of the network share one budget, `MaxEvents`;
  so does a configuration file that cannot be read or parsed (`BeginFails`).
  `used` is history: the keys files were encrypted with and the identities nodes
  were known by.

## 3. Runs

Passing runs:

| run | instance | shows |
|---|---|---|
| `SeenMessages` | 4 ids, 2 entries, window 3, 7 ticks | capacity, memory, no early repeat |
| `HopGet` | 7 nodes, a triangle at the requester, a ring around a holder, TTL 2, 2 faults | reach, once per node, provenance; a neighbouring holder serves |
| `TransferTwo` | 3 transfers (2 senders to 1 getter; 1 to a node that has the file, under a session), 3 units, all faults | success means read; last creator wins |
| `Protocol` | 3 streams, 2 slots, limit 1, window = TTL = 1, 3 ticks | slots are kept and come back, nothing bypasses the limiter, bound per window, refusals have a cause |
| `GetCommand` | 2 deliveries, channels of 2, Ctrl+C at any time | no send on a closed channel; the lock makes nobody wait for ever while full channels are read; `p.Wait` waits for cause; Ctrl+C and a single outcome end the command |
| `PeerEvents` | 3 connections to 2 peers, channels of 1, 1 call of a command | the table is implemented; a connected, registered peer stays listed; a listed peer that is gone has its end on the way; all comes to rest |
| `Startup` | 2 processes sharing their files, 3 configuration files, 2 starts, 1 event, 1 retry | secrets are kept, refusals have a cause, no event is published to nobody, peers of the command line are tried, retries end |
| `Delivery` | 5 kinds of calls, every network | which deliveries end; hole punch before giving up |
| `StoreCommand` | 3 peers, factors 0 and 2, 3 units, 1 incoming stream and 1 other process that write the file | counted replicas bounded, errors mean no replica, a success means a whole file unless a write was cut or is under way |

The bounds are the smallest at which the interesting cases happen: one id more
than evictions need, a graph in which the request comes back to its sender,
reaches a holder with its TTL spent and leaves a node just out of reach, a
content of one full and one short frame, a frame that two writers both write,
more streams than slots, a clock that runs past window and TTL, a channel that
fills, two starts that meet at one key file. For the modules with proofs the bound does not carry the result, the
proof does. Deadlock is not checked: in every model the work (transfers,
requests, ticks, events) is finite, so it comes to rest. Liveness properties
look for stuck processes instead.

Runs that end in a violation, each of a sentence of the documentation (quoted in
`PROJECT.json` under `findings`):

| run | property | what happens |
|---|---|---|
| `HopGetDetour` | `HoldersInReachServe` | a copy by a longer path spends the TTL, is recorded first and silences the shorter path |
| `TransferSaved` | `SavedIsWhole` | the second delivery truncates the file before `get` has copied it |
| `GetCommandEnds` | `CommandEnds` | a second delivery replaces the progress bar of the first, which `p.Wait` then waits for |

Channels have room for 2 events in the run `GetCommand` and for 1 in `PeerEvents`
instead of 10: a stream publishes one progress event per read and ten peers may
leave at once, so ten are no further away. `GetCommandEnds` has the 10 of the code
and at most 7 events, so its counterexample owes nothing to a full channel.

In `TransferTwo` no node sends on a file that it has only in part (the instance
with such a transfer is too large to finish). What the hazard list says of such
prefixes rests on the proofs, which have any number of transfers between any nodes.

Several passing properties are weaker than one might expect. The models have the
behaviour that stands in the way of the stronger form, and the hazard's note in
`PROJECT.json` names it:

* `LastCreatorWins`: a file is safe only from the streams before its last
  truncation. Two negotiations may both pass `store.Has`, and the later stream
  then empties a whole file; "already exists" is said of a file that is still
  empty.
* `SuccessMeansRead` is about the sender. The receiver takes a sender's deadline
  for the end of the file and announces completion.
* `PublishReturns` excludes full channels of owners that do not read. A command
  that has its first channel and waits for the lock to get its second blocks
  `Publish` like one that leaves its loop. `InterruptEnds` and `OutcomeEnds` exclude
  the same, and `OutcomeEnds` and `WaitsForCause` are about a single delivery.
* `NoGhost` excepts a peer that goes between the check of `OnPeerConnect` and its
  lock (`late`): its end was handled before it was listed, and it stays listed.
* `EventsHandled` excepts `Circle`, a circular wait that the code can enter: a
  `Publish` of `PeerDisconnected` waits for room with the bus read-locked, a
  command waits to lock the bus, a handler publishes with `peerLock` held and
  waits behind that command, and the listener that would make room waits for
  `peerLock`. Outside of it nothing is kept back by these goroutines; an event of
  another type whose `Publish` waits for room is not in the model.
* `SecretsKept` excepts a read error that is taken for a missing file, and two
  first starts at once: with either, a key that files were encrypted with, or an
  identity, is overwritten. README.md:19 of the repository promises "Persistent
  node identity across restarts", without saying what may go wrong meanwhile.
* `RefusedForCause` of `Startup` allows refusals after a crash inside the creation
  of a key file: the short file it leaves is refused by every later start.
* `NothingLost` speaks of what the notifier and the discovery methods publish. The
  stream handlers are set before `network.NewManager` subscribes: a `GET_FILE` that
  comes that early may get to `ConnectToPeer`, whose `PeerDiscovered` is then lost.
  Connections made before
  `network.NewManager` attaches the notifier are never announced, so their peers
  are not listed until they connect again.
* `BootstrapEnds`: the retries end with the first success, too. A bootstrap peer that
  is lost later is not dialled again.
* `DeliveryEnds` and `CircuitPunched` exclude direct addresses of a requester:
  nothing bounds the wait for one, and an existing relayed connection satisfies
  it.
* `StoredUnlessCut`: a cut file is found by `store.Has` and reported as stored, and
  so is one that an incoming stream or another process has only begun to write.
  It is whole when the last of them is done, if none was cut.
* `RateBound` is checked and proved for `Window <= TTL`; with a longer window the
  cleanup forgets requests inside of it. A test builds such a limiter
  (`ratelimit_test.go:145`), and a configuration may.
* Factor 0 with peers connected returns an error after the file was stored, and
  `processGet` outlives the slot of its stream; no property asks otherwise.

### Differences between documentation and code that have no run

They concern values rather than behaviour, and the models follow the code:

* README.md:236-237 documents `encryption.enabled` and `encryption.key_path`.
  `StartServer` does not pass them on; encryption is on, with
  `<root>/.encryption_key`.
* README.md:163 and 235 give 10 s for `hole_punch_wait`; the code's default is 30 s.
* A YAML file replaces the defaults as a whole: one that leaves out
  `enable_hole_punch`, `timeout`, `peer_wait` or `storage_root` gets their zero
  values (`Verbatim` and `Overridable` of `Config`).
* README.md:232 bounds concurrent requests by `node.concurrency`; the goroutine of a
  `GET_FILE` outlives the slot that counts it.

### Fairness

* `HopGet`: weak fairness of the broadcast and of `processGet` at each node (the Go
  scheduler runs a runnable goroutine; with no fault a stream is read). None for
  the deliveries. `NeighbourServes` speaks of the behaviours without a fault.
* `Protocol`: weak fairness of `handleStream`: each of its reads and writes has a
  deadline and the handler does not block. None for the peers.
* `GetCommand`: weak fairness of the deliveries (a read of a stream ends with its
  deadline at the latest) and of `runGet`; the wait for a relay reservation is fair
  only after Ctrl+C. Nothing makes a peer answer or a user press Ctrl+C.
* `PeerEvents`: weak fairness of the notifier's calls, of the handlers and of a
  command that can get the lock. None for connections and for identify.
* `Startup`: weak fairness of `connectWithRetry`: its dials have a timeout and its
  intervals pass. Neither starts nor stops nor other goroutines are forced.
* `Delivery`: weak fairness of the delivering goroutine, whose timers fire, and of
  the dials. None for relays, hole punches and connections.

## 4. Proofs

TLAPS proves, for all constants that satisfy the named assumptions:

| module | theorems | inductive invariant |
|---|---|---|
| `SeenMessagesProofs` | `TypeCorrect`, `CapacityHolds`, `RememberedHolds`, `NoEarlyRepeatHolds` | `Remembered` needs that recorded times are acceptance times and that none lies in the future: then the oldest entry has all others as newer ones when it is evicted |
| `HopGetProofs` | `TypeCorrect`, `ReachBoundHolds`, `AtMostOnceHolds`, `ProvenanceHolds` | `HopBudget` (distance plus TTL never exceeds `DefaultTTL + 1`), `Counted` (acceptances against forgettings, by whether the id is remembered), `TasksAccepted`, `HasFrom` |
| `TransferProofs` | `TypeCorrect`, `SuccessMeansReadHolds`, `LastCreatorWinsHolds` | `StreamInv` relates the two ends of a stream (an early end means that the sender has given up); `DiskInv` says that in an untainted file no frame is damaged and that the frames of the last creator are there. Lemmas on `WriteChunk` and `CloseWriter` say what a write does to a good file |
| `ProtocolProofs`, the limiter | `RateBoundHolds`, `RefusedForCauseHolds` | `RecordedInv`: what was let through inside the window is still on record, which needs `Window <= TTL`, and `TimesInv` |
| `ProtocolProofs`, the streams | `ImplementsLimiter`, `ProtocolRateBound`, `TypeCorrect`, `SlotsHeldHolds`, `LetThroughHolds` | every step is a step of `RateLimiter` or leaves it alone, so its theorems carry over; `RespondingInv`: a stream about to be answered was let through; `SlotsInv` with two lemmas on what `Accept` and `Return` do to the set of held streams |
| `EventBusProofs`, the bus | `TypeCorrect`, `NoSendOnClosedHolds` | `SubsInv`: the channels in `Bus.subscribers` are those that their owners hold, each once, and none is closed; `TodoInv`: only a `Publish` that holds the read lock has channels to send to, so whoever closes one is alone; `CountInv` says which channels an owner holds |
| `EventBusProofs`, `get` | `GetImplementsBus`, `GetNoSendOnClosed`, `GetTypeCorrect`, `WaitsForCauseHolds` | every step of `GetCommand` is a step of `EventBus` or leaves it alone. `CountedInv`: each bar that `runGet` lost sight of, the one it shows, each `FileReceiveStarted` in the channel and each one about to be sent stand for a delivery of their own, so that two bars mean two deliveries; `SendingInv`: a delivery sends one such event; `BarInv`: every way out of the loop but Ctrl+C completes the bar that is shown |
| `PeerEventsProofs` | `TypeCorrect`, `ImplementsHolds`, `TableListed`, `ListedHolds`, `NoGhostHolds` | `NotifyInv` and `ChannelInv`: an event is in its channel at most once, after its `Publish` and before its handler; `LockInv`: one handler is between `Lock` and `Unlock` of `peerLock`. `TableListed` is about `PeerRegistry`: while a removal is under way it holds `peerLock` and no listed connection of the peer is up (`RemovalInv`). `ListedHolds` follows from it and the refinement |
| `SendProofs`, `StoreCommand` | `TypeCorrect`, `ReplicasBoundedHolds`, `ErrorMeansNoneHolds`, `StoredUnlessCutHolds` | `DiskInv`: as long as no write is cut only frames of the content are written, and the file is whole or somebody who is writing has all that it has read there (who created the file last does); lemmas on `WriteUnit` and `CloseWriter` say that a writer spoils no frame of another and that the last one to create the file leaves it whole, for every size and any number of writers. `LoopInv`: the loop counts a peer per turn at most, and makes no more turns than replicas were asked for |
| `SendProofs`, `Delivery` | `DeliveryTypeCorrect`, `CircuitPunchedHolds` | `CircuitInv`: where a circuit address is tried no direct one is waited for, and what follows a connection follows a hole punch |
| `StartupProofs` | `TypeCorrect`, `SecretsKeptHolds`, `RefusedForCauseHolds`, `NothingLostHolds`, `FlagPeersTriedHolds` | see below |

The invariant of `Startup` has three parts, each about the processes of a machine
together. `KeyInv` says of a file to which neither a misread nor an overlap of two
first starts has happened: one process at most creates it, and it was not there
before; whoever took a secret from it, and every use of one, has the secret that it
still holds; and a file is short only while it is written or after an incident.
`SecretsKept` alone is not inductive, since a second process that is about to write
would replace the secret. `ConfigInv` fixes what a process is configured with for
as long as it runs, so that the file it has loaded stays its file. `DiscoveryInv`
says that whatever could publish belongs to a process whose notifier is attached
and whose subscriptions are complete (`ListenInv`), that `Manager.Start` forgets no
method (`MethodsInv`), and that a goroutine waits only with a retry left
(`RetryInv`). The invariants of this and the other modules were checked by TLC on
the instances of the runs before they were proved.

`FlagPeersTried` needs to know what `KnownMethods` keeps of any list of names. It is
a recursive function, and the lemmas on it (`LoopDefined`, `KnownMethodsFacts`) are
inductions over its input. They are carried out as least-counterexample arguments:
a nonempty set of naturals has a least element (`LeastNatural`, from the
well-foundedness of `<` in the library), and the set of lengths at which the fact
fails has none.

Assumptions worth knowing: `HopGet` takes `Dist` as any function that grows by at
most one along an edge, which hop distance satisfies (`MCHopGet` checks that the
instances use the hop distance itself); `RateLimiter` assumes `Window <= TTL`,
which the defaults satisfy and nothing in the configuration enforces (a test of the
limiter has it otherwise); the sets
whose members are counted (streams, ids, deliveries, storage peers) are finite;
`Delivery` takes any nonempty list of addresses, those that do not parse included;
`StoreCommand` takes any other writers; `Startup` takes any processes,
flags and configuration files whose methods are among `Names` (every name that
anybody writes, known or not) and whose key files are among `Paths`, and
`Discovery` takes the addresses that parse to be among those that are written, and
the public peers of the DHT to be among those that parse.

Two theorems are refinements: `PeerEvents` implements `PeerRegistry` under the
mapping `Join`, `Leave`, `Remover` (TLC checks it, too, as the property
`Implements`), and `GetCommand` implements `EventBus`. Both are about safety.

Only model-checked: all liveness (fairness and ENABLED are out of the prover's
reach), that is `NeighbourServes`, `OverloadClears`, `PublishReturns`, `InterruptEnds`,
`OutcomeEnds`, `EventsHandled`, `BootstrapEnds` and `DeliveryEnds`; and the hop
distances of the instances (a recursive function that is evaluated, `MCHopGet`).
Every invariant and every action property of a passing run is proved. Conversely,
the type invariants of `SeenMessages`, `HopGet`, `RateLimiter`, `EventBus` and
`PeerRegistry` are not listed in a configuration of their own: they are proved, or
are conjuncts of one that is checked.

## 5. Not modelled

* Inside libp2p: host options, NAT traversal, routing of the DHT. `NewNode` is one step
  that works or fails.
* Logging and metrics: output only.
* `PeerScorer`: it is constructed, and nothing calls it.
* `ping.go`, the map of pending transfers, `Store.Delete`, `Clear`, `ReadRaw`,
  `WriteRaw` and the plain mode, `AddBootstrapPeer`, `DHTDiscovery.FindPeer` and the
  getters of discovery: no caller outside tests.
* What mpb does with a bar added after Ctrl+C.
* Parsing of durations, addresses and YAML: an address is one that parses or not.
* The contents of files: the key is their hash, so a content is its length.

## 6. Plan

Done in this order: `SeenMessages`, `HopGet`, `EncryptedFile` and `Transfer`,
`RateLimiter` and `Protocol`, `EventBus`, `PeerRegistry`, `Delivery`,
`StoreCommand`; then `GetCommand`, `PeerEvents` and its refinement, the proofs of
`EventBus` and `PeerEvents`, `Config`, `KeyFile`, `Discovery` and `Startup`.

After that the proofs of `GetCommand`, `StoreCommand`, `Delivery` and `Startup`.

Next:

1. an abstract specification of a delivery (asked, partial, whole, failed) and the
   refinement of `Transfer` to it; an abstract deduplicating set refined by
   `SeenMessages`, and its use in `HopGet` in place of `Forget`;
2. the waiters of `receive` and `send` on the bus, as `GetCommand` has those of `get`.
