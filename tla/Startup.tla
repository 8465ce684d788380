------------------------------ MODULE Startup -------------------------------
(***************************************************************************)
(* The life of the processes of one machine: config.Load, then             *)
(* operations.StartServer, which builds the store with its encryption key  *)
(* (NewFileServer) and starts the node with its identity, its event        *)
(* subscriptions and its discovery (FileServer.Start), the command itself, *)
(* and FileServer.Stop or a crash.  Processes that are given the same      *)
(* configuration share the key file in the storage root and the identity   *)
(* file.                                                                   *)
(***************************************************************************)
EXTENDS Config, KeyFile, Discovery

CONSTANTS
    Flags,          \* Flags[p]: the command line of process p
    Explicit,       \* the processes that are given a --config path
    ConfigFiles,    \* ConfigFiles[i]: what the configuration file can hold, NoFile if there is none
    Names,          \* what a configuration can name as a discovery method
    BadRelays,      \* values of relay_servers that do not parse
    MaxStarts,      \* bound: how many starts there are in all
    MaxEvents       \* bound: how many failures, crashes and moves of the network

VARIABLES
    file,       \* which of them it holds
    pc,         \* pc[p]: how far process p is
    cfg,        \* cfg[p]: its configuration, as far as the start depends on it
    starts,     \* how many starts there have been
    events,     \* how many of those there have been
    used        \* history: <<path, secret>> of the keys that files were encrypted with,
                \* and of the identities that nodes were known by

vars == <<keyVars, discoveryVars, file, pc, cfg, starts, events, used>>

Phases == {"idle", "key", "identity", "node", "subscribed", "discovery",
           "running", "stopping", "failed"}

StartConfig(y) ==
    LET c == ToConfig(y)
    IN  [storage_root |-> c.set["storage_root"], identity_path |-> c.set["identity_path"],
         relay_servers |-> c.set["relay_servers"], methods |-> c.methods, peers |-> c.peers]

NoConfig == StartConfig(DefaultYAMLConfig)

\* What a configuration file, or a command line, can say.
Inputs == [set : [Settings -> STRING], methods : Seq(Names), peers : Seq(Addrs)]

\* The key files of a configuration are among the paths.
OnPaths(c) == <<"key", c.storage_root>> \in Paths /\ <<"identity", c.identity_path>> \in Paths

ASSUME StartupAssumption ==
    /\ Nodes = Procs
    /\ Flags \in [Procs -> Inputs]
    /\ ConfigFiles \in Seq(Inputs \cup {NoFile})
    /\ Methods \subseteq Names
    /\ OnPaths(NoConfig)
    /\ \A i \in DOMAIN ConfigFiles, p \in Procs : OnPaths(StartConfig(Load(ConfigFiles[i], Flags[p])))
    /\ MaxStarts \in Nat /\ MaxEvents \in Nat

KeyPath(p) == <<"key", cfg[p].storage_root>>
IdentityPath(p) == <<"identity", cfg[p].identity_path>>

\* The file that p is loading, or loaded last.
Loading(p) == IF pc[p] = "key" THEN KeyPath(p) ELSE IdentityPath(p)

\* The processes that are loading the same file.
Readers(p) == {q \in Procs : pc[q] = pc[p] /\ Loading(q) = Loading(p)}

\* The processes whose node is up.
Up == {p \in Procs : pc[p] \in {"node", "subscribed", "discovery", "running", "stopping"}}

TypeOK ==
    /\ KeyTypeOK
    /\ DiscoveryTypeOK
    /\ pc \in [Procs -> Phases]
    /\ starts \in 0..MaxStarts /\ events \in 0..MaxEvents
    /\ used \subseteq Paths \X (1..made)
    /\ file \in DOMAIN ConfigFiles
    /\ \A p \in Procs : KeyPath(p) \in Paths /\ IdentityPath(p) \in Paths

Init ==
    /\ KeyInit
    /\ DiscoveryInit
    /\ file \in DOMAIN ConfigFiles
    /\ pc = [p \in Procs |-> "idle"]
    /\ cfg = [p \in Procs |-> NoConfig]
    /\ starts = 0
    /\ events = 0
    /\ used = {}

Goes(p, s) == pc' = [pc EXCEPT ![p] = s]

\* Something happens that the program did not ask for.
Event == events < MaxEvents /\ events' = events + 1

-----------------------------------------------------------------------------
\* config.Load: without a file at the default path the defaults are used.
Begin(p) ==
    /\ pc[p] = "idle" /\ starts < MaxStarts
    /\ ConfigFiles[file] # NoFile \/ p \notin Explicit
    /\ starts' = starts + 1
    /\ cfg' = [cfg EXCEPT ![p] = StartConfig(Load(ConfigFiles[file], Flags[p]))]
    /\ Goes(p, "key")
    /\ LoadGoes(p, "read")
    /\ UNCHANGED <<content, made, own, held, incidents, discoveryVars, file, events, used>>

\* There is no file at an explicit path, or there is one that cannot be read or
\* does not parse, just now: nothing is run.
BeginFails(p) ==
    /\ pc[p] = "idle" /\ starts < MaxStarts
    /\ IF ConfigFiles[file] = NoFile THEN p \in Explicit /\ UNCHANGED events ELSE Event
    /\ starts' = starts + 1
    /\ Goes(p, "failed")
    /\ UNCHANGED <<keyVars, discoveryVars, file, cfg, used>>

\* loadOrCreateEncryptionKey and LoadOrCreateIdentity
LoadFile(p) ==
    /\ pc[p] \in {"key", "identity"}
    /\ LET f == Loading(p)
       IN  \/ /\ \/ ReadFile(p, f, Readers(p))
                 \/ RefuseFile(p, f, Readers(p))
                 \/ FileIsAbsent(p, f, Readers(p))
                 \/ CreateFile(p, f)
                 \/ WriteFile(p, f)
              /\ UNCHANGED events
           \/ /\ \/ Misread(p, f)
                 \/ pc[p] = "identity" /\ ReadFails(p, f)
                 \/ CreateFails(p, f)
                 \/ WriteFails(p, f)
              /\ Event
    /\ UNCHANGED <<discoveryVars, file, pc, cfg, starts, used>>

\* NewFileServer, or NewNode, returns the error.
LoadFails(p) ==
    /\ pc[p] \in {"key", "identity"} /\ load[p] = "refused"
    /\ Goes(p, "failed")
    /\ UNCHANGED <<keyVars, discoveryVars, file, cfg, starts, events, used>>

\* NewStore returns; FileServer.Start begins.
HaveKey(p) ==
    /\ pc[p] = "key" /\ load[p] = "loaded"
    /\ Goes(p, "identity")
    /\ LoadGoes(p, "read")
    /\ UNCHANGED <<content, made, own, held, incidents, discoveryVars, file, cfg, starts, events, used>>

\* NewNode after the identity: a relay address that does not parse is an
\* error, and libp2p.New or the relay service can fail.
NewNode(p) ==
    /\ pc[p] = "identity" /\ load[p] = "loaded"
    /\ IF cfg[p].relay_servers \in BadRelays
       THEN Goes(p, "failed") /\ UNCHANGED events
       ELSE \/ Goes(p, "node") /\ UNCHANGED events
            \/ Goes(p, "failed") /\ Event
    /\ used' = IF pc'[p] = "node"
               THEN used \cup {<<IdentityPath(p), held[p][IdentityPath(p)]>>} ELSE used
    /\ UNCHANGED <<keyVars, discoveryVars, file, cfg, starts>>

\* The handlers are set, and FileServer subscribes before the Notifier and the
\* discovery methods can publish.  (A handler that runs at once may publish
\* PeerDiscovered, through ConnectToPeer, before NewManager subscribes; that
\* publisher is not modelled here.)
Subscribe(p) ==
    /\ pc[p] = "node"
    /\ subs' = [subs EXCEPT ![p] = @ \cup {"PeerConnected", "PeerDisconnected"}]
    /\ Goes(p, "subscribed")
    /\ UNCHANGED <<keyVars, todo, started, boot, joining, recent, cancelled, link,
                   found, attached, lost, file, cfg, starts, events, used>>

\* Mutant: the listener goroutine subscribes, once it runs.
NewManagerSubscribesLate(p) ==
    /\ pc[p] = "subscribed"
    /\ attached' = attached \cup {p}
    /\ todo' = [todo EXCEPT ![p] = cfg[p].methods]
    /\ Goes(p, "discovery")
    /\ UNCHANGED <<keyVars, started, boot, joining, recent, cancelled, link,
                   found, subs, lost, file, cfg, starts, events, used>>

\* network.NewManager attaches the Notifier and subscribes; then comes
\* discovery.Manager.Start.
NewManager(p) ==
    /\ pc[p] = "subscribed"
    /\ attached' = attached \cup {p}
    /\ subs' = [subs EXCEPT ![p] = @ \cup {"PeerDiscovered"}]
    /\ todo' = [todo EXCEPT ![p] = cfg[p].methods]
    /\ Goes(p, "discovery")
    /\ UNCHANGED <<keyVars, started, boot, joining, recent, cancelled, link,
                   found, lost, file, cfg, starts, events, used>>

StartDiscovery(p) ==
    /\ pc[p] = "discovery"
    /\ \/ StartMethod(p, Range(cfg[p].peers))
       \/ Joined(p)
       \/ NextMethod(p)
    /\ UNCHANGED <<keyVars, file, pc, cfg, starts, events, used>>

\* A method returns an error; nothing is stopped.
DiscoveryFails(p) ==
    /\ pc[p] = "discovery" /\ todo[p] # <<>> /\ Head(todo[p]) \in {"mdns", "dht"} \ started[p]
    /\ Goes(p, "failed")
    /\ Event
    /\ UNCHANGED <<keyVars, discoveryVars, file, cfg, starts, used>>

Started(p) ==
    /\ pc[p] = "discovery" /\ todo[p] = <<>>
    /\ Goes(p, "running")
    /\ UNCHANGED <<keyVars, discoveryVars, file, cfg, starts, events, used>>

-----------------------------------------------------------------------------
\* A command or a peer stores a file, encrypted with the key of the process.
Store(p) ==
    /\ pc[p] \in {"subscribed", "discovery", "running", "stopping"}
    /\ used' = used \cup {<<KeyPath(p), held[p][KeyPath(p)]>>}
    /\ used' # used
    /\ UNCHANGED <<keyVars, discoveryVars, file, pc, cfg, starts, events>>

\* What the network does of its own accord to a node that is up.
Network(p) ==
    /\ p \in Up /\ Event
    /\ \E a \in Dialable : Inbound(p, a) \/ LinkDown(p, a) \/ FindPeer(p, a) \/ HandlePeerFound(p, a)
    /\ UNCHANGED <<keyVars, file, pc, cfg, starts, used>>

\* The other goroutines of a node that is up.
Goroutines(p) ==
    /\ p \in Up
    /\ \E a \in Dialable : Connect(p, a) \/ Join(p, a) \/ Forget(p, a)
    /\ UNCHANGED <<keyVars, file, pc, cfg, starts, events, used>>

Retry(p, a) ==
    /\ p \in Up
    /\ Bootstrap(p, a)
    /\ UNCHANGED <<keyVars, file, pc, cfg, starts, events, used>>

\* FileServer.Stop: discovery, then the node.
Stop(p) ==
    /\ pc[p] = "running"
    /\ StopDiscovery(p)
    /\ Goes(p, "stopping")
    /\ UNCHANGED <<keyVars, file, cfg, starts, events, used>>

\* The process returns from main, or is killed wherever it is.
Exit(p) ==
    /\ pc[p] # "idle"
    /\ IF pc[p] \in {"stopping", "failed"} THEN UNCHANGED events ELSE Event
    /\ DropKeys(p, Loading(p))
    /\ DropDiscovery(p)
    /\ Goes(p, "idle")
    /\ cfg' = [cfg EXCEPT ![p] = NoConfig]
    /\ UNCHANGED <<file, starts, used>>

Next ==
    \E p \in Procs :
        \/ Begin(p) \/ BeginFails(p) \/ LoadFile(p) \/ LoadFails(p) \/ HaveKey(p) \/ NewNode(p)
        \/ Subscribe(p) \/ NewManager(p) \/ StartDiscovery(p) \/ DiscoveryFails(p)
        \/ Started(p) \/ Store(p) \/ Network(p) \/ Goroutines(p) \/ Stop(p) \/ Exit(p)
        \/ \E a \in Dialable : Retry(p, a)

Spec == Init /\ [][Next]_vars

\* A goroutine that can go on does; host.Connect returns when its context
\* times out, and RetryInterval passes.
FairSpec == Spec /\ \A p \in Procs, a \in Dialable : WF_vars(Retry(p, a))

-----------------------------------------------------------------------------
(* Properties *)

\* A stored file can be decrypted by every later process of its root, and a
\* node comes back as the peer it was: the file still holds the secret that was
\* used.  Crashes, full disks and failed writes do not change that; two first
\* starts that overlap do, and a read error that loadOrCreateEncryptionKey or
\* LoadOrCreateIdentity takes for a missing file.
SecretsKept ==
    \A u \in used :
        incidents[u[1]] \cap {"misread", "overlap"} = {} => content[u[1]] = u[2]

\* A start is refused for a key file only after something went wrong with it:
\* it could not be written, or another process was writing it.
RefusedForCause ==
    \A p \in Procs :
        pc[p] \in {"key", "identity"} /\ load[p] = "refused" => incidents[Loading(p)] # {}

\* Every event that the Notifier or a discovery method publishes has somebody
\* to listen to it: FileServer.Start and network.NewManager subscribe before
\* the one is attached and the others are started.
NothingLost == lost = {}

\* Whatever the configuration file says, a command that runs has a goroutine
\* for every peer it was given with --bootstrap.
FlagPeersTried ==
    \A p \in Procs : pc[p] = "running" =>
        \A a \in Range(Flags[p].peers) : boot[p][a].at # "none"

\* connectWithRetry ends: connected, out of retries, or stopped.
BootstrapEnds ==
    \A p \in Procs, a \in Dialable :
        boot[p][a].at \in {"check", "dial", "wait"} ~> boot[p][a].at \in {"done", "none"}

=============================================================================
