------------------------------- MODULE Config -------------------------------
(***************************************************************************)
(* How a command gets its configuration: internal/config/config.go, with   *)
(* the flags of cmd/node/main.go.  A setting's value is kept abstract,     *)
(* mostly as the place it comes from; Unset is Go's zero value.  What      *)
(* matters about a setting is how it is merged, so the settings fall into  *)
(* three classes: Flags can override it and nothing defaults it later, its *)
(* zero value is replaced by the default, or its zero value stands.        *)
(***************************************************************************)
EXTENDS Sequences, Functions

Unset == "unset"

\* Methods of discovery.Config.EnabledMethods; other names are ignored.
Methods == {"mdns", "dht", "bootstrap"}

\* Settings that the flags can override; read as they are, zero or not.
Overridable == {"storage_root", "peer_wait", "timeout", "log_file", "log_level"}

\* Settings whose zero value the conversions replace by the default.
Defaulted ==
    {"listen_port", "identity_path", "min_connection", "max_connection",
     "concurrency", "hole_punch_wait", "service_name", "mdns_interval",
     "rendezvous", "discovery_interval", "dht_mode", "connection_timeout",
     "retry_interval", "max_retries", "max_message_size", "read_timeout",
     "write_timeout", "handler_timeout", "limit", "window", "ttl"}

\* Settings that are taken from the file as they are: a file that leaves one
\* out switches it off, whatever its default is.
Verbatim ==
    {"enable_relay", "enable_hole_punch", "enable_auto_nat", "relay_servers",
     "enable_relay_service", "external_ip"}

Settings == Overridable \cup Defaulted \cup Verbatim

\* What a configuration file, or the command line, sets: the rest is Unset.
Given(values, methods, peers) ==
    [set |-> [s \in Settings |-> IF s \in DOMAIN values THEN values[s] ELSE Unset],
     methods |-> methods, peers |-> peers]

NoFile == Given([s \in {} |-> Unset], <<"no file">>, <<>>)

DefaultYAMLConfig ==
    [set |-> [s \in Settings |->
                IF s \in {"log_file", "relay_servers", "enable_relay_service",
                          "external_ip", "listen_port"}
                THEN Unset ELSE "default"],
     methods |-> <<"mdns">>, peers |-> <<>>]

-----------------------------------------------------------------------------
\* Mutant: peers on the command line do not enable the bootstrap method.
LoadPeersOnly(file, flags) ==
    LET base == IF file = NoFile THEN DefaultYAMLConfig ELSE file
    IN  [set |-> [s \in Settings |->
                    IF s \in Overridable /\ flags.set[s] # Unset
                    THEN flags.set[s] ELSE base.set[s]],
         peers |-> IF flags.peers # <<>> THEN flags.peers ELSE base.peers,
         methods |-> IF flags.methods # <<>> THEN flags.methods ELSE base.methods]

\* The file, if there is one, replaces the defaults as a whole; then come the
\* flags.  Peers given as flags enable the bootstrap method.
Load(file, flags) ==
    LET base == IF file = NoFile THEN DefaultYAMLConfig ELSE file
        methods == IF flags.methods # <<>> THEN flags.methods ELSE base.methods
    IN  [set |-> [s \in Settings |->
                    IF s \in Overridable /\ flags.set[s] # Unset
                    THEN flags.set[s] ELSE base.set[s]],
         peers |-> IF flags.peers # <<>> THEN flags.peers ELSE base.peers,
         methods |-> IF flags.peers # <<>> /\ "bootstrap" \notin Range(methods)
                     THEN Append(methods, "bootstrap") ELSE methods]

\* The loop over the names: known[i] is what the first i of them leave.
KnownMethods(names) ==
    LET known[i \in 0..Len(names)] ==
            IF i = 0 THEN <<>>
            ELSE IF names[i] \in Methods THEN Append(known[i - 1], names[i])
            ELSE known[i - 1]
    IN  known[Len(names)]

\* Unknown methods are dropped, and mDNS takes over when none is left.
ToDiscoveryConfig(y) ==
    LET known == KnownMethods(y.methods)
    IN  IF known # <<>> THEN known ELSE <<"mdns">>

\* What the node is built from.  The file's encryption section does not reach
\* the store: StartServer leaves FileServerOpts.Encryption out.
ToConfig(y) ==
    [set |-> [s \in Settings |->
                IF s \in Defaulted /\ y.set[s] = Unset THEN "default" ELSE y.set[s]],
     methods |-> ToDiscoveryConfig(y),
     peers |-> y.peers]

=============================================================================
