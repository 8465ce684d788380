SPECIFICATION FairSpec
CONSTANTS
    a = a
    b = b
    x = x
    y = y
    Procs = {a, b}
    Nodes = {a, b}
    Paths <- MCPaths
    Addrs = {x, y}
    Dialable = {x}
    DHTPeers = {x}
    MaxRetries = 1
    Flags <- MCFlags
    Explicit = {b}
    ConfigFiles <- MCConfigFiles
    Names = {"mdns", "dht", "bootstrap", "none"}
    BadRelays = {"bad"}
    MaxStarts = 2
    MaxEvents = 1
INVARIANTS TypeOK SecretsKept RefusedForCause NothingLost FlagPeersTried
PROPERTIES BootstrapEnds
CHECK_DEADLOCK FALSE
