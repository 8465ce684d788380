----------------------------- MODULE MCStartup ------------------------------
(***************************************************************************)
(* Two commands on one machine: one with two peers on its command line,    *)
(* one of them not an address, and one that names a configuration file.    *)
(***************************************************************************)
EXTENDS Startup, TLC

CONSTANTS a, b, x, y

\* A file that only sets the root and names methods, one of them unknown: the
\* other settings are zero.
PartialFile == Given([s \in {"storage_root"} |-> "default"], <<"dht", "none">>, <<>>)

RelayFile ==
    Given([s \in {"storage_root", "relay_servers"} |->
             IF s = "storage_root" THEN "default" ELSE "bad"], <<"mdns">>, <<x>>)

MCConfigFiles == <<NoFile, PartialFile, RelayFile>>

MCFlags ==
    (a :> Given([s \in {} |-> Unset], <<>>, <<x, y>>))
    @@ (b :> Given([s \in {} |-> Unset], <<"mdns">>, <<>>))

MCPaths == {<<"key", "default">>, <<"identity", "default">>}
=============================================================================
