--------------------------- MODULE StartupProofs ----------------------------
(***************************************************************************)
(* Proofs about Startup for every set of processes, every configuration    *)
(* file and command line, every set of addresses and number of retries,    *)
(* and any number of starts and failures.                                  *)
(***************************************************************************)
EXTENDS Startup, WellFoundedInduction, TLAPS

(* The methods that a configuration enables *)

\* The least number principle, as induction over the names needs it.
LEMMA LeastNatural ==
  ASSUME NEW T, T \in SUBSET Nat, T # {}
  PROVE  \E n \in T : \A m \in T : n <= m
  <1>1. PICK n \in T : \A m \in T : ~ (<<m, n>> \in OpToRel(<, Nat))
    BY WFMin, NatLessThanWellFounded
  <1>2. \A m \in T : ~ (m < n)
    BY <1>1 DEF OpToRel
  <1> QED
    BY <1>2

\* What Append does.
LEMMA AppendFacts ==
  ASSUME NEW S, NEW s \in Seq(S), NEW x \in S
  PROVE  /\ Append(s, x) \in Seq(S)
         /\ \A k \in DOMAIN s : k \in DOMAIN Append(s, x) /\ Append(s, x)[k] = s[k]
         /\ \E k \in DOMAIN Append(s, x) : Append(s, x)[k] = x
  <1>1. /\ Append(s, x) \in Seq(S) /\ Len(s) \in Nat
        /\ DOMAIN s = 1..Len(s) /\ DOMAIN Append(s, x) = 1..(Len(s) + 1)
        /\ \A k \in 1..Len(s) : Append(s, x)[k] = s[k]
        /\ Append(s, x)[Len(s) + 1] = x
    OBVIOUS
  <1>2. Len(s) + 1 \in DOMAIN Append(s, x) /\ \A k \in DOMAIN s : k \in DOMAIN Append(s, x)
    BY <1>1
  <1> QED
    BY <1>1, <1>2

\* One turn of the loop in ToDiscoveryConfig, at name i.
Turn(names, methods, i) ==
    IF names[i] \in Methods THEN Append(methods, names[i]) ELSE methods

\* A turn keeps what there is and adds the name when it is a method's.
LEMMA TurnFacts ==
  ASSUME NEW names \in Seq(Names), NEW t \in Seq(Methods), NEW i \in 1..Len(names)
  PROVE  /\ Turn(names, t, i) \in Seq(Methods)
         /\ \A k \in DOMAIN t : k \in DOMAIN Turn(names, t, i) /\ Turn(names, t, i)[k] = t[k]
         /\ names[i] \in Methods =>
              \E k \in DOMAIN Turn(names, t, i) : Turn(names, t, i)[k] = names[i]
  <1>1. CASE names[i] \in Methods
    <2>1. Turn(names, t, i) = Append(t, names[i])
      BY <1>1 DEF Turn
    <2> DEFINE r == Append(t, names[i])
    <2>2. /\ r \in Seq(Methods)
          /\ \A k \in DOMAIN t : k \in DOMAIN r /\ r[k] = t[k]
          /\ \E k \in DOMAIN r : r[k] = names[i]
      BY <1>1, AppendFacts
    <2>3. Turn(names, t, i) = r
      BY <2>1
    <2> HIDE DEF r
    <2> QED
      BY <2>2, <2>3
  <1>2. CASE names[i] \notin Methods
    BY <1>2 DEF Turn
  <1> QED
    BY <1>1, <1>2

\* The recursive definition defines a function: the loop ends.
LEMMA LoopDefined ==
  ASSUME NEW names \in Seq(Names)
  PROVE  \E f \in [0..Len(names) -> Seq(Methods)] :
            f[0] = <<>> /\ \A i \in 1..Len(names) : f[i] = Turn(names, f[i - 1], i)
  <1> DEFINE Upto(k) == \E f \in [0..k -> Seq(Methods)] :
                            f[0] = <<>> /\ \A i \in 1..k : f[i] = Turn(names, f[i - 1], i)
             T == {k \in 0..Len(names) : ~Upto(k)}
  <1>1. Len(names) \in Nat
    OBVIOUS
  <1> SUFFICES ASSUME T # {} PROVE FALSE
    BY <1>1
  <1>2. T \in SUBSET Nat
    BY <1>1
  <1>3. PICK k \in T : \A m \in T : k <= m
    <2> HIDE DEF T
    <2> QED
      BY <1>2, LeastNatural
  <1>4. Upto(0)
    <2> DEFINE f == [i \in 0..0 |-> <<>>]
    <2>1. f \in [0..0 -> Seq(Methods)] /\ f[0] = <<>>
      OBVIOUS
    <2>2. \A i \in 1..0 : FALSE
      OBVIOUS
    <2> HIDE DEF f
    <2> QED
      BY <2>1, <2>2
  <1>5. k \in 0..Len(names) /\ ~Upto(k) /\ k # 0
    BY <1>4
  <1> HIDE DEF Upto
  <1>6. k - 1 \in 0..Len(names) /\ k - 1 < k
    BY <1>1, <1>5
  <1>7. Upto(k - 1)
    BY <1>1, <1>3, <1>6
  <1>8. PICK f \in [0..(k - 1) -> Seq(Methods)] :
            f[0] = <<>> /\ \A i \in 1..(k - 1) : f[i] = Turn(names, f[i - 1], i)
    BY <1>7 DEF Upto
  <1> HIDE DEF T
  <1> DEFINE v == Turn(names, f[k - 1], k)
             g == [i \in 0..k |-> IF i = k THEN v ELSE f[i]]
  <1>9. v \in Seq(Methods)
    BY <1>1, <1>5, <1>8, TurnFacts
  <1> HIDE DEF v
  <1>10. /\ g \in [0..k -> Seq(Methods)] /\ g[0] = <<>> /\ g[k] = v
         /\ \A i \in 0..(k - 1) : g[i] = f[i]
    BY <1>1, <1>5, <1>8, <1>9
  <1> HIDE DEF g
  <1>11. \A i \in 1..k : g[i] = Turn(names, g[i - 1], i)
    <2> TAKE i \in 1..k
    <2>1. CASE i = k
      BY <1>1, <1>5, <1>10, <2>1 DEF v
    <2>2. CASE i # k
      <3>1. i \in 1..(k - 1) /\ i \in 0..(k - 1) /\ i - 1 \in 0..(k - 1)
        BY <1>1, <1>5, <2>2
      <3> QED
        BY <1>8, <1>10, <3>1
    <2> QED
      BY <2>1, <2>2
  <1>12. Upto(k)
    BY <1>10, <1>11 DEF Upto
  <1> QED
    BY <1>5, <1>12

\* What the loop leaves: methods, and every method that was named.
LEMMA KnownMethodsFacts ==
  ASSUME NEW names \in Seq(Names)
  PROVE  /\ KnownMethods(names) \in Seq(Methods)
         /\ \A m \in Methods : m \in Range(names) => m \in Range(KnownMethods(names))
  <1> DEFINE P(f) == f = [i \in 0..Len(names) |-> IF i = 0 THEN <<>> ELSE Turn(names, f[i - 1], i)]
             F == CHOOSE f : P(f)
  <1>1. KnownMethods(names) = F[Len(names)]
    BY DEF KnownMethods, Turn
  <1>2. \E f : P(f)
    <2>1. PICK f \in [0..Len(names) -> Seq(Methods)] :
              f[0] = <<>> /\ \A i \in 1..Len(names) : f[i] = Turn(names, f[i - 1], i)
      BY LoopDefined
    <2>2. P(f)
      BY <2>1
    <2> QED
      BY <2>2
  <1> HIDE DEF P
  <1>3. P(F)
    BY <1>2
  <1>4. Len(names) \in Nat
    OBVIOUS
  <1>5. F[0] = <<>> /\ \A i \in 1..Len(names) : F[i] = Turn(names, F[i - 1], i)
    <2> HIDE DEF F
    <2> QED
      BY <1>3, <1>4 DEF P
  <1> HIDE DEF F
  <1> DEFINE Good(k) == /\ F[k] \in Seq(Methods)
                        /\ \A i \in 1..k : names[i] \in Methods =>
                              \E l \in DOMAIN F[k] : F[k][l] = names[i]
             T == {k \in 0..Len(names) : ~Good(k)}
  <1>6. T = {}
    <2> SUFFICES ASSUME T # {} PROVE FALSE
      OBVIOUS
    <2>1. T \in SUBSET Nat
      BY <1>4
    <2>2. PICK k \in T : \A m \in T : k <= m
      <3> HIDE DEF T
      <3> QED
        BY <2>1, LeastNatural
    <2>3. Good(0)
      <3>1. F[0] \in Seq(Methods) /\ \A i \in 1..0 : FALSE
        BY <1>5
      <3> QED
        BY <3>1
    <2>4. k \in 0..Len(names) /\ ~Good(k) /\ k # 0
      BY <2>3
    <2> HIDE DEF Good
    <2>5. k - 1 \in 0..Len(names) /\ k - 1 < k /\ k \in 1..Len(names)
      BY <1>4, <2>4
    <2>6. Good(k - 1)
      BY <1>4, <2>2, <2>5
    <2>7. F[k] = Turn(names, F[k - 1], k) /\ F[k - 1] \in Seq(Methods)
      BY <1>5, <2>5, <2>6 DEF Good
    <2>8. /\ F[k] \in Seq(Methods)
          /\ \A l \in DOMAIN F[k - 1] : l \in DOMAIN F[k] /\ F[k][l] = F[k - 1][l]
          /\ names[k] \in Methods => \E l \in DOMAIN F[k] : F[k][l] = names[k]
      <3> DEFINE t == F[k - 1]
      <3>1. t \in Seq(Methods) /\ F[k] = Turn(names, t, k)
        BY <2>7
      <3> HIDE DEF t
      <3>2. /\ Turn(names, t, k) \in Seq(Methods)
            /\ \A l \in DOMAIN t : l \in DOMAIN Turn(names, t, k) /\ Turn(names, t, k)[l] = t[l]
            /\ names[k] \in Methods =>
                 \E l \in DOMAIN Turn(names, t, k) : Turn(names, t, k)[l] = names[k]
        BY <2>5, <3>1, TurnFacts
      <3> QED
        BY <3>1, <3>2 DEF t
    <2>9. ASSUME NEW i \in 1..k, names[i] \in Methods
          PROVE  \E l \in DOMAIN F[k] : F[k][l] = names[i]
      <3>1. CASE i = k
        BY <2>8, <2>9, <3>1
      <3>2. CASE i # k
        <4>1. i \in 1..(k - 1)
          BY <2>5, <3>2
        <4>2. PICK l \in DOMAIN F[k - 1] : F[k - 1][l] = names[i]
          BY <2>6, <2>9, <4>1 DEF Good
        <4> QED
          BY <2>8, <4>2
      <3> QED
        BY <3>1, <3>2
    <2>10. Good(k)
      BY <2>8, <2>9 DEF Good
    <2> QED
      BY <2>4, <2>10
  <1>7. Good(Len(names))
    BY <1>4, <1>6
  <1>8. ASSUME NEW m \in Methods, m \in Range(names)
        PROVE  m \in Range(KnownMethods(names))
    <2>1. PICK i \in 1..Len(names) : names[i] = m
      BY <1>8 DEF Range
    <2>2. PICK l \in DOMAIN F[Len(names)] : F[Len(names)][l] = m
      BY <1>7, <2>1
    <2> QED
      BY <1>1, <2>2 DEF Range
  <1> QED
    BY <1>1, <1>7, <1>8

-----------------------------------------------------------------------------
(* The invariant *)

\* The configuration of p once it is loaded.
Loaded(p) == StartConfig(Load(ConfigFiles[file], Flags[p]))

\* A process that goes on after config.Load has the configuration it loaded.
ConfigInv ==
    /\ cfg = [p \in Procs |-> cfg[p]]
    /\ \A p \in Procs : cfg[p] \in {NoConfig, Loaded(p)}
    /\ \A p \in Procs : pc[p] \notin {"idle", "failed"} => cfg[p] = Loaded(p)

-----------------------------------------------------------------------------
(* The key files *)

At(p, f) == pc[p] \in {"key", "identity"} /\ Loading(p) = f

Creating(p) == load[p] \in {"create", "write"}

\* Nothing happened to f that can replace a secret which is in use.
Clean(f) == incidents[f] \cap {"misread", "overlap"} = {}

\* A process that is past a file has taken a secret from it, and one that is
\* writing a file has a secret to write.
Taken(p) ==
    /\ pc[p] \in {"identity", "node", "subscribed", "discovery", "running", "stopping"}
         => held[p][KeyPath(p)] > 0
    /\ pc[p] \in {"key", "identity"} /\ load[p] = "loaded" => held[p][Loading(p)] > 0
    /\ load[p] = "write" => own[p] > 0

TakenInv == \A p \in Procs : Taken(p)

\* One process at most creates a clean file, and the file is not there before.
CreatingAt(f) ==
    Clean(f) =>
        /\ \A p \in Procs : At(p, f) /\ load[p] = "create" => content[f] = Absent
        /\ \A p \in Procs : At(p, f) /\ load[p] = "write" => content[f] = Short
        /\ \A p, q \in Procs : At(p, f) /\ At(q, f) /\ Creating(p) /\ Creating(q) => p = q

\* Whoever has a secret of a clean file has the one that it holds.
SecretAt(f) ==
    Clean(f) =>
        /\ \A p \in Procs : held[p][f] \in {None, content[f]}
        /\ \A u \in used : u[1] = f => content[f] = u[2]

\* A file is short while it is written, or after something went wrong.
ShortAt(f) ==
    content[f] = Short =>
        incidents[f] # {} \/ \E q \in Procs : At(q, f) /\ load[q] = "write"

FileInv(f) == CreatingAt(f) /\ SecretAt(f) /\ ShortAt(f)

KeyInv == TakenInv /\ RefusedForCause /\ \A f \in Paths : FileInv(f)

-----------------------------------------------------------------------------
(* Discovery *)

\* Nothing of a process runs that could publish before somebody listens.
ListenInv ==
    \A p \in Procs :
        /\ pc[p] = "subscribed" => {"PeerConnected", "PeerDisconnected"} \subseteq subs[p]
        /\ pc[p] = "discovery" => p \in attached
        /\ p \in attached => subs[p] = EventTypes
        /\ \/ started[p] # {} \/ joining[p] # {}
           \/ \E a \in Addrs : boot[p][a].at # "none"
           => p \in attached

\* Manager.Start forgets no method, and a Bootstrap that is started has a
\* goroutine for each of its peers.
MethodsInv ==
    \A p \in Procs :
        /\ pc[p] \in {"idle", "key"} => started[p] = {}
        /\ pc[p] = "discovery" =>
             Range(cfg[p].methods) \subseteq Range(todo[p]) \cup started[p]
        /\ pc[p] = "running" => Range(cfg[p].methods) \subseteq started[p]
        /\ "bootstrap" \in started[p] =>
             \A a \in Range(cfg[p].peers) : boot[p][a].at # "none"

\* A goroutine waits only when it has a retry left.
RetryInv ==
    \A p \in Procs, a \in Addrs :
        boot[p][a].at = "wait" => boot[p][a].attempt < MaxRetries

DiscoveryInv == ListenInv /\ MethodsInv /\ RetryInv /\ NothingLost

IndInv == TypeOK /\ ConfigInv /\ KeyInv /\ DiscoveryInv

-----------------------------------------------------------------------------
(* What a process is configured with *)

\* The names of the methods after the flags: peers on the command line put
\* "bootstrap" among them.
LEMMA LoadFacts ==
  ASSUME NEW y \in Inputs \cup {NoFile}, NEW flags \in Inputs
  PROVE  /\ Load(y, flags).methods \in Seq(Names)
         /\ Load(y, flags).peers \in Seq(Addrs)
         /\ flags.peers # <<>> =>
              /\ Load(y, flags).peers = flags.peers
              /\ "bootstrap" \in Range(Load(y, flags).methods)
  <1> DEFINE base == IF y = NoFile THEN DefaultYAMLConfig ELSE y
             names == IF flags.methods # <<>> THEN flags.methods ELSE base.methods
  <1>1. /\ y # NoFile => y.methods \in Seq(Names) /\ y.peers \in Seq(Addrs)
        /\ flags.methods \in Seq(Names) /\ flags.peers \in Seq(Addrs)
    BY DEF Inputs
  <1>2. DefaultYAMLConfig.methods = <<"mdns">> /\ DefaultYAMLConfig.peers = <<>>
    BY DEF DefaultYAMLConfig
  <1>3. base.methods \in Seq(Names) /\ base.peers \in Seq(Addrs)
    <2>1. <<"mdns">> \in Seq(Names) /\ <<>> \in Seq(Addrs)
      BY StartupAssumption DEF Methods
    <2>2. CASE y = NoFile
      BY <1>2, <2>1, <2>2
    <2>3. CASE y # NoFile
      BY <1>1, <2>3
    <2> QED
      BY <2>2, <2>3
  <1>4. names \in Seq(Names)
    BY <1>1, <1>3
  <1> HIDE DEF base
  <1>5. /\ Load(y, flags).peers = IF flags.peers # <<>> THEN flags.peers ELSE base.peers
        /\ Load(y, flags).methods = IF flags.peers # <<>> /\ "bootstrap" \notin Range(names)
                                    THEN Append(names, "bootstrap") ELSE names
    BY DEF Load, base
  <1> HIDE DEF names
  <1>6. /\ Append(names, "bootstrap") \in Seq(Names)
        /\ \E k \in DOMAIN Append(names, "bootstrap") : Append(names, "bootstrap")[k] = "bootstrap"
    <2>1. "bootstrap" \in Names
      BY StartupAssumption DEF Methods
    <2> QED
      BY <1>4, <2>1, AppendFacts
  <1>7. "bootstrap" \in Range(Append(names, "bootstrap"))
    BY <1>6 DEF Range
  <1> QED
    BY <1>1, <1>3, <1>4, <1>5, <1>6, <1>7

\* What a process that has loaded its configuration goes by.
LEMMA LoadedFacts ==
  ASSUME file \in DOMAIN ConfigFiles, NEW p \in Procs
  PROVE  /\ OnPaths(Loaded(p)) /\ OnPaths(NoConfig)
         /\ Loaded(p).methods \in Seq(Services)
         /\ Range(Loaded(p).peers) \subseteq Addrs
         /\ \A a \in Range(Flags[p].peers) :
              a \in Range(Loaded(p).peers) /\ "bootstrap" \in Range(Loaded(p).methods)
  <1> DEFINE y == ConfigFiles[file]
             l == Load(y, Flags[p])
             known == KnownMethods(l.methods)
  <1>1. y \in Inputs \cup {NoFile} /\ Flags[p] \in Inputs
    BY StartupAssumption
  <1> HIDE DEF y
  <1>2. /\ l.methods \in Seq(Names) /\ l.peers \in Seq(Addrs)
        /\ Flags[p].peers # <<>> => l.peers = Flags[p].peers /\ "bootstrap" \in Range(l.methods)
    BY <1>1, LoadFacts
  <1> HIDE DEF l
  <1>3. /\ known \in Seq(Methods)
        /\ \A m \in Methods : m \in Range(l.methods) => m \in Range(known)
    BY <1>2, KnownMethodsFacts
  <1> HIDE DEF known
  <1>4. /\ Loaded(p).methods = IF known # <<>> THEN known ELSE <<"mdns">>
        /\ Loaded(p).peers = l.peers
    <2>1. StartConfig(l).methods = ToDiscoveryConfig(l) /\ StartConfig(l).peers = l.peers
      BY DEF StartConfig, ToConfig
    <2>2. ToDiscoveryConfig(l) = IF known # <<>> THEN known ELSE <<"mdns">>
      BY DEF ToDiscoveryConfig, known
    <2>3. Loaded(p) = StartConfig(l)
      BY DEF Loaded, l, y
    <2> QED
      BY <2>1, <2>2, <2>3
  <1>5. OnPaths(Loaded(p)) /\ OnPaths(NoConfig)
    BY StartupAssumption DEF Loaded
  <1>6. Loaded(p).methods \in Seq(Services)
    <2>1. known \in Seq(Services)
      BY <1>3 DEF Methods, Services
    <2>2. <<"mdns">> \in Seq(Services)
      BY DEF Services
    <2> QED
      BY <1>4, <2>1, <2>2
  <1>7. Range(Loaded(p).peers) \subseteq Addrs
    BY <1>2, <1>4 DEF Range
  <1>8. ASSUME NEW a \in Range(Flags[p].peers)
        PROVE  a \in Range(Loaded(p).peers) /\ "bootstrap" \in Range(Loaded(p).methods)
    <2>1. Flags[p].peers # <<>>
      BY <1>8 DEF Range
    <2>2. "bootstrap" \in Range(known)
      BY <1>2, <1>3, <2>1 DEF Methods
    <2>3. known # <<>>
      BY <2>2 DEF Range
    <2> QED
      BY <1>2, <1>4, <1>8, <2>1, <2>2, <2>3
  <1> QED
    BY <1>5, <1>6, <1>7, <1>8

\* The files of a process are among the paths, and the key is not the identity.
LEMMA PathFacts ==
  ASSUME file \in DOMAIN ConfigFiles, ConfigInv, NEW p \in Procs
  PROVE  /\ KeyPath(p) \in Paths /\ IdentityPath(p) \in Paths /\ Loading(p) \in Paths
         /\ \A q \in Procs : KeyPath(q) # IdentityPath(p)
  <1>1. OnPaths(cfg[p])
    BY LoadedFacts DEF ConfigInv
  <1> QED
    BY <1>1 DEF OnPaths, KeyPath, IdentityPath, Loading

-----------------------------------------------------------------------------
(* The initial states *)

LEMMA InitEstablishes == Init => IndInv
  <1> SUFFICES ASSUME Init PROVE IndInv
    OBVIOUS
  <1> USE DEF Init
  <1>1. ConfigInv
    BY DEF ConfigInv
  <1>2. KeyTypeOK
    BY DEF KeyTypeOK, KeyInit, None, Absent
  <1>3. DiscoveryTypeOK
    <2>1. NoRetries \in [Addrs -> Retries]
      BY DiscoveryAssumption DEF NoRetries, Retries
    <2>2. todo \in [Nodes -> Seq(Services)]
      BY DEF DiscoveryInit
    <2>3. boot \in [Nodes -> [Addrs -> Retries]]
      BY <2>1 DEF DiscoveryInit
    <2> QED
      BY <2>2, <2>3 DEF DiscoveryTypeOK, DiscoveryInit
  <1>4. TypeOK
    <2>1. \A p \in Procs : KeyPath(p) \in Paths /\ IdentityPath(p) \in Paths
      BY <1>1, PathFacts
    <2>2. pc \in [Procs -> Phases]
      BY DEF Phases
    <2> QED
      BY <1>2, <1>3, <2>1, <2>2, StartupAssumption DEF TypeOK
  <1>5. KeyInv
    <2>1. TakenInv /\ RefusedForCause
      BY DEF TakenInv, Taken, RefusedForCause, KeyInit
    <2>2. ASSUME NEW f \in Paths PROVE FileInv(f)
      BY DEF FileInv, CreatingAt, SecretAt, ShortAt, At, KeyInit, Absent, Short, None
    <2> QED
      BY <2>1, <2>2 DEF KeyInv
  <1>6. DiscoveryInv
    BY StartupAssumption DEF DiscoveryInv, ListenInv, MethodsInv, RetryInv, NothingLost, DiscoveryInit, NoRetries
  <1> QED
    BY <1>1, <1>4, <1>5, <1>6 DEF IndInv

-----------------------------------------------------------------------------
(* The key files are kept *)

\* A step of p that leaves the files and what is held of them alone.
LEMMA KeyKept ==
  ASSUME TypeOK, ConfigInv, KeyInv, UNCHANGED <<keyVars, cfg, file>>,
         NEW p \in Procs, NEW s \in Phases \ {"idle", "key", "identity"},
         pc' = [pc EXCEPT ![p] = s],
         s = "failed" \/ pc[p] \notin {"idle", "key", "failed"},
         pc[p] \in {"key", "identity"} => load[p] # "write",
         NEW f \in Paths, used' \in {used, used \cup {<<f, held[p][f]>>}}, 
         used' # used => held[p][f] > 0
  PROVE  KeyInv'
  <1>1. \A q \in Procs : pc'[q] = IF q = p THEN s ELSE pc[q]
    BY DEF TypeOK
  <1>2. UNCHANGED <<content, made, load, own, held, incidents, cfg>>
    BY DEF keyVars
  <1>3. \A q \in Procs : KeyPath(q)' = KeyPath(q) /\ IdentityPath(q)' = IdentityPath(q)
    BY <1>2 DEF KeyPath, IdentityPath
  <1>4. \A q \in Procs : q # p => Loading(q)' = Loading(q)
    BY <1>1, <1>3 DEF Loading
  <1>5. ASSUME NEW g \in Paths, NEW q \in Procs
        PROVE  At(q, g)' <=> At(q, g) /\ q # p
    BY <1>1, <1>4 DEF At
  <1>6. TakenInv'
    <2> SUFFICES ASSUME NEW q \in Procs PROVE Taken(q)'
      BY DEF TakenInv
    <2>1. CASE q = p
      BY <1>1, <1>2, <1>3, <2>1 DEF KeyInv, TakenInv, Taken, TypeOK, Phases
    <2>2. CASE q # p
      BY <1>1, <1>2, <1>3, <1>4, <2>2 DEF KeyInv, TakenInv, Taken
    <2> QED
      BY <2>1, <2>2
  <1>7. RefusedForCause'
    BY <1>1, <1>2, <1>4 DEF KeyInv, RefusedForCause
  <1>8. ASSUME NEW g \in Paths PROVE FileInv(g)'
    <2>1. Clean(g)' <=> Clean(g)
      BY <1>2 DEF Clean
    <2>2. CreatingAt(g)'
      BY <1>2, <1>5, <2>1 DEF KeyInv, FileInv, CreatingAt, Creating
    <2>3. SecretAt(g)'
      BY <1>2, <2>1 DEF KeyInv, FileInv, SecretAt, None
    <2>4. ShortAt(g)'
      BY <1>2, <1>5 DEF KeyInv, FileInv, ShortAt, At
    <2> QED
      BY <2>2, <2>3, <2>4 DEF FileInv
  <1> QED
    BY <1>6, <1>7, <1>8 DEF KeyInv

\* Process p comes to the next file.
LEMMA LoadBegins ==
  ASSUME TypeOK, ConfigInv, KeyInv, ConfigInv', UNCHANGED <<content, made, own, held, incidents, used, file>>,
         NEW p \in Procs, NEW s \in {"key", "identity"}, pc' = [pc EXCEPT ![p] = s],
         load' = [load EXCEPT ![p] = "read"],
         pc[p] \in {"key", "identity"} => load[p] # "write",
         \A q \in Procs : q # p => cfg'[q] = cfg[q],
         s = "identity" => held[p][KeyPath(p)'] > 0
  PROVE  KeyInv'
  <1>1. \A q \in Procs : /\ pc'[q] = IF q = p THEN s ELSE pc[q]
                         /\ load'[q] = IF q = p THEN "read" ELSE load[q]
    BY DEF TypeOK, KeyTypeOK
  <1>2. \A q \in Procs : q # p => KeyPath(q)' = KeyPath(q) /\ IdentityPath(q)' = IdentityPath(q)
                                  /\ Loading(q)' = Loading(q)
    BY <1>1 DEF KeyPath, IdentityPath, Loading
  <1>3. ASSUME NEW g \in Paths, NEW q \in Procs, q # p
        PROVE  At(q, g)' <=> At(q, g)
    BY <1>1, <1>2, <1>3 DEF At
  <1>4. TakenInv'
    <2> SUFFICES ASSUME NEW q \in Procs PROVE Taken(q)'
      BY DEF TakenInv
    <2>1. CASE q = p
      BY <1>1, <2>1 DEF Taken
    <2>2. CASE q # p
      BY <1>1, <1>2, <2>2 DEF KeyInv, TakenInv, Taken
    <2> QED
      BY <2>1, <2>2
  <1>5. RefusedForCause'
    BY <1>1, <1>2 DEF KeyInv, RefusedForCause
  <1>6. ASSUME NEW g \in Paths PROVE FileInv(g)'
    <2>1. Clean(g)' <=> Clean(g)
      BY DEF Clean
    <2>2. CreatingAt(g)'
      BY <1>1, <1>3, <2>1 DEF KeyInv, FileInv, CreatingAt, Creating
    <2>3. SecretAt(g)'
      BY <2>1 DEF KeyInv, FileInv, SecretAt, None
    <2>4. ShortAt(g)'
      <3> SUFFICES ASSUME content[g] = Short, incidents[g] = {}
                   PROVE  \E q \in Procs : At(q, g)' /\ load'[q] = "write"
        BY DEF ShortAt, Short
      <3>1. PICK q \in Procs : At(q, g) /\ load[q] = "write"
        BY DEF KeyInv, FileInv, ShortAt
      <3>2. q # p
        BY <3>1 DEF At
      <3> QED
        BY <1>1, <1>3, <3>1, <3>2
    <2> QED
      BY <2>2, <2>3, <2>4 DEF FileInv
  <1> QED
    BY <1>4, <1>5, <1>6 DEF KeyInv

\* What p does at one file leaves the others as they are.
LEMMA OtherFiles ==
  ASSUME TypeOK, KeyInv, NEW p \in Procs, NEW f \in Paths, At(p, f),
         UNCHANGED <<pc, cfg, used>>, NEW s, load' = [load EXCEPT ![p] = s],
         NEW g \in Paths, g # f,
         content'[g] = content[g] /\ incidents'[g] = incidents[g],
         \A q \in Procs : held'[q][g] = held[q][g]
  PROVE  FileInv(g)'
  <1>1. \A q \in Procs : Loading(q)' = Loading(q) /\ (At(q, g)' <=> At(q, g))
    BY DEF Loading, KeyPath, IdentityPath, At
  <1>2. \A q \in Procs : At(q, g) => load'[q] = load[q]
    BY DEF At, TypeOK, KeyTypeOK
  <1>3. Clean(g)' <=> Clean(g)
    BY DEF Clean
  <1>4. CreatingAt(g)'
    BY <1>1, <1>2, <1>3 DEF KeyInv, FileInv, CreatingAt, Creating, Absent, Short
  <1>5. SecretAt(g)'
    BY <1>3 DEF KeyInv, FileInv, SecretAt, None
  <1>6. ShortAt(g)'
    BY <1>1, <1>2 DEF KeyInv, FileInv, ShortAt, Short
  <1> QED
    BY <1>4, <1>5, <1>6 DEF FileInv

\* A process that reads a file while another creates it is an incident.
LEMMA OverlapFacts ==
  ASSUME TypeOK, ConfigInv, NEW p \in Procs, NEW f \in Paths, At(p, f),
         NEW q \in Procs, q # p, At(q, f), Creating(q)
  PROVE  Overlap(p, Readers(p)) = {"overlap"}
  <1>1. \A r \in Procs : \A t \in Procs : KeyPath(r) # IdentityPath(t)
    BY PathFacts DEF TypeOK
  <1>2. pc[q] = pc[p] /\ Loading(q) = Loading(p)
    BY <1>1 DEF At, Loading
  <1>3. q \in Readers(p) \ {p}
    BY <1>2 DEF Readers
  <1> QED
    BY <1>3 DEF Overlap, Creating

\* ReadFile and its errors.
LEMMA ReadPreserves ==
  ASSUME TypeOK, ConfigInv, KeyInv, NEW p \in Procs, NEW f \in Paths, At(p, f),
         UNCHANGED <<pc, cfg, used, file>>,
         \/ ReadFile(p, f, Readers(p)) \/ RefuseFile(p, f, Readers(p))
         \/ FileIsAbsent(p, f, Readers(p)) \/ Misread(p, f) \/ ReadFails(p, f)
  PROVE  KeyInv'
  <1>1. PICK s \in {"loaded", "refused", "create"}, w \in SUBSET Incidents :
           /\ load' = [load EXCEPT ![p] = s] /\ load[p] = "read"
           /\ incidents' = [incidents EXCEPT ![f] = @ \cup w]
           /\ held' = IF s = "loaded" THEN [held EXCEPT ![p][f] = content[f]] ELSE held
           /\ s = "loaded" => content[f] > 0
           /\ s = "create" => content[f] = Absent \/ "misread" \in w
           /\ s = "refused" => content[f] = Short \/ w # {}
           /\ s = "refused" \/ "misread" \in w \/ w = Overlap(p, Readers(p))
           /\ w \cap {"misread", "overlap"} = {} /\ w # {} => s = "refused"
           /\ w = {} => w = Overlap(p, Readers(p))
           /\ UNCHANGED <<content, made, own>>
    <2>1. Overlap(p, Readers(p)) \in SUBSET Incidents /\ Overlap(p, Readers(p)) \in {{}, {"overlap"}}
      BY DEF Overlap, Incidents
    <2>2. CASE ReadFile(p, f, Readers(p))
      BY <2>1, <2>2 DEF ReadFile, LoadGoes, Happens, Short
    <2>3. CASE RefuseFile(p, f, Readers(p))
      BY <2>1, <2>3 DEF RefuseFile, LoadGoes, Happens
    <2>4. CASE FileIsAbsent(p, f, Readers(p))
      BY <2>1, <2>4 DEF FileIsAbsent, LoadGoes, Happens
    <2>5. CASE Misread(p, f)
      BY <2>5 DEF Misread, LoadGoes, Happens, Incidents
    <2>6. CASE ReadFails(p, f)
      BY <2>6 DEF ReadFails, LoadGoes, Happens, Incidents
    <2> QED
      BY <2>2, <2>3, <2>4, <2>5, <2>6
  <1>2. /\ \A q \in Procs : load'[q] = IF q = p THEN s ELSE load[q]
        /\ \A g \in Paths : incidents'[g] = IF g = f THEN incidents[f] \cup w ELSE incidents[g]
        /\ \A q \in Procs, g \in Paths :
             held'[q][g] = IF q = p /\ g = f /\ s = "loaded" THEN content[f] ELSE held[q][g]
    BY <1>1 DEF TypeOK, KeyTypeOK
  <1>3. \A q \in Procs : /\ Loading(q)' = Loading(q) /\ KeyPath(q)' = KeyPath(q)
                         /\ \A g \in Paths : At(q, g)' <=> At(q, g)
    BY DEF Loading, KeyPath, IdentityPath, At
  <1>4. ASSUME NEW g \in Paths, g # f PROVE FileInv(g)'
    <2>1. /\ content'[g] = content[g] /\ incidents'[g] = incidents[g]
          /\ \A q \in Procs : held'[q][g] = held[q][g]
      BY <1>1, <1>2, <1>4
    <2>2. load' = [load EXCEPT ![p] = s]
      BY <1>1
    <2> QED
      BY <1>4, <2>1, <2>2, OtherFiles
  <1>5. Clean(f)' => Clean(f) /\ w \cap {"misread", "overlap"} = {}
    BY <1>2 DEF Clean
  <1>6. ASSUME w \cap {"misread", "overlap"} = {}, s # "refused",
               NEW q \in Procs, q # p, At(q, f), Creating(q)
        PROVE  FALSE
    <2>1. Overlap(p, Readers(p)) = {"overlap"}
      BY <1>6, OverlapFacts
    <2>2. w = Overlap(p, Readers(p))
      BY <1>1, <1>6
    <2> QED
      BY <1>6, <2>1, <2>2
  <1>7. CreatingAt(f)'
    <2> SUFFICES ASSUME Clean(f)'
                 PROVE  (/\ \A q \in Procs : At(q, f) /\ load[q] = "create" => content[f] = Absent
                         /\ \A q \in Procs : At(q, f) /\ load[q] = "write" => content[f] = Short
                         /\ \A q, r \in Procs : At(q, f) /\ At(r, f) /\ Creating(q) /\ Creating(r) => q = r)'
      BY DEF CreatingAt
    <2>1. \A q \in Procs : q # p => (Creating(q)' <=> Creating(q))
      BY <1>2 DEF Creating
    <2>2. CASE s = "create"
      BY <1>1, <1>2, <1>3, <1>5, <1>6, <2>1, <2>2 DEF KeyInv, FileInv, CreatingAt, Absent, Creating
    <2>3. CASE s # "create"
      <3>1. ~Creating(p)'
        BY <1>1, <1>2, <2>3 DEF Creating
      <3> QED
        BY <1>1, <1>2, <1>3, <1>5, <2>1, <2>3, <3>1 DEF KeyInv, FileInv, CreatingAt, Absent, Short
    <2> QED
      BY <2>2, <2>3
  <1>8. SecretAt(f)'
    BY <1>1, <1>2, <1>5 DEF KeyInv, FileInv, SecretAt, None
  <1>9. ShortAt(f)'
    BY <1>1, <1>2, <1>3 DEF KeyInv, FileInv, ShortAt
  <1>10. TakenInv'
    <2> SUFFICES ASSUME NEW q \in Procs PROVE Taken(q)'
      BY DEF TakenInv
    <2>1. KeyPath(q) \in Paths /\ Loading(q) \in Paths
      BY PathFacts DEF TypeOK
    <2>2. held'[q][KeyPath(q)] > 0 \/ held'[q][KeyPath(q)] = held[q][KeyPath(q)]
      BY <1>1, <1>2, <2>1
    <2>3. CASE q = p
      <3>1. Loading(q) = f
        BY <2>3 DEF At
      <3>2. s = "loaded" => held'[q][f] > 0
        BY <1>1, <1>2, <2>3
      <3> QED
        BY <1>1, <1>2, <1>3, <2>2, <2>3, <3>1, <3>2 DEF KeyInv, TakenInv, Taken
    <2>4. CASE q # p
      BY <1>1, <1>2, <1>3, <2>1, <2>2, <2>4 DEF KeyInv, TakenInv, Taken
    <2> QED
      BY <2>3, <2>4
  <1>11. RefusedForCause'
    <2> SUFFICES ASSUME NEW q \in Procs, pc'[q] \in {"key", "identity"}, load'[q] = "refused"
                 PROVE  incidents'[Loading(q)'] # {}
      BY DEF RefusedForCause
    <2>1. CASE q # p
      <3>1. incidents[Loading(q)] # {} /\ Loading(q) \in Paths
        BY <1>2, <2>1, PathFacts DEF KeyInv, RefusedForCause, TypeOK
      <3> QED
        BY <1>2, <1>3, <3>1
    <2>2. CASE q = p
      <3>1. Loading(q) = f /\ s = "refused"
        BY <1>2, <2>2 DEF At
      <3>2. incidents[f] \cup w # {}
        <4>1. CASE w = {}
          <5>1. content[f] = Short /\ Overlap(p, Readers(p)) = {}
            BY <1>1, <3>1, <4>1
          <5>2. \A r \in Procs : At(r, f) /\ load[r] = "write" => r # p /\ Creating(r)
            BY <1>1 DEF Creating
          <5>3. \A r \in Procs : ~(At(r, f) /\ load[r] = "write")
            BY <5>1, <5>2, OverlapFacts
          <5> QED
            BY <5>1, <5>3 DEF KeyInv, FileInv, ShortAt
        <4> QED
          BY <4>1
      <3> QED
        BY <1>2, <1>3, <2>2, <3>1, <3>2
    <2> QED
      BY <2>1, <2>2
  <1> QED
    BY <1>4, <1>7, <1>8, <1>9, <1>10, <1>11 DEF KeyInv, FileInv

\* os.WriteFile and its errors.
LEMMA WritePreserves ==
  ASSUME TypeOK, ConfigInv, KeyInv, NEW p \in Procs, NEW f \in Paths, At(p, f),
         UNCHANGED <<pc, cfg, used, file>>,
         CreateFile(p, f) \/ CreateFails(p, f) \/ WriteFile(p, f) \/ WriteFails(p, f)
  PROVE  KeyInv'
  <1> DEFINE Effect(s, w, c, o) ==
               /\ load' = [load EXCEPT ![p] = s] /\ Creating(p)
               /\ incidents' = [incidents EXCEPT ![f] = @ \cup w]
               /\ w \cap {"misread", "overlap"} = {}
               /\ content' = [content EXCEPT ![f] = c]
               /\ own' = [own EXCEPT ![p] = o]
               /\ held' = IF s = "loaded" THEN [held EXCEPT ![p][f] = c] ELSE held
               /\ s = "write" => c = Short /\ load[p] = "create" /\ o > 0
               /\ s = "loaded" => c = own[p] /\ load[p] = "write"
               /\ s = "refused" => c = content[f] /\ w # {}
  <1>1. PICK s \in {"write", "loaded", "refused"}, w \in SUBSET Incidents, c \in Int, o \in Int :
          Effect(s, w, c, o)
    <2>1. content = [content EXCEPT ![f] = content[f]] /\ own = [own EXCEPT ![p] = own[p]]
          /\ incidents = [incidents EXCEPT ![f] = @ \cup {}]
      BY DEF TypeOK, KeyTypeOK
    <2>2. content[f] \in Int /\ own[p] \in Int /\ made + 1 \in Int /\ made + 1 > 0
      BY DEF TypeOK, KeyTypeOK, Absent, Short
    <2>3. /\ Short \in Int /\ None \in Int
          /\ {{}, {"failed"}, {"cut"}} \subseteq SUBSET Incidents
      BY DEF Short, None, Incidents
    <2>4. CASE CreateFile(p, f)
      <3>1. Effect("write", {}, Short, made + 1)
        BY <2>1, <2>2, <2>4 DEF CreateFile, LoadGoes, Creating
      <3> HIDE DEF Effect
      <3> QED
        BY <2>2, <2>3, <3>1
    <2>5. CASE CreateFails(p, f)
      <3>1. Effect("refused", {"failed"}, content[f], own[p])
        BY <2>1, <2>5 DEF CreateFails, LoadGoes, Happens, Creating
      <3> HIDE DEF Effect
      <3> QED
        BY <2>2, <2>3, <3>1
    <2>6. CASE WriteFile(p, f)
      <3>1. Effect("loaded", {}, own[p], None)
        BY <2>1, <2>6 DEF WriteFile, LoadGoes, Creating
      <3> HIDE DEF Effect
      <3> QED
        BY <2>2, <2>3, <3>1
    <2>7. CASE WriteFails(p, f)
      <3>1. Effect("refused", {"cut"}, content[f], None)
        BY <2>1, <2>7 DEF WriteFails, LoadGoes, Happens, Creating
      <3> HIDE DEF Effect
      <3> QED
        BY <2>2, <2>3, <3>1
    <2> QED
      BY <2>4, <2>5, <2>6, <2>7
  <1>2. /\ \A q \in Procs : /\ load'[q] = IF q = p THEN s ELSE load[q]
                            /\ own'[q] = IF q = p THEN o ELSE own[q]
        /\ \A g \in Paths : /\ incidents'[g] = IF g = f THEN incidents[f] \cup w ELSE incidents[g]
                            /\ content'[g] = IF g = f THEN c ELSE content[g]
        /\ \A q \in Procs, g \in Paths :
             held'[q][g] = IF q = p /\ g = f /\ s = "loaded" THEN c ELSE held[q][g]
    BY <1>1 DEF TypeOK, KeyTypeOK
  <1>3. \A q \in Procs : /\ Loading(q)' = Loading(q) /\ KeyPath(q)' = KeyPath(q)
                         /\ \A g \in Paths : At(q, g)' <=> At(q, g)
    BY DEF Loading, KeyPath, IdentityPath, At
  <1>4. ASSUME NEW g \in Paths, g # f PROVE FileInv(g)'
    <2>1. /\ content'[g] = content[g] /\ incidents'[g] = incidents[g]
          /\ \A q \in Procs : held'[q][g] = held[q][g]
      BY <1>1, <1>2, <1>4
    <2>2. load' = [load EXCEPT ![p] = s]
      BY <1>1
    <2> QED
      BY <1>4, <2>1, <2>2, OtherFiles
  <1>5. Clean(f)' <=> Clean(f)
    BY <1>1, <1>2 DEF Clean
  <1>6. s = "loaded" => c > 0
    BY <1>1 DEF KeyInv, TakenInv, Taken
  <1>7. ASSUME Clean(f), NEW q \in Procs, q # p, At(q, f) PROVE ~Creating(q) /\ ~Creating(q)'
    BY <1>1, <1>2, <1>7 DEF KeyInv, FileInv, CreatingAt, Creating
  <1>8. CreatingAt(f)'
    <2> SUFFICES ASSUME Clean(f)'
                 PROVE  (/\ \A q \in Procs : At(q, f) /\ load[q] = "create" => content[f] = Absent
                         /\ \A q \in Procs : At(q, f) /\ load[q] = "write" => content[f] = Short
                         /\ \A q, r \in Procs : At(q, f) /\ At(r, f) /\ Creating(q) /\ Creating(r) => q = r)'
      BY DEF CreatingAt
    <2>1. \A q \in Procs : At(q, f)' /\ Creating(q)' => q = p /\ s = "write"
      BY <1>1, <1>2, <1>3, <1>5, <1>7 DEF Creating
    <2> QED
      BY <1>1, <1>2, <2>1 DEF Creating, Short
  <1>9. SecretAt(f)'
    <2> SUFFICES ASSUME Clean(f)
                 PROVE  (/\ \A q \in Procs : held[q][f] \in {None, content[f]}
                         /\ \A u \in used : u[1] = f => content[f] = u[2])'
      BY <1>5 DEF SecretAt
    <2>1. CASE s = "refused"
      BY <1>1, <1>2, <2>1 DEF KeyInv, FileInv, SecretAt, None
    <2>2. CASE s # "refused"
      <3>1. content[f] \in {Absent, Short}
        BY <1>1, <2>2 DEF KeyInv, FileInv, CreatingAt, Creating
      <3>2. \A q \in Procs : held[q][f] = None
        BY <3>1 DEF KeyInv, FileInv, SecretAt, None, Absent, Short, TypeOK, KeyTypeOK
      <3>3. \A u \in used : u[1] # f
        <4> SUFFICES ASSUME NEW u \in used, u[1] = f PROVE FALSE
          OBVIOUS
        <4>1. content[f] = u[2]
          BY DEF KeyInv, FileInv, SecretAt
        <4>2. u[2] \in 1..made
          BY DEF TypeOK
        <4>3. u[2] > 0
          BY <4>2 DEF TypeOK, KeyTypeOK
        <4> QED
          BY <3>1, <4>1, <4>3 DEF Absent, Short
      <3> QED
        BY <1>1, <1>2, <3>2, <3>3 DEF None
    <2> QED
      BY <2>1, <2>2
  <1>10. ShortAt(f)'
    <2>1. CASE s = "write"
      BY <1>2, <1>3, <2>1 DEF ShortAt
    <2>2. CASE s = "loaded"
      BY <1>2, <1>6, <2>2 DEF ShortAt, Short
    <2>3. CASE s = "refused"
      BY <1>1, <1>2, <2>3 DEF ShortAt
    <2> QED
      BY <2>1, <2>2, <2>3
  <1>11. TakenInv'
    <2> SUFFICES ASSUME NEW q \in Procs PROVE Taken(q)'
      BY DEF TakenInv
    <2>1. KeyPath(q) \in Paths /\ Loading(q) \in Paths
      BY PathFacts DEF TypeOK
    <2>2. held'[q][KeyPath(q)] > 0 \/ held'[q][KeyPath(q)] = held[q][KeyPath(q)]
      BY <1>2, <1>6, <2>1
    <2>3. CASE q = p
      <3>1. Loading(q) = f
        BY <2>3 DEF At
      <3>2. s = "loaded" => held'[q][f] > 0
        BY <1>2, <1>6, <2>3
      <3> QED
        BY <1>1, <1>2, <1>3, <2>2, <2>3, <3>1, <3>2 DEF KeyInv, TakenInv, Taken
    <2>4. CASE q # p
      BY <1>2, <1>3, <2>1, <2>2, <2>4 DEF KeyInv, TakenInv, Taken
    <2> QED
      BY <2>3, <2>4
  <1>12. RefusedForCause'
    <2> SUFFICES ASSUME NEW q \in Procs, pc'[q] \in {"key", "identity"}, load'[q] = "refused"
                 PROVE  incidents'[Loading(q)'] # {}
      BY DEF RefusedForCause
    <2>1. CASE q # p
      <3>1. incidents[Loading(q)] # {} /\ Loading(q) \in Paths
        BY <1>2, <2>1, PathFacts DEF KeyInv, RefusedForCause, TypeOK
      <3> QED
        BY <1>2, <1>3, <3>1
    <2>2. CASE q = p
      BY <1>1, <1>2, <1>3, <2>2 DEF At
    <2> QED
      BY <2>1, <2>2
  <1> QED
    BY <1>4, <1>8, <1>9, <1>10, <1>11, <1>12 DEF KeyInv, FileInv

\* The process is gone, wherever it was.
LEMMA ExitKeeps ==
  ASSUME TypeOK, ConfigInv, KeyInv, NEW p \in Procs, DropKeys(p, Loading(p)), UNCHANGED <<used, file>>,
         pc' = [pc EXCEPT ![p] = "idle"], \A q \in Procs : q # p => cfg'[q] = cfg[q]
  PROVE  KeyInv'
  <1> DEFINE f == Loading(p)
             w == IF load[p] = "write" THEN {"cut"} ELSE {}
  <1>1. f \in Paths
    BY PathFacts DEF TypeOK
  <1>2. /\ UNCHANGED <<content, made>>
        /\ \A q \in Procs : /\ pc'[q] = IF q = p THEN "idle" ELSE pc[q]
                            /\ load'[q] = IF q = p THEN "none" ELSE load[q]
                            /\ own'[q] = IF q = p THEN None ELSE own[q]
                            /\ \A g \in Paths : held'[q][g] = IF q = p THEN None ELSE held[q][g]
        /\ \A g \in Paths : incidents'[g] = IF g = f THEN incidents[f] \cup w ELSE incidents[g]
    BY <1>1 DEF DropKeys, LoadGoes, Happens, TypeOK, KeyTypeOK
  <1>3. \A q \in Procs : q # p => Loading(q)' = Loading(q) /\ KeyPath(q)' = KeyPath(q)
    BY <1>2 DEF Loading, KeyPath, IdentityPath
  <1>4. \A q \in Procs, g \in Paths : At(q, g)' <=> At(q, g) /\ q # p
    BY <1>2, <1>3 DEF At
  <1>5. At(p, f) \/ pc[p] \notin {"key", "identity"}
    BY DEF At
  <1>6. \A g \in Paths : At(p, g) => g = f
    BY DEF At
  <1> HIDE DEF f
  <1>7. ASSUME NEW g \in Paths PROVE FileInv(g)'
    <2>1. Clean(g)' => Clean(g)
      BY <1>2 DEF Clean
    <2>2. CreatingAt(g)'
      BY <1>2, <1>4, <2>1 DEF KeyInv, FileInv, CreatingAt, Creating
    <2>3. SecretAt(g)'
      BY <1>2, <2>1 DEF KeyInv, FileInv, SecretAt, None
    <2>4. ShortAt(g)'
      <3> SUFFICES ASSUME content[g] = Short, incidents'[g] = {}
                   PROVE  \E q \in Procs : At(q, g)' /\ load'[q] = "write"
        BY <1>2 DEF ShortAt, Short
      <3>1. incidents[g] = {}
        BY <1>1, <1>2
      <3>2. PICK q \in Procs : At(q, g) /\ load[q] = "write"
        BY <3>1 DEF KeyInv, FileInv, ShortAt
      <3>3. q # p
        BY <1>2, <1>6, <3>2
      <3> QED
        BY <1>2, <1>4, <3>2, <3>3
    <2> QED
      BY <2>2, <2>3, <2>4 DEF FileInv
  <1>8. TakenInv'
    <2> SUFFICES ASSUME NEW q \in Procs PROVE Taken(q)'
      BY DEF TakenInv
    <2>1. KeyPath(q) \in Paths /\ Loading(q) \in Paths
      BY PathFacts DEF TypeOK
    <2>2. CASE q = p
      BY <1>2, <2>2 DEF Taken
    <2>3. CASE q # p
      BY <1>2, <1>3, <2>1, <2>3 DEF KeyInv, TakenInv, Taken
    <2> QED
      BY <2>2, <2>3
  <1>9. RefusedForCause'
    <2> SUFFICES ASSUME NEW q \in Procs, pc'[q] \in {"key", "identity"}, load'[q] = "refused"
                 PROVE  incidents'[Loading(q)'] # {}
      BY DEF RefusedForCause
    <2>1. q # p /\ pc[q] = pc'[q] /\ load[q] = "refused"
      BY <1>2
    <2>2. incidents[Loading(q)] # {} /\ Loading(q) \in Paths
      BY <2>1, PathFacts DEF KeyInv, RefusedForCause, TypeOK
    <2> QED
      BY <1>2, <1>3, <2>1, <2>2
  <1> QED
    BY <1>7, <1>8, <1>9 DEF KeyInv

-----------------------------------------------------------------------------
(* Discovery *)

\* A step of p that leaves discovery alone.
LEMMA DiscoveryKept ==
  ASSUME TypeOK, DiscoveryInv, UNCHANGED discoveryVars,
         NEW p \in Procs, NEW s \in Phases \ {"subscribed"}, pc' = [pc EXCEPT ![p] = s],
         \A q \in Procs : q # p => cfg'[q] = cfg[q],
         cfg'[p] = cfg[p] \/ pc[p] = "idle",
         s \in {"discovery", "running"} => pc[p] = s \/ (pc[p] = "discovery" /\ todo[p] = <<>>),
         s \in {"idle", "key"} => pc[p] \in {"idle", "key"}
  PROVE  DiscoveryInv'
  <1>1. \A q \in Procs : pc'[q] = IF q = p THEN s ELSE pc[q]
    BY DEF TypeOK
  <1>2. UNCHANGED <<todo, started, boot, joining, attached, subs, lost>>
    BY DEF discoveryVars
  <1>3. ListenInv'
    BY <1>1, <1>2 DEF DiscoveryInv, ListenInv
  <1>4. MethodsInv'
    <2> SUFFICES ASSUME NEW q \in Procs
                 PROVE  (/\ pc[q] \in {"idle", "key"} => started[q] = {}
                         /\ pc[q] = "discovery" =>
                              Range(cfg[q].methods) \subseteq Range(todo[q]) \cup started[q]
                         /\ pc[q] = "running" => Range(cfg[q].methods) \subseteq started[q]
                         /\ "bootstrap" \in started[q] =>
                              \A a \in Range(cfg[q].peers) : boot[q][a].at # "none")'
      BY DEF MethodsInv
    <2>1. CASE q # p
      BY <1>1, <1>2, <2>1 DEF DiscoveryInv, MethodsInv
    <2>2. CASE q = p /\ pc[p] = "idle"
      BY <1>1, <1>2, <2>2 DEF DiscoveryInv, MethodsInv
    <2>3. CASE q = p /\ pc[p] # "idle" /\ s = "running" /\ pc[p] = "discovery"
      <3>1. Range(todo[p]) = {}
        BY <2>3 DEF Range
      <3> QED
        BY <1>1, <1>2, <2>3, <3>1 DEF DiscoveryInv, MethodsInv
    <2>4. CASE q = p /\ pc[p] # "idle" /\ ~(s = "running" /\ pc[p] = "discovery")
      BY <1>1, <1>2, <2>4 DEF DiscoveryInv, MethodsInv
    <2> QED
      BY <2>1, <2>2, <2>3, <2>4
  <1>5. RetryInv' /\ NothingLost'
    BY <1>2 DEF DiscoveryInv, RetryInv, NothingLost
  <1> QED
    BY <1>3, <1>4, <1>5 DEF DiscoveryInv

\* A step of what is running: no method starts and no goroutine appears.
LEMMA RunKeeps ==
  ASSUME TypeOK, DiscoveryInv, UNCHANGED <<todo, started, attached, subs, cfg>>,
         \A q \in Procs : pc'[q] \in {pc[q], "stopping"},
         \A q \in Procs, a \in Addrs : boot'[q][a].at = "none" <=> boot[q][a].at = "none",
         \A q \in Procs : joining'[q] \subseteq joining[q],
         \A q \in Procs : Range(cfg[q].peers) \subseteq Addrs,
         RetryInv', lost' = {}
  PROVE  DiscoveryInv'
  <1>1. ListenInv'
    BY DEF DiscoveryInv, ListenInv
  <1>2. MethodsInv'
    BY DEF DiscoveryInv, MethodsInv
  <1> QED
    BY <1>1, <1>2 DEF DiscoveryInv, NothingLost

\* One goroutine of Bootstrap moves.
LEMMA BootGoesFacts ==
  ASSUME TypeOK, NEW p \in Procs, NEW a \in Addrs, NEW s \in {"none", "check", "dial", "wait", "done"},
         BootGoes(p, a, s)
  PROVE  /\ boot' \in [Nodes -> [Addrs -> Retries]]
         /\ boot'[p][a].at = s /\ boot'[p][a].attempt = boot[p][a].attempt
         /\ \A q \in Procs, b \in Addrs : q # p \/ b # a => boot'[q][b] = boot[q][b]
  <1>1. boot \in [Procs -> [Addrs -> Retries]]
    BY StartupAssumption DEF TypeOK, DiscoveryTypeOK
  <1> DEFINE r == [boot[p][a] EXCEPT !.at = s]
  <1>2. boot[p][a] \in Retries
    BY <1>1
  <1>3. r \in Retries /\ r.at = s /\ r.attempt = boot[p][a].attempt
    BY <1>2 DEF Retries
  <1>4. boot' = [boot EXCEPT ![p] = [boot[p] EXCEPT ![a] = r]]
    BY <1>1 DEF BootGoes
  <1> HIDE DEF r
  <1> QED
    BY <1>1, <1>3, <1>4, StartupAssumption

\* What is running of a node that is attached can publish to somebody.
LEMMA PublishFacts ==
  ASSUME TypeOK, DiscoveryInv, NEW p \in Procs, NEW types,
         Publish(p, types), types \subseteq EventTypes, types # {} => p \in attached
  PROVE  lost' = {}
  BY DEF DiscoveryInv, ListenInv, NothingLost, Publish

\* A peer of a node that is attached is connected and published.
LEMMA DiscoveredFacts ==
  ASSUME TypeOK, DiscoveryInv, NEW p \in Procs, p \in attached, NEW a \in Dialable, Discovered(p, a)
  PROVE  /\ lost' = {}
         /\ link' \in [Nodes -> SUBSET Dialable] /\ found' \in [Nodes -> SUBSET Dialable]
  <1> DEFINE types == {"PeerDiscovered"}
                      \cup IF a \in link[p] THEN {} ELSE Notified(p, "PeerConnected")
  <1>1. Publish(p, types)
    BY DEF Discovered
  <1>2. types \subseteq EventTypes
    BY DEF Notified, EventTypes
  <1> HIDE DEF types
  <1>3. lost' = {}
    BY <1>1, <1>2, PublishFacts
  <1> QED
    BY <1>3, StartupAssumption DEF Discovered, TypeOK, DiscoveryTypeOK

\* Every process's peers are addresses.
LEMMA PeersFacts ==
  ASSUME TypeOK, ConfigInv, NEW p \in Procs PROVE Range(cfg[p].peers) \subseteq Addrs
  <1>1. Range(NoConfig.peers) = {}
    <2>1. NoConfig.peers = <<>>
      BY DEF NoConfig, StartConfig, ToConfig, DefaultYAMLConfig
    <2> QED
      BY <2>1 DEF Range
  <1> QED
    BY <1>1, LoadedFacts DEF ConfigInv, TypeOK

\* The network, the DHT and mDNS.
LEMMA NetworkPreserves ==
  ASSUME TypeOK, ConfigInv, DiscoveryInv, UNCHANGED <<pc, cfg>>,
         NEW p \in Procs, NEW a \in Dialable,
         \/ Inbound(p, a) \/ LinkDown(p, a) \/ FindPeer(p, a) \/ HandlePeerFound(p, a)
         \/ Connect(p, a) \/ Join(p, a) \/ Forget(p, a)
  PROVE  DiscoveryTypeOK' /\ DiscoveryInv'
  <1>1. UNCHANGED <<todo, started, boot, attached, subs, cancelled>>
    BY DEF Inbound, LinkDown, FindPeer, HandlePeerFound, Connect, Join, Forget
  <1>2. /\ joining' \in [Nodes -> SUBSET DHTPeers] /\ recent' \in [Nodes -> SUBSET Dialable]
        /\ \A q \in Procs : joining'[q] \subseteq joining[q]
    <2>1. /\ joining' = joining \/ joining' = [joining EXCEPT ![p] = @ \ {a}]
          /\ \/ recent' = recent
             \/ recent' = [recent EXCEPT ![p] = @ \cup {a}]
             \/ recent' = [recent EXCEPT ![p] = @ \ {a}]
      BY DEF Inbound, LinkDown, FindPeer, HandlePeerFound, Connect, Join, Forget
    <2>2. joining \in [Nodes -> SUBSET DHTPeers] /\ recent \in [Nodes -> SUBSET Dialable]
      BY DEF TypeOK, DiscoveryTypeOK
    <2>3. /\ joining' \in [Nodes -> SUBSET DHTPeers]
          /\ \A q \in Procs : joining'[q] \subseteq joining[q]
      BY <2>1, <2>2, StartupAssumption
    <2>4. recent' \in [Nodes -> SUBSET Dialable]
      BY <2>1, <2>2, StartupAssumption
    <2> QED
      BY <2>3, <2>4
  <1>3. /\ Notified(p, "PeerConnected") \subseteq EventTypes
        /\ Notified(p, "PeerDisconnected") \subseteq EventTypes
        /\ Notified(p, "PeerConnected") # {} => p \in attached
        /\ Notified(p, "PeerDisconnected") # {} => p \in attached
    BY DEF Notified, EventTypes
  <1>4. started[p] # {} \/ joining[p] # {} => p \in attached
    BY DEF DiscoveryInv, ListenInv
  <1>5. /\ lost' = {}
        /\ link' \in [Nodes -> SUBSET Dialable] /\ found' \in [Nodes -> SUBSET Dialable]
    <2> USE StartupAssumption
    <2>1. CASE Inbound(p, a)
      <3>1. lost' = {}
        BY <1>3, <2>1, PublishFacts DEF Inbound
      <3> QED
        BY <2>1, <3>1 DEF Inbound, TypeOK, DiscoveryTypeOK
    <2>2. CASE LinkDown(p, a)
      <3>1. lost' = {}
        BY <1>3, <2>2, PublishFacts DEF LinkDown
      <3> QED
        BY <2>2, <3>1 DEF LinkDown, TypeOK, DiscoveryTypeOK
    <2>3. CASE FindPeer(p, a)
      BY <1>4, <2>3, DiscoveredFacts DEF FindPeer
    <2>4. CASE HandlePeerFound(p, a)
      <3>1. lost' = {}
        BY <1>4, <2>4, PublishFacts DEF HandlePeerFound, EventTypes
      <3> QED
        BY <2>4, <3>1 DEF HandlePeerFound, TypeOK, DiscoveryTypeOK
    <2>5. CASE Connect(p, a)
      <3>1. lost' = {}
        BY <1>3, <2>5, PublishFacts DEF Connect, DiscoveryInv, NothingLost
      <3>2. /\ link' = link \/ link' = [link EXCEPT ![p] = @ \cup {a}]
            /\ found' = [found EXCEPT ![p] = @ \ {a}]
        BY <2>5 DEF Connect
      <3>3. link \in [Nodes -> SUBSET Dialable] /\ found \in [Nodes -> SUBSET Dialable]
        BY DEF TypeOK, DiscoveryTypeOK
      <3>4. link' \in [Nodes -> SUBSET Dialable]
        BY <3>2, <3>3
      <3>5. found' \in [Nodes -> SUBSET Dialable]
        BY <3>2, <3>3
      <3> QED
        BY <3>1, <3>4, <3>5
    <2>6. CASE Join(p, a)
      <3>1. CASE Discovered(p, a)
        BY <1>4, <2>6, <3>1, DiscoveredFacts DEF Join
      <3>2. CASE UNCHANGED <<link, found, lost>>
        BY <3>2 DEF TypeOK, DiscoveryTypeOK, DiscoveryInv, NothingLost
      <3> QED
        BY <2>6, <3>1, <3>2 DEF Join
    <2>7. CASE Forget(p, a)
      BY <2>7 DEF Forget, TypeOK, DiscoveryTypeOK, DiscoveryInv, NothingLost
    <2> QED
      BY <2>1, <2>2, <2>3, <2>4, <2>5, <2>6, <2>7
  <1>6. DiscoveryTypeOK'
    BY <1>1, <1>2, <1>5 DEF TypeOK, DiscoveryTypeOK
  <1>7. RetryInv'
    BY <1>1 DEF DiscoveryInv, RetryInv
  <1>8. DiscoveryInv'
    <2>1. \A q \in Procs : Range(cfg[q].peers) \subseteq Addrs /\ pc'[q] \in {pc[q], "stopping"}
      BY PeersFacts
    <2>2. \A q \in Procs, b \in Addrs : boot'[q][b].at = "none" <=> boot[q][b].at = "none"
      BY <1>1
    <2> QED
      BY <1>1, <1>2, <1>5, <1>7, <2>1, <2>2, RunKeeps
  <1> QED
    BY <1>6, <1>8

\* Bootstrap.connectWithRetry.
LEMMA RetryPreserves ==
  ASSUME TypeOK, ConfigInv, DiscoveryInv, UNCHANGED <<pc, cfg>>,
         NEW p \in Procs, NEW a \in Dialable, Bootstrap(p, a)
  PROVE  DiscoveryTypeOK' /\ DiscoveryInv'
  <1>1. a \in Addrs
    BY DiscoveryAssumption
  <1>2. UNCHANGED <<todo, started, joining, recent, attached, subs, cancelled>>
    BY DEF Bootstrap, Attempt, AttemptSucceeds, AttemptFails, Wait
  <1>3. boot[p][a] \in Retries /\ boot[p][a].at # "none" /\ p \in attached
    <2>1. boot[p][a] \in Retries
      BY <1>1, StartupAssumption DEF TypeOK, DiscoveryTypeOK
    <2>2. boot[p][a].at # "none"
      BY DEF Bootstrap, Attempt, AttemptSucceeds, AttemptFails, Wait
    <2> QED
      BY <1>1, <2>1, <2>2 DEF DiscoveryInv, ListenInv
  <1>4. /\ boot' \in [Nodes -> [Addrs -> Retries]]
        /\ boot'[p][a].at # "none"
        /\ boot'[p][a].at = "wait" => boot'[p][a].attempt < MaxRetries
        /\ \A q \in Procs, b \in Addrs : q # p \/ b # a => boot'[q][b] = boot[q][b]
    <2>1. CASE Attempt(p, a)
      <3>1. PICK s \in {"done", "dial"} : BootGoes(p, a, s)
        BY <2>1 DEF Attempt
      <3> QED
        BY <1>1, <3>1, BootGoesFacts
    <2>2. CASE AttemptSucceeds(p, a)
      BY <1>1, <2>2, BootGoesFacts DEF AttemptSucceeds
    <2>3. CASE AttemptFails(p, a)
      <3>1. PICK s \in {"wait", "done"} : BootGoes(p, a, s) /\ (s = "wait" => boot[p][a].attempt < MaxRetries)
        BY <2>3 DEF AttemptFails
      <3>2. /\ boot' \in [Nodes -> [Addrs -> Retries]]
            /\ boot'[p][a].at = s /\ boot'[p][a].attempt = boot[p][a].attempt
            /\ \A q \in Procs, b \in Addrs : q # p \/ b # a => boot'[q][b] = boot[q][b]
        BY <1>1, <3>1, BootGoesFacts
      <3> QED
        BY <3>1, <3>2
    <2>4. CASE Wait(p, a) /\ BootGoes(p, a, "done")
      BY <1>1, <2>4, BootGoesFacts
    <2>5. CASE Wait(p, a) /\ ~BootGoes(p, a, "done")
      <3> DEFINE r == [at |-> "check", attempt |-> boot[p][a].attempt + 1]
      <3>1. boot[p][a].attempt < MaxRetries
        BY <1>1, <2>5 DEF Wait, DiscoveryInv, RetryInv
      <3>2. r \in Retries /\ r.at = "check"
        BY <1>3, <3>1, DiscoveryAssumption DEF Retries
      <3>3. boot' = [boot EXCEPT ![p] = [boot[p] EXCEPT ![a] = r]]
        BY <2>5 DEF Wait
      <3>4. boot \in [Procs -> [Addrs -> Retries]]
        BY StartupAssumption DEF TypeOK, DiscoveryTypeOK
      <3> HIDE DEF r
      <3> QED
        BY <1>1, <3>2, <3>3, <3>4, StartupAssumption
    <2> QED
      BY <2>1, <2>2, <2>3, <2>4, <2>5 DEF Bootstrap
  <1>5. /\ lost' = {}
        /\ link' \in [Nodes -> SUBSET Dialable] /\ found' \in [Nodes -> SUBSET Dialable]
    <2>1. CASE AttemptSucceeds(p, a)
      BY <1>3, <2>1, DiscoveredFacts DEF AttemptSucceeds
    <2>2. CASE ~AttemptSucceeds(p, a)
      BY <2>2 DEF Bootstrap, Attempt, AttemptFails, Wait, TypeOK, DiscoveryTypeOK, DiscoveryInv, NothingLost
    <2> QED
      BY <2>1, <2>2
  <1>6. DiscoveryTypeOK'
    BY <1>2, <1>4, <1>5 DEF TypeOK, DiscoveryTypeOK
  <1>7. RetryInv'
    BY <1>4 DEF DiscoveryInv, RetryInv
  <1>8. \A q \in Procs, b \in Addrs : boot'[q][b].at = "none" <=> boot[q][b].at = "none"
    BY <1>3, <1>4
  <1>9. DiscoveryInv'
    BY <1>2, <1>5, <1>7, <1>8, PeersFacts, RunKeeps
  <1> QED
    BY <1>6, <1>9

\* FileServer.Start and network.NewManager subscribe, in this order.
LEMMA ListenPreserves ==
  ASSUME TypeOK, ConfigInv, DiscoveryInv, NEW p \in Procs, Subscribe(p) \/ NewManager(p)
  PROVE  DiscoveryTypeOK' /\ DiscoveryInv'
  <1>1. PICK s \in {"subscribed", "discovery"}, new \in SUBSET EventTypes, a \in {{}, {p}} :
           /\ pc' = [pc EXCEPT ![p] = s]
           /\ subs' = [subs EXCEPT ![p] = @ \cup new]
           /\ attached' = attached \cup a
           /\ s = "subscribed" => pc[p] = "node" /\ a = {} /\ todo' = todo
                                  /\ new = {"PeerConnected", "PeerDisconnected"}
           /\ s = "discovery" => pc[p] = "subscribed" /\ a = {p} /\ new = {"PeerDiscovered"}
                                 /\ todo' = [todo EXCEPT ![p] = cfg[p].methods]
           /\ UNCHANGED <<started, boot, joining, recent, cancelled, link, found, lost, cfg>>
    <2>1. CASE Subscribe(p)
      <3>1. /\ pc' = [pc EXCEPT ![p] = "subscribed"] /\ pc[p] = "node"
            /\ subs' = [subs EXCEPT ![p] = @ \cup {"PeerConnected", "PeerDisconnected"}]
            /\ attached' = attached \cup {} /\ todo' = todo
            /\ {"PeerConnected", "PeerDisconnected"} \in SUBSET EventTypes
            /\ UNCHANGED <<started, boot, joining, recent, cancelled, link, found, lost, cfg>>
        BY <2>1 DEF Subscribe, Goes, EventTypes
      <3> QED
        BY <3>1
    <2>2. CASE NewManager(p)
      <3>1. /\ pc' = [pc EXCEPT ![p] = "discovery"] /\ pc[p] = "subscribed"
            /\ subs' = [subs EXCEPT ![p] = @ \cup {"PeerDiscovered"}]
            /\ attached' = attached \cup {p} /\ todo' = [todo EXCEPT ![p] = cfg[p].methods]
            /\ {"PeerDiscovered"} \in SUBSET EventTypes
            /\ UNCHANGED <<started, boot, joining, recent, cancelled, link, found, lost, cfg>>
        BY <2>2 DEF NewManager, Goes, EventTypes
      <3> QED
        BY <3>1
    <2> QED
      BY <2>1, <2>2
  <1>2. \A q \in Procs : /\ pc'[q] = IF q = p THEN s ELSE pc[q]
                         /\ subs'[q] = IF q = p THEN subs[p] \cup new ELSE subs[q]
    BY <1>1, StartupAssumption DEF TypeOK, DiscoveryTypeOK
  <1>3. \A q \in Procs : todo'[q] = IF q = p /\ s = "discovery" THEN cfg[p].methods ELSE todo[q]
    BY <1>1, StartupAssumption DEF TypeOK, DiscoveryTypeOK
  <1>4. pc[p] \in {"node", "subscribed"} /\ cfg[p] = Loaded(p)
    BY <1>1 DEF ConfigInv
  <1>5. cfg[p].methods \in Seq(Services)
    BY <1>4, LoadedFacts DEF TypeOK
  <1>6. DiscoveryTypeOK'
    <2>1. todo' \in [Nodes -> Seq(Services)]
      BY <1>1, <1>5 DEF TypeOK, DiscoveryTypeOK
    <2>2. subs' \in [Nodes -> SUBSET EventTypes]
      BY <1>1 DEF TypeOK, DiscoveryTypeOK
    <2>3. attached' \subseteq Nodes
      BY <1>1, StartupAssumption DEF TypeOK, DiscoveryTypeOK
    <2> QED
      BY <1>1, <2>1, <2>2, <2>3 DEF TypeOK, DiscoveryTypeOK
  <1>7. \A q \in Procs : subs[q] \subseteq EventTypes
    BY StartupAssumption DEF TypeOK, DiscoveryTypeOK
  <1>8. ListenInv'
    <2> SUFFICES ASSUME NEW q \in Procs
                 PROVE  (/\ pc[q] = "subscribed" => {"PeerConnected", "PeerDisconnected"} \subseteq subs[q]
                         /\ pc[q] = "discovery" => q \in attached
                         /\ q \in attached => subs[q] = EventTypes
                         /\ \/ started[q] # {} \/ joining[q] # {}
                            \/ \E b \in Addrs : boot[q][b].at # "none"
                            => q \in attached)'
      BY DEF ListenInv
    <2>1. CASE q # p
      BY <1>1, <1>2, <2>1 DEF DiscoveryInv, ListenInv
    <2>2. CASE q = p /\ s = "subscribed"
      BY <1>1, <1>2, <1>7, <2>2 DEF DiscoveryInv, ListenInv, EventTypes
    <2>3. CASE q = p /\ s = "discovery"
      BY <1>1, <1>2, <1>7, <2>3 DEF DiscoveryInv, ListenInv, EventTypes
    <2> QED
      BY <2>1, <2>2, <2>3
  <1>9. MethodsInv'
    BY <1>1, <1>2, <1>3 DEF DiscoveryInv, MethodsInv
  <1>10. RetryInv' /\ NothingLost'
    BY <1>1 DEF DiscoveryInv, RetryInv, NothingLost
  <1> QED
    BY <1>6, <1>8, <1>9, <1>10 DEF DiscoveryInv

\* The first of the methods, and the rest of them.
LEMMA HeadTailFacts ==
  ASSUME NEW S, NEW t \in Seq(S), t # <<>>
  PROVE  /\ Head(t) \in S /\ Tail(t) \in Seq(S)
         /\ Range(t) \subseteq {Head(t)} \cup Range(Tail(t))
  <1>1. /\ Head(t) \in S /\ Tail(t) \in Seq(S) /\ Head(t) = t[1]
        /\ Len(t) \in Nat /\ DOMAIN t = 1..Len(t)
        /\ DOMAIN Tail(t) = 1..(Len(t) - 1)
        /\ \A i \in 1..(Len(t) - 1) : Tail(t)[i] = t[i + 1]
    OBVIOUS
  <1>2. ASSUME NEW i \in 1..Len(t), i # 1 PROVE t[i] \in Range(Tail(t))
    <2>1. i - 1 \in DOMAIN Tail(t) /\ Tail(t)[i - 1] = t[i]
      BY <1>1, <1>2
    <2> QED
      BY <2>1 DEF Range
  <1> QED
    BY <1>1, <1>2 DEF Range

\* discovery.Manager.Start.
LEMMA StartPreserves ==
  ASSUME TypeOK, ConfigInv, DiscoveryInv, UNCHANGED <<pc, cfg>>, NEW p \in Procs, pc[p] = "discovery",
         StartMethod(p, Range(cfg[p].peers)) \/ Joined(p) \/ NextMethod(p)
  PROVE  DiscoveryTypeOK' /\ DiscoveryInv'
  <1>1. /\ p \in attached /\ p \in Nodes /\ todo[p] \in Seq(Services) /\ started[p] \subseteq Services
        /\ started \in [Procs -> SUBSET Services] /\ todo \in [Procs -> Seq(Services)]
        /\ boot \in [Procs -> [Addrs -> Retries]] /\ joining \in [Procs -> SUBSET DHTPeers]
    BY StartupAssumption DEF TypeOK, DiscoveryTypeOK, DiscoveryInv, ListenInv
  <1>2. UNCHANGED <<recent, cancelled, link, found, attached, subs, lost>>
    BY DEF StartMethod, Joined, NextMethod
  <1>3. todo[p] # <<>> => /\ Head(todo[p]) \in Services /\ Tail(todo[p]) \in Seq(Services)
                          /\ Range(todo[p]) \subseteq {Head(todo[p])} \cup Range(Tail(todo[p]))
    BY <1>1, HeadTailFacts
  <1>4. CASE StartMethod(p, Range(cfg[p].peers))
    <2> DEFINE m == Head(todo[p])
               peers == Range(cfg[p].peers)
               new == [a \in Addrs |-> [at |-> IF a \notin peers THEN "none"
                                               ELSE IF a \in Dialable THEN "check" ELSE "done",
                                        attempt |-> 0]]
    <2>1. /\ m \in Services /\ m \notin started[p] /\ todo' = todo
          /\ started' = [started EXCEPT ![p] = @ \cup {m}]
          /\ m # "bootstrap" => boot' = boot
          /\ m = "bootstrap" => boot' = [boot EXCEPT ![p] = new]
          /\ joining' = joining \/ joining' = [joining EXCEPT ![p] = DHTPeers]
      BY <1>3, <1>4 DEF StartMethod
    <2>2. /\ new \in [Addrs -> Retries]
          /\ \A a \in Addrs : new[a].at # "wait" /\ (a \in peers => new[a].at # "none")
      BY DiscoveryAssumption DEF Retries
    <2> HIDE DEF m, new
    <2>3. started' \in [Procs -> SUBSET Services]
      BY <1>1, <2>1
    <2>4. boot' \in [Procs -> [Addrs -> Retries]]
      BY <1>1, <2>1, <2>2
    <2>5. joining' \in [Procs -> SUBSET DHTPeers]
      BY <1>1, <2>1
    <2>6. DiscoveryTypeOK'
      BY <1>2, <2>1, <2>3, <2>4, <2>5, StartupAssumption DEF TypeOK, DiscoveryTypeOK
    <2>7. \A q \in Procs : /\ started'[q] = IF q = p THEN started[p] \cup {m} ELSE started[q]
                           /\ boot'[q] = IF q = p /\ m = "bootstrap" THEN new ELSE boot[q]
      BY <1>1, <2>1
    <2>8. \A q \in Procs : q # p => joining'[q] = joining[q]
      BY <1>1, <2>1
    <2>9. ListenInv'
      BY <1>1, <1>2, <2>7, <2>8 DEF DiscoveryInv, ListenInv
    <2>10. MethodsInv'
      <3> SUFFICES ASSUME NEW q \in Procs
                   PROVE  (/\ pc[q] \in {"idle", "key"} => started[q] = {}
                           /\ pc[q] = "discovery" =>
                                Range(cfg[q].methods) \subseteq Range(todo[q]) \cup started[q]
                           /\ pc[q] = "running" => Range(cfg[q].methods) \subseteq started[q]
                           /\ "bootstrap" \in started[q] =>
                                \A a \in Range(cfg[q].peers) : boot[q][a].at # "none")'
        BY DEF MethodsInv
      <3>1. CASE q # p
        BY <2>1, <2>7, <3>1 DEF DiscoveryInv, MethodsInv
      <3>2. CASE q = p
        <4>1. peers \subseteq Addrs
          BY PeersFacts
        <4>2. "bootstrap" \in started'[p] => \A a \in peers : boot'[p][a].at # "none"
          BY <2>2, <2>7, <4>1 DEF DiscoveryInv, MethodsInv
        <4> QED
          BY <2>1, <2>7, <3>2, <4>2 DEF DiscoveryInv, MethodsInv
      <3> QED
        BY <3>1, <3>2
    <2>11. RetryInv'
      BY <2>2, <2>7 DEF DiscoveryInv, RetryInv
    <2> QED
      BY <1>2, <2>6, <2>9, <2>10, <2>11 DEF DiscoveryInv, NothingLost
  <1>5. CASE Joined(p)
    <2>1. UNCHANGED <<todo, boot, joining>> /\ started' = [started EXCEPT ![p] = @ \cup {"loop"}]
      BY <1>5 DEF Joined
    <2>2. started' \in [Procs -> SUBSET Services]
      BY <1>1, <2>1 DEF Services
    <2>3. \A q \in Procs : started'[q] = IF q = p THEN started[p] \cup {"loop"} ELSE started[q]
      BY <1>1, <2>1
    <2>4. DiscoveryTypeOK'
      BY <1>2, <2>1, <2>2, StartupAssumption DEF TypeOK, DiscoveryTypeOK
    <2>5. ListenInv'
      BY <1>1, <1>2, <2>1, <2>3 DEF DiscoveryInv, ListenInv
    <2>6. MethodsInv'
      BY <2>1, <2>3 DEF DiscoveryInv, MethodsInv
    <2> QED
      BY <1>2, <2>1, <2>4, <2>5, <2>6 DEF DiscoveryInv, RetryInv, NothingLost
  <1>6. CASE NextMethod(p)
    <2>1. /\ todo[p] # <<>> /\ Head(todo[p]) \in started[p]
          /\ todo' = [todo EXCEPT ![p] = Tail(todo[p])] /\ UNCHANGED <<started, boot, joining>>
      BY <1>6 DEF NextMethod
    <2>2. todo' \in [Procs -> Seq(Services)] /\ todo'[p] = Tail(todo[p])
          /\ \A q \in Procs : q # p => todo'[q] = todo[q]
      BY <1>1, <1>3, <2>1
    <2>3. DiscoveryTypeOK'
      BY <1>2, <2>1, <2>2, StartupAssumption DEF TypeOK, DiscoveryTypeOK
    <2>4. ListenInv'
      BY <1>2, <2>1 DEF DiscoveryInv, ListenInv
    <2>5. Range(todo[p]) \subseteq Range(todo'[p]) \cup started[p]
      BY <1>3, <2>1, <2>2
    <2>6. MethodsInv'
      BY <2>1, <2>2, <2>5 DEF DiscoveryInv, MethodsInv
    <2> QED
      BY <1>2, <2>1, <2>3, <2>4, <2>6 DEF DiscoveryInv, RetryInv, NothingLost
  <1> QED
    BY <1>4, <1>5, <1>6

\* Manager.Stop cancels and waits for nobody.
LEMMA StopPreserves ==
  ASSUME TypeOK, ConfigInv, DiscoveryInv, NEW p \in Procs, Stop(p)
  PROVE  DiscoveryTypeOK' /\ DiscoveryInv'
  <1>1. /\ UNCHANGED <<todo, started, boot, joining, recent, link, found, attached, subs, lost, cfg>>
        /\ cancelled' = cancelled \cup {p} /\ pc' = [pc EXCEPT ![p] = "stopping"]
    BY DEF Stop, StopDiscovery, Goes
  <1>2. DiscoveryTypeOK'
    BY <1>1, StartupAssumption DEF TypeOK, DiscoveryTypeOK
  <1>3. \A q \in Procs : pc'[q] \in {pc[q], "stopping"} /\ Range(cfg[q].peers) \subseteq Addrs
    BY <1>1, PeersFacts DEF TypeOK
  <1>4. RetryInv' /\ lost' = {}
    BY <1>1 DEF DiscoveryInv, RetryInv, NothingLost
  <1>5. \A q \in Procs, b \in Addrs : boot'[q][b].at = "none" <=> boot[q][b].at = "none"
    BY <1>1
  <1>6. DiscoveryInv'
    BY <1>1, <1>3, <1>4, <1>5, RunKeeps
  <1> QED
    BY <1>2, <1>6

\* The process is gone, and its goroutines with it.
LEMMA ExitDiscovery ==
  ASSUME TypeOK, DiscoveryInv, NEW p \in Procs, DropDiscovery(p),
         pc' = [pc EXCEPT ![p] = "idle"], \A q \in Procs : q # p => cfg'[q] = cfg[q]
  PROVE  DiscoveryTypeOK' /\ DiscoveryInv'
  <1>1. NoRetries \in [Addrs -> Retries] /\ \A a \in Addrs : NoRetries[a].at = "none"
    BY DiscoveryAssumption DEF NoRetries, Retries
  <1>2. /\ todo' = [todo EXCEPT ![p] = <<>>] /\ started' = [started EXCEPT ![p] = {}]
        /\ boot' = [boot EXCEPT ![p] = NoRetries] /\ joining' = [joining EXCEPT ![p] = {}]
        /\ recent' = [recent EXCEPT ![p] = {}] /\ cancelled' = cancelled \ {p}
        /\ link' = [link EXCEPT ![p] = {}] /\ found' = [found EXCEPT ![p] = {}]
        /\ attached' = attached \ {p} /\ subs' = [subs EXCEPT ![p] = {}] /\ lost' = lost
    BY DEF DropDiscovery
  <1>3. /\ todo \in [Nodes -> Seq(Services)] /\ started \in [Nodes -> SUBSET Services]
        /\ boot \in [Nodes -> [Addrs -> Retries]] /\ joining \in [Nodes -> SUBSET DHTPeers]
        /\ subs \in [Nodes -> SUBSET EventTypes]
        /\ recent \in [Nodes -> SUBSET Dialable]
        /\ link \in [Nodes -> SUBSET Dialable] /\ found \in [Nodes -> SUBSET Dialable]
        /\ cancelled \subseteq Nodes /\ attached \subseteq Nodes
    BY DEF TypeOK, DiscoveryTypeOK
  <1>4. todo' \in [Nodes -> Seq(Services)]
    <2>1. todo' = [todo EXCEPT ![p] = <<>>] /\ todo \in [Nodes -> Seq(Services)]
      BY <1>2, <1>3
    <2>2. <<>> \in Seq(Services)
      OBVIOUS
    <2> QED
      BY <2>1, <2>2
  <1>5. boot' \in [Nodes -> [Addrs -> Retries]]
    BY <1>1, <1>2, <1>3
  <1>6. started' \in [Nodes -> SUBSET Services] /\ joining' \in [Nodes -> SUBSET DHTPeers]
    BY <1>2, <1>3
  <1>7. recent' \in [Nodes -> SUBSET Dialable] /\ link' \in [Nodes -> SUBSET Dialable]
    BY <1>2, <1>3
  <1>8. found' \in [Nodes -> SUBSET Dialable] /\ subs' \in [Nodes -> SUBSET EventTypes]
    BY <1>2, <1>3
  <1>9. DiscoveryTypeOK'
    BY <1>2, <1>3, <1>4, <1>5, <1>6, <1>7, <1>8 DEF TypeOK, DiscoveryTypeOK
  <1>10. \A q \in Procs : /\ pc'[q] = IF q = p THEN "idle" ELSE pc[q]
                          /\ started'[q] = IF q = p THEN {} ELSE started[q]
                          /\ todo'[q] = IF q = p THEN <<>> ELSE todo[q]
                          /\ boot'[q] = IF q = p THEN NoRetries ELSE boot[q]
                          /\ joining'[q] = IF q = p THEN {} ELSE joining[q]
                          /\ subs'[q] = IF q = p THEN {} ELSE subs[q]
    BY <1>2, <1>3, StartupAssumption DEF TypeOK
  <1>11. ListenInv'
    BY <1>1, <1>2, <1>10 DEF DiscoveryInv, ListenInv
  <1>12. MethodsInv'
    BY <1>10 DEF DiscoveryInv, MethodsInv
  <1>13. RetryInv'
    BY <1>1, <1>10 DEF DiscoveryInv, RetryInv
  <1> QED
    BY <1>2, <1>9, <1>11, <1>12, <1>13 DEF DiscoveryInv, NothingLost

-----------------------------------------------------------------------------
(* The steps *)

\* A step changes the phase and the configuration of one process, and only
\* config.Load and the end of the process change the configuration.
LEMMA PhaseFacts ==
  ASSUME TypeOK, ConfigInv, NEW p \in Procs, NEW s \in Phases, Goes(p, s), UNCHANGED file,
         \/ cfg' = cfg /\ (pc[p] \notin {"idle", "failed"} \/ s \in {"idle", "failed"})
         \/ cfg' = [cfg EXCEPT ![p] = Loaded(p)]
         \/ cfg' = [cfg EXCEPT ![p] = NoConfig] /\ s = "idle"
  PROVE  /\ ConfigInv' /\ pc' \in [Procs -> Phases]
         /\ \A q \in Procs : pc'[q] = IF q = p THEN s ELSE pc[q]
         /\ \A q \in Procs : q # p => cfg'[q] = cfg[q]
         /\ \A q \in Procs : (KeyPath(q) \in Paths /\ IdentityPath(q) \in Paths)'
  <1>1. /\ pc' \in [Procs -> Phases] /\ \A q \in Procs : pc'[q] = IF q = p THEN s ELSE pc[q]
    BY DEF Goes, TypeOK
  <1>2. cfg' = [q \in Procs |-> cfg'[q]] /\ \A q \in Procs : q # p => cfg'[q] = cfg[q]
    BY DEF ConfigInv
  <1>3. \A q \in Procs : Loaded(q)' = Loaded(q)
    BY DEF Loaded
  <1>4. /\ cfg'[p] \in {NoConfig, Loaded(p)}
        /\ s \notin {"idle", "failed"} => cfg'[p] = Loaded(p)
    BY DEF ConfigInv
  <1>5. ConfigInv'
    BY <1>1, <1>2, <1>3, <1>4 DEF ConfigInv
  <1>6. \A q \in Procs : OnPaths(cfg'[q])
    BY <1>2, <1>4, LoadedFacts DEF ConfigInv, TypeOK
  <1> QED
    BY <1>1, <1>2, <1>5, <1>6 DEF OnPaths, KeyPath, IdentityPath

\* The types of what LoadFile and the end of a process change.
LEMMA LoadTypes ==
  ASSUME TypeOK, ConfigInv, NEW p \in Procs, NEW f \in Paths,
         \/ ReadFile(p, f, Readers(p)) \/ RefuseFile(p, f, Readers(p)) \/ FileIsAbsent(p, f, Readers(p))
         \/ CreateFile(p, f) \/ WriteFile(p, f) \/ Misread(p, f) \/ ReadFails(p, f)
         \/ CreateFails(p, f) \/ WriteFails(p, f) \/ DropKeys(p, f)
  PROVE  KeyTypeOK' /\ made' >= made
  <1>1. /\ made \in Nat /\ content \in [Paths -> {Absent, Short} \cup 1..made]
        /\ load \in [Procs -> {"none", "read", "create", "write", "loaded", "refused"}]
        /\ own \in [Procs -> 0..made] /\ held \in [Procs -> [Paths -> 0..made]]
        /\ incidents \in [Paths -> SUBSET Incidents]
    BY DEF TypeOK, KeyTypeOK
  <1>2. load' \in [Procs -> {"none", "read", "create", "write", "loaded", "refused"}]
    BY <1>1 DEF ReadFile, RefuseFile, FileIsAbsent, CreateFile, WriteFile, Misread, ReadFails,
       CreateFails, WriteFails, DropKeys, LoadGoes
  <1>3. incidents' \in [Paths -> SUBSET Incidents]
    <2>1. incidents' = incidents \/ \E w \in SUBSET Incidents : Happens(f, w)
      <3>1. Overlap(p, Readers(p)) \in SUBSET Incidents
        BY DEF Overlap, Incidents
      <3>2. CASE ReadFile(p, f, Readers(p)) \/ RefuseFile(p, f, Readers(p)) \/ FileIsAbsent(p, f, Readers(p))
        BY <3>1, <3>2 DEF ReadFile, RefuseFile, FileIsAbsent
      <3>3. CASE DropKeys(p, f)
        BY <3>3 DEF DropKeys, Incidents
      <3> QED
        BY <3>2, <3>3 DEF CreateFile, WriteFile, Misread, ReadFails, CreateFails, WriteFails, Incidents
    <2> QED
      BY <1>1, <2>1 DEF Happens
  <1>4. CASE CreateFile(p, f)
    <2>1. made' = made + 1 /\ made' \in Nat
      BY <1>1, <1>4 DEF CreateFile
    <2>2. content' \in [Paths -> {Absent, Short} \cup 1..made']
      BY <1>1, <1>4, <2>1 DEF CreateFile
    <2>3. own' \in [Procs -> 0..made']
      BY <1>1, <1>4, <2>1 DEF CreateFile
    <2>4. held' \in [Procs -> [Paths -> 0..made']]
      <3>1. held' = held /\ 0..made \subseteq 0..made'
        BY <1>1, <1>4, <2>1 DEF CreateFile
      <3>2. \A q \in Procs : held[q] \in [Paths -> 0..made']
        BY <1>1, <3>1
      <3> QED
        BY <1>1, <3>1, <3>2
    <2> QED
      BY <1>1, <1>2, <1>3, <2>1, <2>2, <2>3, <2>4 DEF KeyTypeOK
  <1>5. CASE ~CreateFile(p, f)
    <2>1. made' = made
      BY <1>5 DEF ReadFile, RefuseFile, FileIsAbsent, WriteFile, Misread, ReadFails,
         CreateFails, WriteFails, DropKeys
    <2>2. own' \in [Procs -> 0..made]
      BY <1>1, <1>5 DEF ReadFile, RefuseFile, FileIsAbsent, WriteFile, Misread, ReadFails,
         CreateFails, WriteFails, DropKeys, None
    <2>3. content' \in [Paths -> {Absent, Short} \cup 1..made]
      <3>1. own[p] \in {Absent, Short} \cup 1..made
        BY <1>1 DEF Short
      <3>2. content' = content \/ content' = [content EXCEPT ![f] = own[p]]
        BY <1>5 DEF ReadFile, RefuseFile, FileIsAbsent, WriteFile, Misread, ReadFails,
           CreateFails, WriteFails, DropKeys
      <3> QED
        BY <1>1, <3>1, <3>2
    <2>4. held' \in [Procs -> [Paths -> 0..made]]
      <3>1. CASE held' = held
        BY <1>1, <3>1
      <3>2. CASE ReadFile(p, f, Readers(p)) \/ WriteFile(p, f)
        <4>1. PICK c \in 0..made : held' = [held EXCEPT ![p] = [held[p] EXCEPT ![f] = c]]
          <5>1. CASE ReadFile(p, f, Readers(p))
            <6>1. content[f] \in 0..made
              BY <1>1, <5>1 DEF ReadFile, Absent, Short
            <6>2. held' = [held EXCEPT ![p] = [held[p] EXCEPT ![f] = content[f]]]
              BY <5>1 DEF ReadFile
            <6> QED
              BY <6>1, <6>2
          <5>2. CASE WriteFile(p, f)
            <6>1. held' = [held EXCEPT ![p] = [held[p] EXCEPT ![f] = own[p]]] /\ own[p] \in 0..made
              BY <1>1, <5>2 DEF WriteFile
            <6> QED
              BY <6>1
          <5> QED
            BY <3>2, <5>1, <5>2
        <4> QED
          BY <1>1, <4>1
      <3>3. CASE DropKeys(p, f)
        <4>1. [g \in Paths |-> None] \in [Paths -> 0..made]
          BY <1>1 DEF None
        <4>2. held' = [held EXCEPT ![p] = [g \in Paths |-> None]]
          BY <3>3 DEF DropKeys
        <4> QED
          BY <1>1, <4>1, <4>2
      <3> QED
        BY <1>5, <3>1, <3>2, <3>3 DEF RefuseFile, FileIsAbsent, Misread, ReadFails, CreateFails, WriteFails
    <2> QED
      BY <1>1, <1>2, <1>3, <2>1, <2>2, <2>3, <2>4 DEF KeyTypeOK
  <1> QED
    BY <1>4, <1>5

\* A step of p that leaves the key files alone.
LEMMA QuietStep ==
  ASSUME IndInv, NEW p \in Procs, NEW s \in Phases \ {"idle", "key", "identity"}, Goes(p, s),
         UNCHANGED <<keyVars, cfg, file, starts>>, events' \in 0..MaxEvents,
         s = "failed" \/ pc[p] \notin {"idle", "key", "failed"},
         pc[p] \in {"key", "identity"} => load[p] # "write",
         NEW f \in Paths, used' \in {used, used \cup {<<f, held[p][f]>>}},
         used' # used => held[p][f] > 0,
         DiscoveryTypeOK', DiscoveryInv'
  PROVE  IndInv'
  <1> USE DEF IndInv
  <1>1. /\ ConfigInv' /\ pc' \in [Procs -> Phases]
        /\ \A q \in Procs : (KeyPath(q) \in Paths /\ IdentityPath(q) \in Paths)'
    BY PhaseFacts
  <1>2. KeyInv'
    BY KeyKept DEF Goes
  <1>3. KeyTypeOK' /\ made' = made
    BY DEF keyVars, TypeOK, KeyTypeOK
  <1>4. used' \subseteq Paths \X (1..made')
    <2>1. held[p][f] \in 0..made /\ made \in Nat
      BY DEF TypeOK, KeyTypeOK
    <2>2. used' # used => held[p][f] \in 1..made
      BY <2>1
    <2> QED
      BY <1>3, <2>2 DEF TypeOK
  <1>5. TypeOK'
    BY <1>1, <1>3, <1>4 DEF TypeOK
  <1> QED
    BY <1>1, <1>2, <1>5

\* events stays within its bound.
LEMMA EventFacts ==
  ASSUME TypeOK, Event \/ UNCHANGED events PROVE events' \in 0..MaxEvents
  BY StartupAssumption DEF TypeOK, Event

\* LoadFails, NewNode, DiscoveryFails and Started.
LEMMA PhasePreserves ==
  ASSUME IndInv, NEW p \in Procs,
         LoadFails(p) \/ NewNode(p) \/ DiscoveryFails(p) \/ Started(p)
  PROVE  IndInv'
  <1> USE DEF IndInv
  <1>1. UNCHANGED <<keyVars, discoveryVars, cfg, file, starts>> /\ (Event \/ UNCHANGED events)
    BY DEF LoadFails, NewNode, DiscoveryFails, Started
  <1>2. events' \in 0..MaxEvents
    BY <1>1, EventFacts
  <1>3. KeyPath(p) \in Paths /\ IdentityPath(p) \in Paths
    BY PathFacts DEF TypeOK
  <1>4. PICK s \in Phases \ {"idle", "key", "identity", "subscribed"}, f \in Paths :
           /\ Goes(p, s)
           /\ s = "failed" \/ pc[p] \notin {"idle", "key", "failed"}
           /\ pc[p] \in {"key", "identity"} => load[p] # "write"
           /\ used' \in {used, used \cup {<<f, held[p][f]>>}}
           /\ used' # used => held[p][f] > 0
           /\ s \in {"discovery", "running"} => pc[p] = s \/ (pc[p] = "discovery" /\ todo[p] = <<>>)
    <2>1. CASE LoadFails(p)
      BY <1>3, <2>1 DEF LoadFails, Phases
    <2>2. CASE NewNode(p)
      <3>1. Loading(p) = IdentityPath(p)
        BY <2>2 DEF NewNode, Loading
      <3>2. held[p][IdentityPath(p)] > 0
        BY <2>2, <3>1 DEF NewNode, KeyInv, TakenInv, Taken
      <3>3. Goes(p, "failed") \/ Goes(p, "node")
        BY <2>2 DEF NewNode
      <3>4. /\ used' \in {used, used \cup {<<IdentityPath(p), held[p][IdentityPath(p)]>>}}
            /\ pc[p] = "identity" /\ load[p] = "loaded"
        BY <2>2 DEF NewNode
      <3>5. CASE Goes(p, "failed")
        BY <1>3, <3>2, <3>4, <3>5 DEF Phases
      <3>6. CASE Goes(p, "node")
        BY <1>3, <3>2, <3>4, <3>6 DEF Phases
      <3> QED
        BY <3>3, <3>5, <3>6
    <2>3. CASE DiscoveryFails(p)
      BY <1>3, <2>3 DEF DiscoveryFails, Phases
    <2>4. CASE Started(p)
      BY <1>3, <2>4 DEF Started, Phases
    <2> QED
      BY <2>1, <2>2, <2>3, <2>4
  <1>5. s \in Phases \ {"idle", "key", "identity"}
    BY <1>4
  <1>6. DiscoveryTypeOK'
    BY <1>1 DEF discoveryVars, TypeOK, DiscoveryTypeOK
  <1>7. DiscoveryInv'
    BY <1>1, <1>4, DiscoveryKept DEF Goes
  <1> QED
    BY <1>1, <1>2, <1>4, <1>5, <1>6, <1>7, QuietStep

\* A file is encrypted with the key that the process took.
LEMMA StorePreserves ==
  ASSUME IndInv, NEW p \in Procs, Store(p) PROVE IndInv'
  <1> USE DEF IndInv
  <1> DEFINE f == KeyPath(p)
             s == pc[p]
  <1>1. /\ UNCHANGED <<keyVars, discoveryVars, cfg, file, starts, pc, events>>
        /\ s \in {"subscribed", "discovery", "running", "stopping"}
        /\ used' = used \cup {<<f, held[p][f]>>}
    BY DEF Store
  <1>2. held[p][f] > 0
    BY <1>1 DEF KeyInv, TakenInv, Taken
  <1>3. f \in Paths
    BY PathFacts DEF TypeOK
  <1>4. Goes(p, s)
    BY <1>1 DEF Goes, TypeOK
  <1>5. DiscoveryTypeOK' /\ DiscoveryInv'
    BY <1>1 DEF discoveryVars, TypeOK, DiscoveryTypeOK, DiscoveryInv, ListenInv, MethodsInv, RetryInv, NothingLost
  <1>6. events' \in 0..MaxEvents
    BY <1>1 DEF TypeOK
  <1>7. s \in Phases \ {"idle", "key", "identity"} /\ s \notin {"idle", "key", "identity", "failed"}
    BY <1>1 DEF Phases
  <1> HIDE DEF f
  <1> QED
    BY <1>1, <1>2, <1>3, <1>4, <1>5, <1>6, <1>7, QuietStep

\* Everything that discovery does.
LEMMA DiscoveryPreserves ==
  ASSUME IndInv, NEW p \in Procs,
         \/ Subscribe(p) \/ NewManager(p) \/ StartDiscovery(p) \/ Network(p) \/ Goroutines(p)
         \/ Stop(p) \/ \E a \in Dialable : Retry(p, a)
  PROVE  IndInv'
  <1> USE DEF IndInv
  <1>1. /\ UNCHANGED <<keyVars, cfg, file, starts, used>> /\ (Event \/ UNCHANGED events)
        /\ pc[p] \in {"node", "subscribed", "discovery", "running", "stopping"}
    BY DEF Subscribe, NewManager, StartDiscovery, Network, Goroutines, Stop, Retry, Up
  <1>2. events' \in 0..MaxEvents
    BY <1>1, EventFacts
  <1>3. KeyPath(p) \in Paths
    BY PathFacts DEF TypeOK
  <1>4. DiscoveryTypeOK' /\ DiscoveryInv'
    <2>1. CASE Subscribe(p) \/ NewManager(p)
      BY <2>1, ListenPreserves
    <2>2. CASE StartDiscovery(p)
      BY <2>2, StartPreserves DEF StartDiscovery
    <2>3. CASE Network(p) \/ Goroutines(p)
      <3>1. PICK a \in Dialable :
               \/ Inbound(p, a) \/ LinkDown(p, a) \/ FindPeer(p, a) \/ HandlePeerFound(p, a)
               \/ Connect(p, a) \/ Join(p, a) \/ Forget(p, a)
        BY <2>3 DEF Network, Goroutines
      <3>2. UNCHANGED <<pc, cfg>>
        BY <2>3 DEF Network, Goroutines
      <3> QED
        BY <3>1, <3>2, NetworkPreserves
    <2>4. CASE Stop(p)
      BY <2>4, StopPreserves
    <2>5. CASE \E a \in Dialable : Retry(p, a)
      BY <2>5, RetryPreserves DEF Retry
    <2> QED
      BY <2>1, <2>2, <2>3, <2>4, <2>5
  <1>5. PICK s \in {"node", "subscribed", "discovery", "running", "stopping"} : Goes(p, s)
    <2>1. CASE pc' = pc
      BY <1>1, <2>1 DEF Goes, TypeOK
    <2>2. CASE Subscribe(p) \/ NewManager(p) \/ Stop(p)
      BY <2>2 DEF Subscribe, NewManager, Stop
    <2> QED
      BY <2>1, <2>2 DEF StartDiscovery, Network, Goroutines, Retry
  <1>6. s \in Phases \ {"idle", "key", "identity"}
    BY <1>5 DEF Phases
  <1> QED
    BY <1>1, <1>2, <1>3, <1>4, <1>5, <1>6, QuietStep

\* config.Load, and NewStore that returns.
LEMMA BeginPreserves ==
  ASSUME IndInv, NEW p \in Procs, Begin(p) \/ HaveKey(p) PROVE IndInv'
  <1> USE DEF IndInv
  <1>1. /\ UNCHANGED <<content, made, own, held, incidents, discoveryVars, file, events, used>>
        /\ starts' \in 0..MaxStarts
    BY StartupAssumption DEF Begin, HaveKey, TypeOK
  <1>2. DiscoveryTypeOK'
    BY <1>1 DEF discoveryVars, TypeOK, DiscoveryTypeOK
  <1>3. CASE /\ Goes(p, "key") /\ LoadGoes(p, "read") /\ pc[p] = "idle"
             /\ cfg' = [cfg EXCEPT ![p] = Loaded(p)]
    <2>1. "key" \in Phases \ {"subscribed"}
      BY DEF Phases
    <2>2. /\ ConfigInv' /\ pc' \in [Procs -> Phases]
          /\ \A q \in Procs : q # p => cfg'[q] = cfg[q]
          /\ \A q \in Procs : (KeyPath(q) \in Paths /\ IdentityPath(q) \in Paths)'
      BY <1>1, <1>3, <2>1, PhaseFacts
    <2>3. KeyInv'
      BY <1>1, <1>3, <2>2, LoadBegins DEF Goes, LoadGoes
    <2>4. DiscoveryInv'
      BY <1>1, <1>3, <2>1, <2>2, DiscoveryKept DEF Goes
    <2>5. load' \in [Procs -> {"none", "read", "create", "write", "loaded", "refused"}]
      BY <1>3 DEF LoadGoes, TypeOK, KeyTypeOK
    <2>6. TypeOK'
      BY <1>1, <1>2, <2>2, <2>5 DEF TypeOK, KeyTypeOK
    <2> QED
      BY <2>2, <2>3, <2>4, <2>6
  <1>4. CASE HaveKey(p)
    <2>1. /\ Goes(p, "identity") /\ LoadGoes(p, "read") /\ UNCHANGED cfg
          /\ pc[p] = "key" /\ load[p] = "loaded"
      BY <1>4 DEF HaveKey
    <2>2. "identity" \in Phases \ {"subscribed"}
      BY DEF Phases
    <2>3. /\ ConfigInv' /\ pc' \in [Procs -> Phases]
          /\ \A q \in Procs : (KeyPath(q) \in Paths /\ IdentityPath(q) \in Paths)'
      BY <1>1, <2>1, <2>2, PhaseFacts
    <2>4. held[p][KeyPath(p)] > 0 /\ KeyPath(p)' = KeyPath(p)
      BY <2>1 DEF KeyInv, TakenInv, Taken, Loading, KeyPath
    <2>5. KeyInv'
      BY <1>1, <2>1, <2>3, <2>4, LoadBegins DEF Goes, LoadGoes
    <2>6. DiscoveryInv'
      BY <1>1, <2>1, <2>2, DiscoveryKept DEF Goes
    <2>7. load' \in [Procs -> {"none", "read", "create", "write", "loaded", "refused"}]
      BY <2>1 DEF LoadGoes, TypeOK, KeyTypeOK
    <2>8. TypeOK'
      BY <1>1, <1>2, <2>3, <2>7 DEF TypeOK, KeyTypeOK
    <2> QED
      BY <2>3, <2>5, <2>6, <2>8
  <1> QED
    BY <1>3, <1>4 DEF Begin, Loaded

\* config.Load that returns an error.
LEMMA BeginFailsPreserves ==
  ASSUME IndInv, NEW p \in Procs, BeginFails(p) PROVE IndInv'
  <1> USE DEF IndInv
  <1>1. /\ UNCHANGED <<keyVars, discoveryVars, file, cfg, used>> /\ (Event \/ UNCHANGED events)
        /\ pc[p] = "idle" /\ Goes(p, "failed")
    BY DEF BeginFails
  <1>2. "failed" \in Phases
    BY DEF Phases
  <1>3. events' \in 0..MaxEvents /\ starts' \in 0..MaxStarts
    <2>1. starts' \in 0..MaxStarts
      BY StartupAssumption DEF BeginFails, TypeOK
    <2> QED
      BY <1>1, <2>1, EventFacts
  <1>4. /\ ConfigInv' /\ pc' \in [Procs -> Phases]
        /\ \A q \in Procs : (KeyPath(q) \in Paths /\ IdentityPath(q) \in Paths)'
    BY <1>1, <1>2, PhaseFacts
  <1>5. KeyInv'
    <2>1. KeyPath(p) \in Paths
      BY PathFacts DEF TypeOK
    <2> QED
      BY <1>1, <1>2, <2>1, KeyKept DEF Goes, keyVars
  <1>6. DiscoveryTypeOK' /\ DiscoveryInv'
    <2>1. DiscoveryTypeOK'
      BY <1>1 DEF discoveryVars, TypeOK, DiscoveryTypeOK
    <2> QED
      BY <1>1, <1>2, <2>1, DiscoveryKept DEF Goes
  <1>7. TypeOK'
    BY <1>1, <1>3, <1>4, <1>6 DEF TypeOK, KeyTypeOK, keyVars
  <1> QED
    BY <1>4, <1>5, <1>6, <1>7

\* loadOrCreateEncryptionKey and LoadOrCreateIdentity.
LEMMA LoadFilePreserves ==
  ASSUME IndInv, NEW p \in Procs, LoadFile(p) PROVE IndInv'
  <1> USE DEF IndInv
  <1> DEFINE f == Loading(p)
  <1>1. /\ UNCHANGED <<discoveryVars, file, pc, cfg, starts, used>> /\ (Event \/ UNCHANGED events)
        /\ \/ ReadFile(p, f, Readers(p)) \/ RefuseFile(p, f, Readers(p)) \/ FileIsAbsent(p, f, Readers(p))
           \/ CreateFile(p, f) \/ WriteFile(p, f) \/ Misread(p, f) \/ ReadFails(p, f)
           \/ CreateFails(p, f) \/ WriteFails(p, f)
    BY DEF LoadFile
  <1>2. f \in Paths /\ At(p, f)
    BY PathFacts DEF TypeOK, At, LoadFile
  <1>3. ConfigInv'
    BY <1>1 DEF ConfigInv, Loaded
  <1>4. DiscoveryTypeOK' /\ DiscoveryInv'
    BY <1>1 DEF discoveryVars, TypeOK, DiscoveryTypeOK, DiscoveryInv, ListenInv, MethodsInv, RetryInv, NothingLost
  <1>5. events' \in 0..MaxEvents
    BY <1>1, EventFacts
  <1> HIDE DEF f
  <1>6. KeyInv'
    BY <1>1, <1>2, ReadPreserves, WritePreserves
  <1>7. KeyTypeOK' /\ made' >= made
    BY <1>1, <1>2, LoadTypes
  <1>8. used' \subseteq Paths \X (1..made')
    <2>1. 1..made \subseteq 1..made'
      BY <1>7 DEF TypeOK, KeyTypeOK
    <2> QED
      BY <1>1, <2>1 DEF TypeOK
  <1>9. \A q \in Procs : (KeyPath(q) \in Paths /\ IdentityPath(q) \in Paths)'
    BY <1>1 DEF TypeOK, KeyPath, IdentityPath
  <1>10. TypeOK'
    BY <1>1, <1>4, <1>5, <1>7, <1>8, <1>9 DEF TypeOK
  <1> QED
    BY <1>3, <1>4, <1>6, <1>10

\* The process returns from main, or is killed.
LEMMA ExitPreserves ==
  ASSUME IndInv, NEW p \in Procs, Exit(p) PROVE IndInv'
  <1> USE DEF IndInv
  <1>1. /\ UNCHANGED <<file, starts, used>> /\ (Event \/ UNCHANGED events)
        /\ DropKeys(p, Loading(p)) /\ DropDiscovery(p) /\ Goes(p, "idle")
        /\ cfg' = [cfg EXCEPT ![p] = NoConfig]
    BY DEF Exit
  <1>2. "idle" \in Phases
    BY DEF Phases
  <1>3. /\ ConfigInv' /\ pc' \in [Procs -> Phases]
        /\ \A q \in Procs : q # p => cfg'[q] = cfg[q]
        /\ \A q \in Procs : (KeyPath(q) \in Paths /\ IdentityPath(q) \in Paths)'
    BY <1>1, <1>2, PhaseFacts
  <1>4. KeyInv'
    BY <1>1, <1>3, ExitKeeps DEF Goes
  <1>5. DiscoveryTypeOK' /\ DiscoveryInv'
    BY <1>1, <1>3, ExitDiscovery DEF Goes
  <1>6. events' \in 0..MaxEvents
    BY <1>1, EventFacts
  <1>7. Loading(p) \in Paths
    BY PathFacts DEF TypeOK
  <1>8. KeyTypeOK'
    BY <1>1, <1>7, LoadTypes
  <1>9. made' = made
    BY <1>1 DEF DropKeys
  <1>10. TypeOK'
    BY <1>1, <1>3, <1>5, <1>6, <1>8, <1>9 DEF TypeOK
  <1> QED
    BY <1>3, <1>4, <1>5, <1>10

LEMMA NextPreserves == IndInv /\ [Next]_vars => IndInv'
  <1> SUFFICES ASSUME IndInv, [Next]_vars PROVE IndInv'
    OBVIOUS
  <1>1. CASE UNCHANGED vars
    <2>1. UNCHANGED <<content, made, load, own, held, incidents, todo, started, boot, joining, recent,
                      cancelled, link, found, attached, subs, lost, file, pc, cfg, starts, events, used>>
      BY <1>1 DEF vars, keyVars, discoveryVars
    <2>2. TypeOK' /\ ConfigInv'
      BY <2>1 DEF IndInv, TypeOK, KeyTypeOK, DiscoveryTypeOK, KeyPath, IdentityPath, ConfigInv, Loaded
    <2>3. DiscoveryInv'
      BY <2>1 DEF IndInv, DiscoveryInv, ListenInv, MethodsInv, RetryInv, NothingLost
    <2>4. TakenInv' /\ RefusedForCause'
      BY <2>1 DEF IndInv, KeyInv, TakenInv, Taken, RefusedForCause, Loading, KeyPath, IdentityPath
    <2>5. \A f \in Paths : FileInv(f)'
      BY <2>1 DEF IndInv, KeyInv, FileInv, CreatingAt, SecretAt, ShortAt, Clean, At, Creating,
         Loading, KeyPath, IdentityPath
    <2> QED
      BY <2>2, <2>3, <2>4, <2>5 DEF IndInv, KeyInv
  <1> QED
    BY <1>1, BeginPreserves, BeginFailsPreserves, LoadFilePreserves, PhasePreserves, StorePreserves,
       DiscoveryPreserves, ExitPreserves DEF Next

-----------------------------------------------------------------------------
\* The key files, the phases of the processes and their discovery stay in step,
\* whoever starts, fails or is killed.
THEOREM Invariance == Spec => []IndInv
  BY InitEstablishes, NextPreserves, PTL DEF Spec

\* The types of the variables; no goroutine of Bootstrap exceeds MaxRetries and
\* no method is started that the configuration does not know.
THEOREM TypeCorrect == Spec => []TypeOK
  <1>1. IndInv => TypeOK
    BY DEF IndInv
  <1> QED
    BY <1>1, Invariance, PTL

\* The file still holds the key that files were encrypted with, or the identity
\* that a node was known by, unless two first starts overlapped or a read error
\* was taken for a missing file.
THEOREM SecretsKeptHolds == Spec => []SecretsKept
  <1>1. IndInv => SecretsKept
    <2> SUFFICES ASSUME IndInv, NEW u \in used, Clean(u[1]) PROVE content[u[1]] = u[2]
      BY DEF SecretsKept, Clean
    <2>1. u[1] \in Paths
      BY DEF IndInv, TypeOK
    <2> QED
      BY <2>1 DEF IndInv, KeyInv, FileInv, SecretAt
  <1> QED
    BY <1>1, Invariance, PTL

\* A start that is refused for a key file had a cause.
THEOREM RefusedForCauseHolds == Spec => []RefusedForCause
  <1>1. IndInv => RefusedForCause
    BY DEF IndInv, KeyInv
  <1> QED
    BY <1>1, Invariance, PTL

\* No event is published before somebody listens.
THEOREM NothingLostHolds == Spec => []NothingLost
  <1>1. IndInv => NothingLost
    BY DEF IndInv, DiscoveryInv
  <1> QED
    BY <1>1, Invariance, PTL

\* A command that runs tries every peer of its --bootstrap flags, whatever the
\* configuration file says.
THEOREM FlagPeersTriedHolds == Spec => []FlagPeersTried
  <1>1. IndInv => FlagPeersTried
    <2> SUFFICES ASSUME IndInv, NEW p \in Procs, pc[p] = "running", NEW a \in Range(Flags[p].peers)
                 PROVE  boot[p][a].at # "none"
      BY DEF FlagPeersTried
    <2>1. cfg[p] = Loaded(p)
      BY DEF IndInv, ConfigInv
    <2>2. a \in Range(cfg[p].peers) /\ "bootstrap" \in Range(cfg[p].methods)
      BY <2>1, LoadedFacts DEF IndInv, TypeOK
    <2> QED
      BY <2>2 DEF IndInv, DiscoveryInv, MethodsInv
  <1> QED
    BY <1>1, Invariance, PTL
=============================================================================
