------------------------------ MODULE KeyFile -------------------------------
(***************************************************************************)
(* The two secrets that a process reads from disk when it starts, or       *)
(* creates there: the encryption key of its store                          *)
(* (internal/store/encryption.go) and the identity of its node             *)
(* (internal/node/identity.go).  Several processes may be starting on one  *)
(* path.  os.WriteFile truncates the file and then writes it, and a        *)
(* process can die in between.                                             *)
(*                                                                         *)
(* A secret is a number, a new one for each that is generated.             *)
(***************************************************************************)
EXTENDS Integers

CONSTANTS
    Procs,      \* the processes on this machine
    Paths       \* the paths of the key files

VARIABLES
    content,    \* content[f]: the secret in file f, Absent or Short
    made,       \* how many secrets have been generated
    load,       \* load[p]: how far p is with the file it loads
    own,        \* own[p]: the secret that p has generated and is writing
    held,       \* held[p][f]: the secret that p took from f, None before
    incidents   \* history: what went wrong with file f

keyVars == <<content, made, load, own, held, incidents>>

Absent == -1
Short == 0      \* created or truncated, and not written
None == 0

Incidents == {"misread", "overlap", "failed", "cut"}

KeyTypeOK ==
    /\ made \in Nat
    /\ content \in [Paths -> {Absent, Short} \cup 1..made]
    /\ load \in [Procs -> {"none", "read", "create", "write", "loaded", "refused"}]
    /\ own \in [Procs -> 0..made]
    /\ held \in [Procs -> [Paths -> 0..made]]
    /\ incidents \in [Paths -> SUBSET Incidents]

KeyInit ==
    /\ content = [f \in Paths |-> Absent]
    /\ made = 0
    /\ load = [p \in Procs |-> "none"]
    /\ own = [p \in Procs |-> None]
    /\ held = [p \in Procs |-> [f \in Paths |-> None]]
    /\ incidents = [f \in Paths |-> {}]

LoadGoes(p, s) == load' = [load EXCEPT ![p] = s]

Happens(f, what) == incidents' = [incidents EXCEPT ![f] = @ \cup what]

\* Another process found no file either and is creating it: readers are the
\* processes that are at this file.
Overlap(p, readers) ==
    IF \E q \in readers \ {p} : load[q] \in {"create", "write"}
    THEN {"overlap"} ELSE {}

-----------------------------------------------------------------------------
\* The file is there and whole.
ReadFile(p, f, readers) ==
    /\ load[p] = "read" /\ content[f] > Short
    /\ held' = [held EXCEPT ![p][f] = content[f]]
    /\ LoadGoes(p, "loaded")
    /\ Happens(f, Overlap(p, readers))
    /\ UNCHANGED <<content, made, own>>

\* The file has the wrong length, or does not unmarshal.
RefuseFile(p, f, readers) ==
    /\ load[p] = "read" /\ content[f] = Short
    /\ LoadGoes(p, "refused")
    /\ Happens(f, Overlap(p, readers))
    /\ UNCHANGED <<content, made, own, held>>

FileIsAbsent(p, f, readers) ==
    /\ load[p] = "read" /\ content[f] = Absent
    /\ LoadGoes(p, "create")
    /\ Happens(f, Overlap(p, readers))
    /\ UNCHANGED <<content, made, own, held>>

\* The file is there and os.ReadFile, or os.Stat, fails all the same: the code
\* takes every error for a missing file.
Misread(p, f) ==
    /\ load[p] = "read" /\ content[f] # Absent
    /\ LoadGoes(p, "create")
    /\ Happens(f, {"misread"})
    /\ UNCHANGED <<content, made, own, held>>

\* LoadOrCreateIdentity only: os.Stat succeeds, and os.ReadFile fails.
ReadFails(p, f) ==
    /\ load[p] = "read" /\ content[f] # Absent
    /\ LoadGoes(p, "refused")
    /\ Happens(f, {"failed"})
    /\ UNCHANGED <<content, made, own, held>>

\* Mutant: the secret is used before it is on disk.
CreateFileUnwritten(p, f) ==
    /\ load[p] = "create"
    /\ made' = made + 1
    /\ content' = [content EXCEPT ![f] = Short]
    /\ held' = [held EXCEPT ![p][f] = made + 1]
    /\ LoadGoes(p, "loaded")
    /\ UNCHANGED <<own, incidents>>

\* A secret is generated and os.WriteFile creates, or truncates, the file.
CreateFile(p, f) ==
    /\ load[p] = "create"
    /\ made' = made + 1
    /\ own' = [own EXCEPT ![p] = made + 1]
    /\ content' = [content EXCEPT ![f] = Short]
    /\ LoadGoes(p, "write")
    /\ UNCHANGED <<held, incidents>>

\* The directory or the file cannot be made.
CreateFails(p, f) ==
    /\ load[p] = "create"
    /\ LoadGoes(p, "refused")
    /\ Happens(f, {"failed"})
    /\ UNCHANGED <<content, made, own, held>>

WriteFile(p, f) ==
    /\ load[p] = "write"
    /\ content' = [content EXCEPT ![f] = own[p]]
    /\ held' = [held EXCEPT ![p][f] = own[p]]
    /\ own' = [own EXCEPT ![p] = None]
    /\ LoadGoes(p, "loaded")
    /\ UNCHANGED <<made, incidents>>

\* Mutant: an error of os.WriteFile is only logged.
WriteErrorLogged(p, f) ==
    /\ load[p] = "write"
    /\ held' = [held EXCEPT ![p][f] = own[p]]
    /\ own' = [own EXCEPT ![p] = None]
    /\ LoadGoes(p, "loaded")
    /\ Happens(f, {"cut"})
    /\ UNCHANGED <<content, made>>

\* The disk is full, say; the file stays as it is.
WriteFails(p, f) ==
    /\ load[p] = "write"
    /\ own' = [own EXCEPT ![p] = None]
    /\ LoadGoes(p, "refused")
    /\ Happens(f, {"cut"})
    /\ UNCHANGED <<content, made, held>>

\* The process is gone, f being the file that it was at.
DropKeys(p, f) ==
    /\ held' = [held EXCEPT ![p] = [g \in Paths |-> None]]
    /\ own' = [own EXCEPT ![p] = None]
    /\ LoadGoes(p, "none")
    /\ Happens(f, IF load[p] = "write" THEN {"cut"} ELSE {})
    /\ UNCHANGED <<content, made>>

=============================================================================
