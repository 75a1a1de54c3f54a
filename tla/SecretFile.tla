----------------------------- MODULE SecretFile -----------------------------
(***************************************************************************)
(* A generated secret (config.rs, persistent_secret): every start of the   *)
(* process returns the content of the secret file, or creates the file     *)
(* with a value of its own.  Starts may overlap, and die at any point; the *)
(* disk may fail; a power failure may lose what was not yet synced.  With  *)
(* the variable set in the environment the file is not touched.            *)
(***************************************************************************)
EXTENDS Naturals

CONSTANTS
    Starts,     \* starts of the process; a start stands for the value it draws
    Absent,     \* the file does not exist
    Blank       \* the file exists and is empty

ASSUME StartsAssumption == Absent \notin Starts /\ Blank \notin Starts /\ Absent # Blank

VARIABLES
    file,       \* what reading the file gives
    synced,     \* the disk holds what reading gives
    pc,
    got,        \* what the start returned
    lost        \* ghost: a power failure has lost an unsynced write

vars == <<file, synced, pc, got, lost>>

Running == {"read", "create", "reread", "write", "sync"}

\* "blank" and "error" are the two ways a start can fail.
TypeOK ==
    /\ file \in Starts \cup {Absent, Blank}
    /\ synced \in BOOLEAN
    /\ pc \in [Starts -> Running \cup {"done", "blank", "error", "dead"}]
    /\ got \in [Starts -> Starts \cup {Absent}]
    /\ lost \in BOOLEAN

Init ==
    /\ file = Absent
    /\ synced = TRUE
    /\ pc = [p \in Starts |-> "read"]
    /\ got = [p \in Starts |-> Absent]
    /\ lost = FALSE

Goto(p, at) == pc' = [pc EXCEPT ![p] = at]

Return(p, value) ==
    /\ Goto(p, "done")
    /\ got' = [got EXCEPT ![p] = value]

\* Mutant: an empty file is not told from a secret.
TakeBlank(p) == file # Absent /\ Return(p, file)

\* read_to_string of a file that exists: a value, or an error if it is empty.
Take(p) ==
    /\ file # Absent
    /\ IF file = Blank THEN Goto(p, "blank") /\ UNCHANGED got ELSE Return(p, file)

Read(p) ==
    /\ pc[p] = "read"
    /\ \/ Take(p)
       \/ file = Absent /\ Goto(p, "create") /\ UNCHANGED got
    /\ UNCHANGED <<file, synced, lost>>

\* Mutant: OpenOptions with create(true).truncate(true) for create_new(true).
CreateTruncating(p) ==
    /\ pc[p] = "create"
    /\ file' = Blank
    /\ synced' = FALSE
    /\ Goto(p, "write")
    /\ UNCHANGED <<got, lost>>

\* create_new: the file is created empty, or another start was faster.
Create(p) ==
    /\ pc[p] = "create"
    /\ IF file = Absent
       THEN /\ file' = Blank
            /\ synced' = FALSE
            /\ Goto(p, "write")
       ELSE /\ Goto(p, "reread")
            /\ UNCHANGED <<file, synced>>
    /\ UNCHANGED <<got, lost>>

Reread(p) ==
    /\ pc[p] = "reread"
    /\ \/ Take(p)
       \/ file = Absent /\ Goto(p, "blank") /\ UNCHANGED got
    /\ UNCHANGED <<file, synced, lost>>

\* Mutant: the value is returned without sync_all.
WriteUnsynced(p) ==
    /\ pc[p] = "write"
    /\ file' = p
    /\ synced' = FALSE
    /\ Return(p, p)
    /\ UNCHANGED lost

\* Mutant: the value stays in a buffer.
WriteUnflushed(p) ==
    /\ pc[p] = "write"
    /\ Goto(p, "sync")
    /\ UNCHANGED <<file, synced, got, lost>>

Write(p) ==
    /\ pc[p] = "write"
    /\ file' = p
    /\ synced' = FALSE
    /\ Goto(p, "sync")
    /\ UNCHANGED <<got, lost>>

\* Mutant: an error of sync_all is ignored.
SyncIgnored(p) ==
    /\ pc[p] = "sync"
    /\ synced' \in {synced, TRUE}
    /\ Return(p, p)
    /\ UNCHANGED <<file, lost>>

Sync(p) ==
    /\ pc[p] = "sync"
    /\ synced' = TRUE
    /\ Return(p, p)
    /\ UNCHANGED <<file, lost>>

\* An I/O error of any of the calls.  The file is left as it is.
DiskError(p) ==
    /\ pc[p] \in Running
    /\ Goto(p, "error")
    /\ UNCHANGED <<file, synced, got, lost>>

\* The process is killed.
Crash(p) ==
    /\ pc[p] \in Running
    /\ Goto(p, "dead")
    /\ UNCHANGED <<file, synced, got, lost>>

\* Every process ends.  Of a file that was not synced, the disk may hold
\* nothing, the empty file or the value; sync_all is taken to cover the file's
\* name.  Starts that have not read the file
\* yet are those made after the power is back.
PowerFailure ==
    /\ file' \in IF synced THEN {file} ELSE {Absent, Blank, file}
    /\ synced' = TRUE
    /\ lost' = (lost \/ file' # file)
    /\ pc' = [p \in Starts |-> IF pc[p] \in Running \ {"read"} THEN "dead" ELSE pc[p]]
    /\ UNCHANGED got

Step(p) == Read(p) \/ Create(p) \/ Reread(p) \/ Write(p) \/ Sync(p)

Next == PowerFailure \/ \E p \in Starts : Step(p) \/ DiskError(p) \/ Crash(p)

Spec == Init /\ [][Next]_vars

-----------------------------------------------------------------------------
(* Properties *)

\* Together the starts implement SecretRegister: its value is what a start has
\* written to the file, durable once it is synced.
Register == INSTANCE SecretRegister WITH
    secret  <- IF file \in Starts THEN file ELSE Absent,
    durable <- synced /\ file \in Starts

\* However starts overlap, fail, are killed or lose power, a secret once durable
\* is what every later start returns, and no start returns a secret of its own
\* that is not durable (create_new, and sync_all before the return).
ImplementsRegister == Register!Spec

\* All starts that return a secret return the same one, however they overlap,
\* fail or are killed (create_new, and the second read), as long as no power
\* failure takes an unsynced file away.  Sessions and stored credentials of an
\* earlier start stay readable.
OneSecret ==
    ~lost => \A p, q \in Starts : pc[p] = "done" /\ pc[q] = "done" => got[p] = got[q]

\* Once a start has returned the secret it created (sync_all came first), the
\* file keeps that value through every later start, crash and power failure.
CreatedSecretStays == \A p \in Starts : pc[p] = "done" /\ got[p] = p => file = p

\* A start refuses a secret file as empty only if its creator has not written it
\* yet, or was stopped before it could, or power was lost (create_new gives the
\* file its name before it has its value).
RefusesOnlyUnfinished ==
    [][\A p \in Starts : pc[p] # "blank" /\ pc'[p] = "blank" =>
          lost \/ \E q \in Starts \ {p} : pc[q] \in {"write", "dead", "error"}]_vars
=============================================================================
