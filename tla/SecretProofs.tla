---------------------------- MODULE SecretProofs ----------------------------
(* Proofs about SecretFile for any number of starts. *)
EXTENDS SecretFile, TLAPS

\* While a start has the file open for writing nobody else has, and the file
\* is what its last call made it.
OneWriter ==
    /\ \A p \in Starts : pc[p] = "write" => file = Blank
    /\ \A p \in Starts : pc[p] = "sync" => file = p
    /\ \A p, q \in Starts : pc[p] = "write" /\ pc[q] = "write" => p = q

\* A value in the file has been written by the start that drew it.
Written ==
    \A p \in Starts : file = p => pc[p] \notin {"read", "create", "reread", "write"}

Durable ==
    \A p \in Starts : pc[p] = "done" /\ got[p] = p => synced /\ file = p

\* Whoever left the file empty has not written it, or never will.
Unfinished ==
    /\ file = Blank => lost \/ \E q \in Starts : pc[q] \in {"write", "dead", "error"}
    /\ \A p \in Starts : pc[p] = "reread" => file # Absent

Agreed ==
    \A p \in Starts : pc[p] = "done" => got[p] \in Starts /\ (~lost => got[p] = file)

\* A start that has not finished has returned nothing.
Unserved == \A p \in Starts : pc[p] # "done" => got[p] = Absent

SecretInv == TypeOK /\ OneWriter /\ Written /\ Durable /\ Agreed /\ Unserved

LEMMA InitSecretInv == Init => SecretInv
  BY StartsAssumption
  DEF Init, SecretInv, TypeOK, Running, OneWriter, Written, Durable, Agreed, Unserved

LEMMA ReadSecretInv ==
    ASSUME SecretInv, NEW p \in Starts, Read(p) \/ Reread(p)
    PROVE  SecretInv'
  <1>1. /\ UNCHANGED <<file, synced, lost>>
        /\ \E at \in {"done", "blank", "create"} :
              /\ pc' = [pc EXCEPT ![p] = at]
              /\ at = "done" => file \in Starts /\ got' = [got EXCEPT ![p] = file]
              /\ at # "done" => got' = got
              /\ at = "create" => pc[p] = "read"
        /\ pc[p] \in {"read", "reread"}
    BY DEF Read, Reread, Take, Return, Goto, SecretInv, TypeOK
  <1>2. PICK at \in {"done", "blank", "create"} :
              /\ pc' = [pc EXCEPT ![p] = at]
              /\ at = "done" => file \in Starts /\ got' = [got EXCEPT ![p] = file]
              /\ at # "done" => got' = got
    BY <1>1
  <1>3. TypeOK'
    BY <1>1, <1>2 DEF SecretInv, TypeOK, Running
  <1>4. OneWriter' /\ Written'
    BY <1>1, <1>2 DEF SecretInv, TypeOK, OneWriter, Written
  <1>5. Durable' /\ Agreed' /\ Unserved'
    BY <1>1, <1>2 DEF SecretInv, TypeOK, Written, Durable, Agreed, Unserved
  <1> QED
    BY <1>3, <1>4, <1>5 DEF SecretInv

LEMMA CreateSecretInv ==
    ASSUME SecretInv, NEW p \in Starts, Create(p)
    PROVE  SecretInv'
  <1>1. TypeOK'
    BY DEF Create, Goto, SecretInv, TypeOK, Running
  <1>2. OneWriter' /\ Written'
    BY StartsAssumption DEF Create, Goto, SecretInv, TypeOK, OneWriter, Written
  <1>3. Durable' /\ Agreed' /\ Unserved'
    BY StartsAssumption DEF Create, Goto, SecretInv, TypeOK, Durable, Agreed, Unserved
  <1> QED
    BY <1>1, <1>2, <1>3 DEF SecretInv

LEMMA WriteSecretInv ==
    ASSUME SecretInv, NEW p \in Starts, Write(p)
    PROVE  SecretInv'
  <1>1. file = Blank
    BY DEF Write, SecretInv, OneWriter
  <1>2. TypeOK'
    BY DEF Write, Goto, SecretInv, TypeOK, Running
  <1>3. OneWriter' /\ Written'
    BY <1>1, StartsAssumption DEF Write, Goto, SecretInv, TypeOK, OneWriter, Written
  <1>4. Durable' /\ Agreed' /\ Unserved'
    BY <1>1, StartsAssumption DEF Write, Goto, SecretInv, TypeOK, Durable, Agreed, Unserved
  <1> QED
    BY <1>2, <1>3, <1>4 DEF SecretInv

LEMMA SyncSecretInv ==
    ASSUME SecretInv, NEW p \in Starts, Sync(p)
    PROVE  SecretInv'
  <1>1. TypeOK'
    BY DEF Sync, Return, Goto, SecretInv, TypeOK, Running
  <1>2. OneWriter' /\ Written'
    BY DEF Sync, Return, Goto, SecretInv, TypeOK, OneWriter, Written
  <1>3. Durable' /\ Agreed' /\ Unserved'
    BY DEF Sync, Return, Goto, SecretInv, TypeOK, OneWriter, Durable, Agreed, Unserved
  <1> QED
    BY <1>1, <1>2, <1>3 DEF SecretInv

LEMMA EndSecretInv ==
    ASSUME SecretInv, NEW p \in Starts, DiskError(p) \/ Crash(p)
    PROVE  SecretInv'
  <1>0. UNCHANGED <<file, synced, got, lost>> /\ pc[p] # "done"
    BY DEF DiskError, Crash, Running
  <1>1. PICK at \in {"error", "dead"} : pc' = [pc EXCEPT ![p] = at]
    BY DEF DiskError, Crash, Goto
  <1>2. TypeOK'
    BY <1>0, <1>1 DEF SecretInv, TypeOK, Running
  <1>3. OneWriter' /\ Written'
    BY <1>0, <1>1 DEF SecretInv, TypeOK, OneWriter, Written
  <1>4. Durable' /\ Agreed'
    BY <1>0, <1>1 DEF SecretInv, TypeOK, Durable, Agreed
  <1>5. Unserved'
    BY <1>0, <1>1 DEF SecretInv, TypeOK, Unserved
  <1> QED
    BY <1>2, <1>3, <1>4, <1>5 DEF SecretInv

LEMMA PowerSecretInv ==
    ASSUME SecretInv, PowerFailure
    PROVE  SecretInv'
  <1>1. TypeOK'
    BY DEF PowerFailure, SecretInv, TypeOK, Running
  <1>2. OneWriter' /\ Written'
    BY StartsAssumption
    DEF PowerFailure, SecretInv, TypeOK, Running, OneWriter, Written
  <1>3. Durable' /\ Agreed' /\ Unserved'
    BY StartsAssumption
    DEF PowerFailure, SecretInv, TypeOK, Running, Durable, Agreed, Unserved
  <1> QED
    BY <1>1, <1>2, <1>3 DEF SecretInv

LEMMA StutterSecretInv == SecretInv /\ UNCHANGED vars => SecretInv'
  BY DEF vars, SecretInv, TypeOK, OneWriter, Written, Durable, Agreed, Unserved

LEMMA SecretInvariant == Spec => []SecretInv
  <1>1. SecretInv /\ [Next]_vars => SecretInv'
    BY ReadSecretInv, CreateSecretInv, WriteSecretInv, SyncSecretInv,
       EndSecretInv, PowerSecretInv, StutterSecretInv
    DEF Next, Step
  <1> QED
    BY InitSecretInv, <1>1, PTL DEF Spec

\* However many starts overlap, fail or are killed, all that return a secret
\* return the same, unless a power failure took an unsynced file away.
THEOREM StartsAgree == Spec => []OneSecret
  <1>1. SecretInv => OneSecret
    BY DEF SecretInv, Agreed, OneSecret
  <1> QED
    BY SecretInvariant, <1>1, PTL

\* What a start created and returned is in the file for good.
THEOREM CreatedIsDurable == Spec => []CreatedSecretStays
  <1>1. SecretInv => CreatedSecretStays
    BY DEF SecretInv, Durable, CreatedSecretStays
  <1> QED
    BY SecretInvariant, <1>1, PTL

\* Starts are typed, for any number of them.
THEOREM StartsTyped == Spec => []TypeOK
  <1>1. SecretInv => TypeOK
    BY DEF SecretInv
  <1> QED
    BY SecretInvariant, <1>1, PTL

LEMMA StepUnfinished == SecretInv /\ Unfinished /\ [Next]_vars => Unfinished'
  <1> SUFFICES ASSUME SecretInv, Unfinished, [Next]_vars PROVE Unfinished'
    OBVIOUS
  <1>1. ASSUME NEW p \in Starts, Read(p) \/ Reread(p) PROVE Unfinished'
    BY <1>1
    DEF Read, Reread, Take, Return, Goto, SecretInv, TypeOK, Unfinished
  <1>2. ASSUME NEW p \in Starts, Create(p) PROVE Unfinished'
    BY <1>2, StartsAssumption DEF Create, Goto, SecretInv, TypeOK, Unfinished
  <1>3. ASSUME NEW p \in Starts, Write(p) \/ Sync(p) PROVE Unfinished'
    BY <1>3, StartsAssumption
    DEF Write, Sync, Return, Goto, SecretInv, TypeOK, OneWriter, Unfinished
  <1>4. ASSUME NEW p \in Starts, DiskError(p) \/ Crash(p) PROVE Unfinished'
    BY <1>4 DEF DiskError, Crash, Goto, SecretInv, TypeOK, Unfinished
  <1>5. ASSUME PowerFailure PROVE Unfinished'
    BY <1>5, StartsAssumption DEF PowerFailure, SecretInv, TypeOK, Running, Unfinished
  <1>6. CASE UNCHANGED vars
    BY <1>6 DEF vars, Unfinished
  <1> QED
    BY <1>1, <1>2, <1>3, <1>4, <1>5, <1>6 DEF Next, Step

\* A secret file is refused only while it is, or after it was left, unwritten.
THEOREM RefusalsExplained == Spec => RefusesOnlyUnfinished
  <1>1. Init => Unfinished
    BY StartsAssumption DEF Init, Unfinished
  <1> DEFINE Explained ==
                \A p \in Starts : pc[p] # "blank" /\ pc'[p] = "blank" =>
                    lost \/ \E q \in Starts \ {p} : pc[q] \in {"write", "dead", "error"}
  <1>2. ASSUME SecretInv, Unfinished, [Next]_vars,
               NEW p \in Starts, pc[p] # "blank", pc'[p] = "blank"
        PROVE  lost \/ \E q \in Starts \ {p} : pc[q] \in {"write", "dead", "error"}
    <2>1. PICK q \in Starts : Step(q) \/ DiskError(q) \/ Crash(q)
      BY <1>2 DEF Next, PowerFailure, vars, SecretInv, TypeOK
    <2>2. p = q /\ (Read(p) \/ Reread(p))
      BY <1>2, <2>1
      DEF Step, Create, Write, Sync, DiskError, Crash, Goto, Return, Read, Reread, Take,
          SecretInv, TypeOK
    <2>3. file = Blank /\ pc[p] \in {"read", "reread"}
      BY <1>2, <2>2
      DEF Read, Reread, Take, Goto, Return, SecretInv, TypeOK, Unfinished
    <2> QED
      BY <2>3, <1>2 DEF Unfinished
  <1>3. SecretInv /\ Unfinished /\ [Next]_vars => [Explained]_vars
    BY <1>2
  <1> QED
    BY SecretInvariant, StepUnfinished, <1>1, <1>3, PTL DEF Spec, RefusesOnlyUnfinished

-----------------------------------------------------------------------------
(* Refinement of SecretRegister *)

RegisterVars == <<IF file \in Starts THEN file ELSE Absent, synced /\ file \in Starts, got>>

LEMMA InitRegister == Init => Register!Init
  BY StartsAssumption DEF Init, Register!Init

\* A start that reads a value is served; one that does not changes nothing.
LEMMA ReadRegister ==
    ASSUME SecretInv, NEW p \in Starts, Read(p) \/ Reread(p)
    PROVE  Register!Serve(p) \/ UNCHANGED RegisterVars
  <1>1. UNCHANGED <<file, synced>> /\ pc[p] \in {"read", "reread"}
    BY DEF Read, Reread
  <1>2. \/ got' = got
        \/ file \in Starts /\ got' = [got EXCEPT ![p] = file]
    BY DEF Read, Reread, Take, Return, SecretInv, TypeOK
  <1>3. got[p] = Absent /\ file # p
    BY <1>1 DEF SecretInv, Unserved, Written
  <1> QED
    BY <1>1, <1>2, <1>3, StartsAssumption DEF Register!Serve, RegisterVars

LEMMA WriteRegister ==
    ASSUME SecretInv, NEW p \in Starts, Write(p)
    PROVE  Register!Choose(p)
  <1>1. file = Blank /\ file' = p /\ synced' = FALSE /\ got' = got
    BY DEF Write, SecretInv, OneWriter
  <1> QED
    BY <1>1, StartsAssumption DEF Register!Choose

\* The value becomes durable and is returned in one step.
LEMMA SyncRegister ==
    ASSUME SecretInv, NEW p \in Starts, Sync(p)
    PROVE  Register!Serve(p)
  <1>1. file = p /\ file' = p /\ synced' = TRUE /\ got' = [got EXCEPT ![p] = p]
    BY DEF Sync, Return, SecretInv, OneWriter
  <1>2. got[p] = Absent
    BY DEF Sync, SecretInv, Unserved
  <1> QED
    BY <1>1, <1>2, StartsAssumption DEF Register!Serve

LEMMA PowerRegister ==
    ASSUME SecretInv, PowerFailure
    PROVE  Register!Persist \/ Register!Forget \/ UNCHANGED RegisterVars
  <1>1. /\ file' \in IF synced THEN {file} ELSE {Absent, Blank, file}
        /\ synced' = TRUE /\ got' = got /\ synced \in BOOLEAN
        /\ file \in Starts \cup {Absent, Blank}
    BY DEF PowerFailure, SecretInv, TypeOK
  <1>2. CASE file' = file /\ file \in Starts /\ ~synced
    BY <1>1, <1>2, StartsAssumption DEF Register!Persist
  <1>3. CASE file' # file
    BY <1>1, <1>3, StartsAssumption DEF Register!Forget
  <1>4. CASE file' = file /\ (file \notin Starts \/ synced)
    BY <1>1, <1>4, StartsAssumption DEF RegisterVars
  <1> QED
    BY <1>1, <1>2, <1>3, <1>4

LEMMA NextRegister ==
    ASSUME SecretInv, [Next]_vars
    PROVE  Register!Next \/ UNCHANGED RegisterVars
  <1>1. ASSUME NEW p \in Starts, Create(p)
        PROVE  UNCHANGED RegisterVars
    BY <1>1, StartsAssumption DEF Create, RegisterVars
  <1>2. ASSUME NEW p \in Starts, DiskError(p) \/ Crash(p)
        PROVE  UNCHANGED RegisterVars
    BY <1>2 DEF DiskError, Crash, RegisterVars
  <1>3. CASE UNCHANGED vars
    BY <1>3 DEF vars, RegisterVars
  <1> QED
    BY <1>1, <1>2, <1>3, ReadRegister, WriteRegister, SyncRegister, PowerRegister
    DEF Next, Step, Register!Next

\* Read, create, write and sync, in any number of overlapping starts that fail,
\* are killed or lose power between any two of them, implement a register that
\* is written once.
THEOREM RegisterImplemented == Spec => ImplementsRegister
  <1>1. SecretInv /\ [Next]_vars => [Register!Next]_RegisterVars
    BY NextRegister
  <1> QED
    BY <1>1, InitRegister, SecretInvariant, PTL
    DEF Spec, ImplementsRegister, Register!Spec, RegisterVars
=============================================================================
