--------------------------- MODULE SecretRegister ---------------------------
(***************************************************************************)
(* What the file of a generated secret promises to the starts of the       *)
(* process, without the file: a register that is written once, by one of   *)
(* the starts, and serves that value to all.  Only while the value is not  *)
(* durable can it be forgotten, and whoever made the value does not return *)
(* it before it is durable.                                                *)
(***************************************************************************)
CONSTANTS Starts, Absent

VARIABLES
    secret,     \* the value, Absent if there is none
    durable,    \* a power failure cannot take it away
    got         \* what each start returned

Init ==
    /\ secret = Absent
    /\ durable = FALSE
    /\ got = [p \in Starts |-> Absent]

Choose(p) ==
    /\ secret = Absent
    /\ secret' = p
    /\ UNCHANGED <<durable, got>>

\* The start that chose the value makes it durable in the same step.
Serve(p) ==
    /\ secret # Absent
    /\ got[p] = Absent
    /\ got' = [got EXCEPT ![p] = secret]
    /\ durable' = (durable \/ secret = p)
    /\ UNCHANGED secret

Persist ==
    /\ secret # Absent
    /\ durable' = TRUE
    /\ UNCHANGED <<secret, got>>

Forget ==
    /\ ~durable
    /\ secret' = Absent
    /\ UNCHANGED <<durable, got>>

Next ==
    \/ \E p \in Starts : Choose(p) \/ Serve(p)
    \/ Persist
    \/ Forget

Spec == Init /\ [][Next]_<<secret, durable, got>>
=============================================================================
