----------------------------- MODULE Controller -----------------------------
(***************************************************************************)
(* The UniFi controller as unifi.rs sees it: the guest authorization each  *)
(* device holds, and the commands whose sender has stopped waiting (the    *)
(* 10 s client timeout, or a dropped handler) but which the controller may *)
(* still execute.  The clock counts the seconds of the database's          *)
(* timestamps; an authorization is given whole minutes.                    *)
(***************************************************************************)
EXTENDS Naturals, FiniteSets

CONSTANTS
    Devices,
    Minute,     \* seconds of a minute (60)
    Forever,    \* expires_at of a coupon that never expires (i64::MAX)
    MaxTime,    \* bound: the clock stops here
    MaxLate,    \* bound: commands outstanding after their sender gave up
    MaxDelay    \* how long the controller may sit on such a command

ASSUME ControllerAssumption ==
    /\ Forever \in Nat /\ MaxTime \in Nat /\ Forever > MaxTime
    /\ MaxLate \in Nat /\ MaxDelay \in Nat
    /\ Minute \in Nat \ {0}

VARIABLES
    now,
    grant,      \* the access the controller gives each device
    late        \* commands still on their way

controllerVars == <<grant, late>>

\* row is a ghost: the id of the row the authorization is asked for.
Command == [op : {"AUTHORIZE", "UNAUTHORIZE"}, dev : Devices,
            minutes : Nat, sent : Nat, row : Nat]

\* When the controller ends the access by itself; by is a ghost: the row of
\* the authorization that gave it.
Grants == [until : Nat, by : Nat]

NoAccess == [until |-> 0, by |-> 0]

ControllerTypeOK ==
    /\ now \in 0..MaxTime
    /\ grant \in [Devices -> Grants]
    /\ late \subseteq Command

ControllerInit ==
    /\ now = 0
    /\ grant = [d \in Devices |-> NoAccess]
    /\ late = {}

Online(d) == grant[d].until > now

\* minutes = Forever stands for the call that names no limit.
AuthorizeCmd(d, minutes, row) ==
    [op |-> "AUTHORIZE", dev |-> d, minutes |-> minutes, sent |-> now, row |-> row]

UnauthorizeCmd(d) ==
    [op |-> "UNAUTHORIZE", dev |-> d, minutes |-> 0, sent |-> now, row |-> 0]

\* The controller counts the minutes from when it executes the command.
GrantEnd(cmd) ==
    IF cmd.minutes = Forever THEN Forever ELSE now + cmd.minutes * Minute

GrantOf(cmd) ==
    IF cmd.op = "UNAUTHORIZE" THEN NoAccess
    ELSE [until |-> GrantEnd(cmd), by |-> cmd.row]

Execute(cmd) == grant' = [grant EXCEPT ![cmd.dev] = GrantOf(cmd)]

\* The sender gives up while the command is on its way.
Outlive(cmd) ==
    /\ Cardinality(late) < MaxLate
    /\ late' = late \cup {cmd}
    /\ UNCHANGED grant

\* One call: executed and answered Ok, refused or never delivered, or timed
\* out with its effect still to come.  An unauthorize answered 404 or 409 is
\* Ok only if the device is found to have no access, which Execute also says.
Call(cmd, ok) ==
    \/ ok /\ Execute(cmd) /\ UNCHANGED late
    \/ ~ok /\ UNCHANGED controllerVars
    \/ ~ok /\ Outlive(cmd)

\* The controller executes a command nobody waits for, or never does.
Deliver(cmd) ==
    /\ cmd \in late
    /\ now <= cmd.sent + MaxDelay
    /\ Execute(cmd)
    /\ late' = late \ {cmd}

Lose(cmd) ==
    /\ cmd \in late
    /\ late' = late \ {cmd}
    /\ UNCHANGED grant
=============================================================================
