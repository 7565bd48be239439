--------------------------- MODULE BranchRegister ---------------------------
(***************************************************************************)
(* What `POST /branches/switch` promises, without connections, locks or    *)
(* files: one register holding the active branch, changed in one step by   *)
(* each successful request and readable at any moment through              *)
(* `GET /branches/current`.  BranchSwitch implements it.                   *)
(*                                                                         *)
(* A restart may lose the effect of a switch only when saving it failed    *)
(* (`durable` is FALSE), and may keep the effect of a switch that was      *)
(* still waiting for its answer.                                           *)
(***************************************************************************)
CONSTANTS
    Clients,     \* who asks for switches; each has at most one request open
    Malformed    \* the branches whose configured URL may be malformed

Branch == {"slow", "fast"}
NoBranch == "none"
NoAnswer == [code |-> 0, active |-> NoBranch]

Answers == [code : {0, 200, 409, 500}, active : Branch \cup {NoBranch}]

VARIABLES
    branch,      \* the active branch
    durable,     \* whether a restart is certain to find it again
    pending,     \* pending[c]: the target c waits for, or NoBranch
    answer,      \* answer[c]: the answer to c's last finished request
    malformed    \* the branches whose URL no driver can parse

vars == <<branch, durable, pending, answer, malformed>>

\* Type invariant.
TypeOK ==
    /\ branch \in Branch
    /\ durable \in BOOLEAN
    /\ pending \in [Clients -> Branch \cup {NoBranch}]
    /\ answer \in [Clients -> Answers]
    /\ malformed \subseteq Malformed

Init ==
    /\ branch \in Branch
    /\ durable = TRUE
    /\ pending = [c \in Clients |-> NoBranch]
    /\ answer = [c \in Clients |-> NoAnswer]
    /\ malformed \in SUBSET Malformed

Reply(c, code, shown) ==
    /\ pending' = [pending EXCEPT ![c] = NoBranch]
    /\ answer' = [answer EXCEPT ![c] = [code |-> code, active |-> shown]]

Invoke(c, t) ==
    /\ pending[c] = NoBranch
    /\ pending' = [pending EXCEPT ![c] = t]
    /\ answer' = [answer EXCEPT ![c] = NoAnswer]
    /\ UNCHANGED <<branch, durable>>

\* 200: the branch changes, and the answer names the branch it changed to.
Switch(c) ==
    /\ pending[c] \in Branch \ {branch}
    /\ branch' = pending[c]
    /\ durable' = TRUE
    /\ Reply(c, 200, pending[c])

\* 500 with the effect of a switch: it could not be saved.
SwitchUnsaved(c) ==
    /\ pending[c] \in Branch \ {branch}
    /\ branch' = pending[c]
    /\ durable' = FALSE
    /\ Reply(c, 500, NoBranch)

\* 409: the branch asked for is active already, or its URL is malformed.
Refuse(c) ==
    /\ pending[c] \in {branch} \cup malformed
    /\ Reply(c, 409, NoBranch)
    /\ UNCHANGED <<branch, durable>>

\* 500 without effect: the branch asked for did not answer.
Fail(c) ==
    /\ pending[c] \in Branch \ {branch}
    /\ Reply(c, 500, NoBranch)
    /\ UNCHANGED <<branch, durable>>

Restart ==
    /\ branch' \in IF durable THEN {branch} \cup {pending[c] : c \in Clients}
                              ELSE Branch
    /\ branch' \in Branch
    /\ durable' = TRUE
    /\ pending' = [c \in Clients |-> NoBranch]
    /\ answer' = [c \in Clients |-> NoAnswer]

Next ==
    /\ \/ \E c \in Clients :
             \/ \E t \in Branch : Invoke(c, t)
             \/ Switch(c)
             \/ SwitchUnsaved(c)
             \/ Refuse(c)
             \/ Fail(c)
       \/ Restart
    /\ UNCHANGED malformed

Spec == Init /\ [][Next]_vars
=============================================================================
