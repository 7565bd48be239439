---------------------------- MODULE BranchSwitch ----------------------------
(***************************************************************************)
(* The branch switch: BranchSwitcher.switch (services/branch_switcher.py)  *)
(* with the retarget and post-switch hooks main.py gives it, the state     *)
(* file (core/branch_state.py) and the boot that reads it.                 *)
(*                                                                         *)
(* The process is one asyncio event loop, so a handler runs without        *)
(* interruption from one await that suspends to the next; one action is    *)
(* one such stretch.  `phase[c]` says at which await request c stands:     *)
(*                                                                         *)
(*   "waiting"   queued on the switcher's asyncio.Lock                     *)
(*   "checking"  in check_branch_reachable, holding the lock               *)
(*   "commerce"  the URL has flipped; the commerce pool is being disposed  *)
(*   "health"    the health pool is being disposed                         *)
(*                                                                         *)
(* A URL is abstracted to the branch it belongs to.                        *)
(***************************************************************************)
EXTENDS Naturals, Sequences

CONSTANTS
    Clients,     \* who POSTs /branches/switch, one request at a time each
    Malformed,   \* the branches whose URL may be one that asyncpg cannot parse
    NoOne        \* the holder of a free lock

ASSUME NoOneAssumption == NoOne \notin Clients

Branch == {"slow", "fast"}
NoBranch == "none"
NoAnswer == [code |-> 0, active |-> NoBranch]

Phases == {"idle", "waiting", "checking", "commerce", "health"}
Inside == {"checking", "commerce", "health"}

VARIABLES
    url,         \* BranchTarget.url: where every new connection goes
    active,      \* BranchSwitcher._active: what GET /branches/current answers
    file,        \* the state file: a branch, or "other" for everything else
    lock,        \* the holder of BranchSwitcher._lock
    waiters,     \* the requests queued on it, first come first served
    phase,       \* phase[c]: where request c stands
    target,      \* target[c]: the branch c asks (or last asked) for
    answer,      \* answer[c]: the answer to c's last finished request
    branch_current,  \* app.state.branch_current
    saved,       \* history: no write of the file has failed since boot or
                 \* since the last one that worked
    malformed    \* the branches whose URL asyncpg rejects with a ValueError

branchVars == <<url, active, file, branch_current, saved, malformed>>
requestVars == <<lock, waiters, phase, target, answer>>
vars == <<branchVars, requestVars>>

-----------------------------------------------------------------------------
(* The state file.  An absent, empty, unreadable or malformed file counts  *)
(* as "other".                                                             *)

Contents == Branch \cup {"other"}

Load(f) == IF f \in Branch THEN f ELSE "slow"

-----------------------------------------------------------------------------
(* Boot: every engine dials the branch the file names.                     *)

Init ==
    /\ file \in Contents
    /\ url = Load(file)
    /\ active = Load(file)
    /\ branch_current = Load(file)
    /\ lock = NoOne
    /\ waiters = << >>
    /\ phase = [c \in Clients |-> "idle"]
    /\ target \in [Clients -> Branch]
    /\ answer = [c \in Clients |-> NoAnswer]
    /\ saved = TRUE
    /\ malformed \in SUBSET Malformed

\* The process died and the container starts it again, with contents f left
\* in the file.  Requests in flight are lost.
Reboot(f) ==
    /\ file' = f
    /\ url' = Load(f)
    /\ active' = Load(f)
    /\ branch_current' = Load(f)
    /\ lock' = NoOne
    /\ waiters' = << >>
    /\ phase' = [c \in Clients |-> "idle"]
    /\ answer' = [c \in Clients |-> NoAnswer]
    /\ saved' = TRUE
    /\ UNCHANGED <<target, malformed>>

Crash == Reboot(file)

\* Killed inside save_branch, between truncating the file and writing it.
CrashInSave(c) == phase[c] = "health" /\ Reboot("other")

-----------------------------------------------------------------------------
(* A request's steps.                                                      *)

Reply(c, code, shown) ==
    /\ phase' = [phase EXCEPT ![c] = "idle"]
    /\ answer' = [answer EXCEPT ![c] = [code |-> code, active |-> shown]]

\* Mutant: no lock.
EnterUnlocked(c) == waiters # << >> /\ Head(waiters) = c

MayEnter(c) == lock = NoOne /\ waiters # << >> /\ Head(waiters) = c

\* The handler is reached and queues on the lock.
Request(c, t) ==
    /\ phase[c] = "idle"
    /\ phase' = [phase EXCEPT ![c] = "waiting"]
    /\ target' = [target EXCEPT ![c] = t]
    /\ waiters' = Append(waiters, c)
    /\ answer' = [answer EXCEPT ![c] = NoAnswer]
    /\ UNCHANGED <<branchVars, lock>>

\* The lock is taken and released at once: "already on <target>", 409.
Refuse(c) ==
    /\ MayEnter(c)
    /\ target[c] = active
    /\ waiters' = Tail(waiters)
    /\ Reply(c, 409, NoBranch)
    /\ UNCHANGED <<branchVars, lock, target>>

\* Mutant: the active branch was compared before the lock was taken.
StartUncompared(c) ==
    /\ MayEnter(c)
    /\ waiters' = Tail(waiters)
    /\ lock' = c
    /\ phase' = [phase EXCEPT ![c] = "checking"]
    /\ UNCHANGED <<branchVars, target, answer>>

\* Mutant: the URL is set first and checked afterwards.
StartRepointed(c) ==
    /\ MayEnter(c)
    /\ target[c] # active
    /\ url' = target[c]
    /\ waiters' = Tail(waiters)
    /\ lock' = c
    /\ phase' = [phase EXCEPT ![c] = "checking"]
    /\ UNCHANGED <<active, file, branch_current, saved, malformed, target, answer>>

StartCheck(c) ==
    /\ MayEnter(c)
    /\ target[c] # active
    /\ waiters' = Tail(waiters)
    /\ lock' = c
    /\ phase' = [phase EXCEPT ![c] = "checking"]
    /\ UNCHANGED <<branchVars, target, answer>>

\* Mutant: the lock is not released on the way out of an exception.
RaiseLocked(c, code) ==
    /\ phase[c] = "checking"
    /\ code = IF target[c] \in malformed THEN 409 ELSE 500
    /\ Reply(c, code, NoBranch)
    /\ UNCHANGED <<branchVars, lock, waiters, target>>

\* The check raised: a ValueError becomes 409, anything else (refused,
\* timed out, dropped connection) is unhandled and becomes 500.
CheckRaises(c, code) ==
    /\ phase[c] = "checking"
    /\ code = IF target[c] \in malformed THEN 409 ELSE 500
    /\ lock' = NoOne
    /\ Reply(c, code, NoBranch)
    /\ UNCHANGED <<branchVars, waiters, target>>

\* The branch answered SELECT 1: from here on new connections dial it.
CheckPasses(c) ==
    /\ phase[c] = "checking"
    /\ target[c] \notin malformed
    /\ url' = target[c]
    /\ phase' = [phase EXCEPT ![c] = "commerce"]
    /\ UNCHANGED <<active, file, branch_current, saved, malformed, lock, waiters, target, answer>>

\* A disposal waits and does not raise: the pool closes its idle connections and
\* logs what closing one raises.  Only a process going down ends it: Crash.
CommerceDisposed(c) ==
    /\ phase[c] = "commerce"
    /\ phase' = [phase EXCEPT ![c] = "health"]
    /\ UNCHANGED <<branchVars, lock, waiters, target, answer>>

\* Mutant: the branch is saved before it is changed.
SaveOldBranch(c) ==
    /\ phase[c] = "health"
    /\ active' = target[c]
    /\ file' = active
    /\ saved' = TRUE
    /\ lock' = NoOne
    /\ Reply(c, 200, active')
    /\ UNCHANGED <<url, branch_current, malformed, waiters, target>>

\* Mutant: the answer is built from the branch read before the change.
AnswerOldBranch(c) ==
    /\ phase[c] = "health"
    /\ active' = target[c]
    /\ file' = target[c]
    /\ saved' = TRUE
    /\ lock' = NoOne
    /\ Reply(c, 200, active)
    /\ UNCHANGED <<url, branch_current, malformed, waiters, target>>

\* The health pool is gone too; the rest runs without a suspension:
\* _active, save_branch, the lock's release and the 200 answer.
Complete(c) ==
    /\ phase[c] = "health"
    /\ active' = target[c]
    /\ file' = target[c]
    /\ saved' = TRUE
    /\ lock' = NoOne
    /\ Reply(c, 200, active')
    /\ UNCHANGED <<url, branch_current, malformed, waiters, target>>

\* Mutant: save_branch runs before _active is assigned.
RaiseBeforeActive(c, f) ==
    /\ phase[c] = "health"
    /\ f \in {file, "other"}
    /\ file' = f
    /\ saved' = FALSE
    /\ lock' = NoOne
    /\ Reply(c, 500, NoBranch)
    /\ UNCHANGED <<url, active, branch_current, malformed, waiters, target>>

\* As Complete, but writing the file raises an OSError, before or after the
\* file was truncated: the switch has happened and the answer is 500.
SaveRaises(c, f) ==
    /\ phase[c] = "health"
    /\ f \in {file, "other"}
    /\ active' = target[c]
    /\ file' = f
    /\ saved' = FALSE
    /\ lock' = NoOne
    /\ Reply(c, 500, NoBranch)
    /\ UNCHANGED <<url, branch_current, malformed, waiters, target>>

-----------------------------------------------------------------------------
Proceed(c) ==
    \/ Refuse(c)
    \/ StartCheck(c)
    \/ \E code \in {409, 500} : CheckRaises(c, code)
    \/ CheckPasses(c)
    \/ CommerceDisposed(c)
    \/ Complete(c)
    \/ \E f \in Contents : SaveRaises(c, f)

Next ==
    \/ \E c \in Clients :
          \/ \E t \in Branch : Request(c, t)
          \/ Proceed(c)
          \/ CrashInSave(c)
    \/ Crash

Spec == Init /\ [][Next]_vars

\* Every await inside the lock ends: the check is bounded by its timeouts and
\* pool disposal closes finitely many connections.  The lock is first come,
\* first served, so the request at the head of the queue runs.
Fairness == \A c \in Clients : WF_vars(Proceed(c))

FairSpec == Spec /\ Fairness

-----------------------------------------------------------------------------
(* Properties.                                                             *)

\* Type invariant.
TypeOK ==
    /\ url \in Branch
    /\ active \in Branch
    /\ file \in Contents
    /\ branch_current \in Branch
    /\ lock \in Clients \cup {NoOne}
    /\ waiters \in Seq(Clients)
    /\ phase \in [Clients -> Phases]
    /\ target \in [Clients -> Branch]
    /\ answer \in [Clients -> [code : {0, 200, 409, 500},
                              active : Branch \cup {NoBranch}]]
    /\ saved \in BOOLEAN
    /\ malformed \subseteq Malformed

\* The switcher's lock serializes switches: whoever is past the lock holds it,
\* so two requests never probe, repoint or dispose at the same time, and
\* whoever is queued waits for it, with one place in the queue.
Serialized ==
    /\ \A c \in Clients : (phase[c] \in Inside) <=> (lock = c)
    /\ \A i \in DOMAIN waiters : phase[waiters[i]] = "waiting"
    /\ \A i, j \in DOMAIN waiters : waiters[i] = waiters[j] => i = j

Disposing(c) == phase[c] \in {"commerce", "health"}

\* New connections dial the branch GET /branches/current reports, except
\* while a switch disposes the pools: then they dial the branch asked for.
\* In particular a check that fails leaves the URL alone, and so does every
\* path out of the lock (409, 500, restart).  A switch under way is always to
\* the branch that is not active, however long its request queued.
DialsTheActiveBranch ==
    /\ (\A c \in Clients : ~Disposing(c)) => url = active
    /\ \A c \in Clients : Disposing(c) => url = target[c]
    /\ \A c \in Clients : phase[c] \in Inside => target[c] # active

\* The state file names the active branch at every moment, in the middle of
\* a switch too, unless the last write of it raised: so a restart brings the
\* same branch back.
RestartKeepsTheBranch == saved => Load(file) = active

\* A 200 answer means what it says, however many switches are queued: when it
\* is sent, its branch is the one asked for, the one /branches/current reports,
\* the one new connections dial and the one a restart would load.
AnswerIsTheTruth ==
    [][\A c \in Clients :
          answer'[c] # answer[c] /\ answer'[c].code = 200
             => /\ answer'[c].active = target[c]
                /\ active' = target[c]
                /\ url' = target[c]
                /\ Load(file') = target[c]]_vars

\* A switch request that is refused or fails leaves the service consistent:
\* new connections dial the branch /branches/current reports.  It moves the
\* service only when what failed is the last step, saving the branch.
FailureKeepsServing ==
    [][\A c \in Clients :
          answer'[c] # answer[c] /\ answer'[c].code \in {409, 500}
             => /\ url' = active'
                /\ active' # active => answer'[c].code = 500 /\ ~saved']_vars

\* No switch request waits forever: it is answered, or the process dies.
EveryRequestEnds == \A c \in Clients : phase[c] # "idle" ~> phase[c] = "idle"

(* What the documentation says and the code does not do.                   *)

\* docs/specs/06-branches-switch.md, invariant 4: "The active branch survives
\* process restarts."  A write of the file that raises leaves the old one.
BranchSurvivesRestarts == Load(file) = active

-----------------------------------------------------------------------------
(* BranchRegister, the atomic register this component implements.          *)

Register == INSTANCE BranchRegister WITH
    branch <- active,
    durable <- saved,
    pending <- [c \in Clients |-> IF phase[c] = "idle" THEN NoBranch ELSE target[c]]

\* The switch behaves as BranchRegister: every request takes effect in one
\* indivisible step between its arrival and its answer, and a restart finds
\* the branch that was active or one being switched to, unless a save failed.
ActsAsRegister == Register!Spec
=============================================================================
