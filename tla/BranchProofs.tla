---------------------------- MODULE BranchProofs ----------------------------
(***************************************************************************)
(* Proofs about the switch and what it serves.                             *)
(*                                                                         *)
(* Part 1, about BranchSwitch, for any set of clients, any malformed URLs  *)
(* and any number of crashes: its invariants, its action properties, and   *)
(* that it implements BranchRegister; and that its queue moves on, without *)
(* which no request would end.                                             *)
(*                                                                         *)
(* Part 2, about ServedBranch, for any numbers of clients, requests and    *)
(* probes, pools of any size and any number of switches: that the          *)
(* composition still switches as BranchSwitch does, so that part 1 holds   *)
(* of it, and what its requests, pools and samples can rely on.            *)
(*                                                                         *)
(* The argument of part 2 is about what a pool Reaches: the branches of    *)
(* its idle connections and of those its users hold.  A current pool       *)
(* reaches the branch that is dialled or active, and once disposed only    *)
(* the former (CurrentPools); a pool that a request waits at, replaced or  *)
(* not, reaches nothing but what the request has seen since it began       *)
(* (WaitedPools); and between switches only a request from before the last *)
(* clear of the buffer holds on to a replaced pool (LateComers).           *)
(***************************************************************************)
EXTENDS ServedBranch, FiniteSetTheorems, TLAPS

(*                        Part 1: BranchSwitch                             *)

(* The inductive invariant.  Serialized is what makes DialsTheActiveBranch *)
(* survive a step of another request; RestartKeepsTheBranch needs neither, *)
(* and is kept here because the register's restart needs it.               *)
IInv ==
    /\ TypeOK
    /\ Serialized
    /\ DialsTheActiveBranch
    /\ RestartKeepsTheBranch

LEMMA LoadInBranch == \A f : Load(f) \in Branch /\ (f \in Branch => Load(f) = f)
BY DEF Load, Branch

-----------------------------------------------------------------------------
(* Type correctness.                                                       *)

LEMMA InitTypeOK == Init => TypeOK
BY LoadInBranch DEF Init, TypeOK, Phases, NoAnswer, NoBranch

LEMMA RebootTypeOK ==
    ASSUME TypeOK, NEW f \in Contents, Reboot(f)
    PROVE  TypeOK'
BY LoadInBranch DEF TypeOK, Reboot, Phases, NoAnswer, NoBranch

\* What an answer writes has its type.
LEMMA ReplyTyped ==
    ASSUME TypeOK, NEW c \in Clients, NEW code \in {0, 200, 409, 500},
           NEW shown \in Branch \cup {NoBranch}, Reply(c, code, shown)
    PROVE  /\ phase' \in [Clients -> Phases]
           /\ answer' \in [Clients -> [code : {0, 200, 409, 500}, active : Branch \cup {NoBranch}]]
<1>1. [code |-> code, active |-> shown] \in [code : {0, 200, 409, 500}, active : Branch \cup {NoBranch}]
  OBVIOUS
<1>2. "idle" \in Phases
  BY DEF Phases
<1> QED BY <1>1, <1>2 DEF TypeOK, Reply

LEMMA StepTypeOK ==
    ASSUME TypeOK, [Next]_vars
    PROVE  TypeOK'
<1> USE DEF TypeOK, Phases
<1>1. ASSUME NEW c \in Clients, NEW t \in Branch, Request(c, t)
      PROVE  TypeOK'
  BY <1>1 DEF Request, branchVars, NoAnswer
<1>2. ASSUME NEW c \in Clients, Refuse(c)
      PROVE  TypeOK'
  BY <1>2, ReplyTyped DEF Refuse, MayEnter, branchVars
<1>3. ASSUME NEW c \in Clients, StartCheck(c)
      PROVE  TypeOK'
  BY <1>3 DEF StartCheck, MayEnter, branchVars
<1>4. ASSUME NEW c \in Clients, NEW code \in {409, 500}, CheckRaises(c, code)
      PROVE  TypeOK'
  BY <1>4, ReplyTyped DEF CheckRaises, branchVars
<1>5. ASSUME NEW c \in Clients, CheckPasses(c)
      PROVE  TypeOK'
  BY <1>5 DEF CheckPasses
<1>6. ASSUME NEW c \in Clients, CommerceDisposed(c)
      PROVE  TypeOK'
  BY <1>6 DEF CommerceDisposed, branchVars
<1>7. ASSUME NEW c \in Clients, Complete(c)
      PROVE  TypeOK'
  <2>1. active' \in Branch /\ file' \in Contents
    BY <1>7 DEF Complete, Contents
  <2>2. /\ phase' \in [Clients -> Phases]
        /\ answer' \in [Clients -> [code : {0, 200, 409, 500}, active : Branch \cup {NoBranch}]]
    <3> HIDE DEF Phases
    <3>1. Reply(c, 200, active')
      BY <1>7 DEF Complete
    <3> QED BY <2>1, <3>1, ReplyTyped
  <2>3. lock' = NoOne /\ saved' = TRUE /\ UNCHANGED <<url, branch_current, malformed, waiters, target>>
    BY <1>7 DEF Complete
  <2> QED BY ONLY TypeOK, <2>1, <2>2, <2>3 DEF TypeOK
<1>8. ASSUME NEW c \in Clients, NEW f \in Contents, SaveRaises(c, f)
      PROVE  TypeOK'
  <2>1. active' \in Branch /\ file' \in Contents
    BY <1>8 DEF SaveRaises, Contents
  <2>2. /\ phase' \in [Clients -> Phases]
        /\ answer' \in [Clients -> [code : {0, 200, 409, 500}, active : Branch \cup {NoBranch}]]
    <3> HIDE DEF Phases
    <3>1. Reply(c, 500, NoBranch)
      BY <1>8 DEF SaveRaises
    <3> QED BY <2>1, <3>1, ReplyTyped
  <2>3. lock' = NoOne /\ saved' = FALSE /\ UNCHANGED <<url, branch_current, malformed, waiters, target>>
    BY <1>8 DEF SaveRaises
  <2> QED BY ONLY TypeOK, <2>1, <2>2, <2>3 DEF TypeOK
<1>9. ASSUME NEW c \in Clients, CrashInSave(c)
      PROVE  TypeOK'
  BY <1>9, RebootTypeOK DEF CrashInSave, Contents
<1>10. CASE Crash
  BY <1>10, RebootTypeOK DEF Crash
<1>11. CASE UNCHANGED vars
  BY <1>11 DEF vars, branchVars, requestVars
<1> QED
  BY <1>1, <1>2, <1>3, <1>4, <1>5, <1>6, <1>7, <1>8, <1>9, <1>10, <1>11
     DEF Next, Proceed

\* Every variable keeps its type for any number of clients and of crashes.
THEOREM TypeCorrect == Spec => []TypeOK
<1>1. Init => TypeOK
  BY InitTypeOK
<1>2. TypeOK /\ [Next]_vars => TypeOK'
  BY StepTypeOK
<1> QED
  BY <1>1, <1>2, PTL DEF Spec

-----------------------------------------------------------------------------
(* The inductive invariant.                                                *)

LEMMA InitIInv == Init => IInv
<1> SUFFICES ASSUME Init PROVE IInv
  OBVIOUS
<1>1. TypeOK
  BY InitTypeOK
<1>2. Serialized
  BY NoOneAssumption DEF Init, Serialized, Inside
<1>3. DialsTheActiveBranch
  BY DEF Init, DialsTheActiveBranch, Disposing, Inside
<1>4. RestartKeepsTheBranch
  BY DEF Init, RestartKeepsTheBranch
<1> QED
  BY <1>1, <1>2, <1>3, <1>4 DEF IInv

\* A boot establishes the invariant whatever the file holds.
LEMMA RebootIInv ==
    ASSUME IInv, NEW f \in Contents, Reboot(f)
    PROVE  Serialized' /\ DialsTheActiveBranch' /\ RestartKeepsTheBranch'
BY NoOneAssumption
   DEF Reboot, Serialized, Inside, DialsTheActiveBranch, Disposing, RestartKeepsTheBranch

\* Only one request is past the lock, so one that is disposing is alone there.
LEMMA OneInside ==
    ASSUME Serialized, NEW c \in Clients, NEW d \in Clients,
           phase[c] \in Inside, phase[d] \in Inside
    PROVE  c = d
BY DEF Serialized

LEMMA LockFreeNobodyInside ==
    ASSUME Serialized, lock = NoOne
    PROVE  \A c \in Clients : phase[c] \notin Inside
BY NoOneAssumption DEF Serialized

LEMMA StepIInv ==
    ASSUME IInv, [Next]_vars
    PROVE  Serialized' /\ DialsTheActiveBranch' /\ RestartKeepsTheBranch'
<1> USE DEF IInv, TypeOK, Phases, Inside, Disposing
<1>1. ASSUME NEW c \in Clients, NEW t \in Branch, Request(c, t)
      PROVE  Serialized' /\ DialsTheActiveBranch' /\ RestartKeepsTheBranch'
  BY <1>1 DEF Request, branchVars, Serialized, DialsTheActiveBranch, RestartKeepsTheBranch
<1>2. ASSUME NEW c \in Clients, Refuse(c)
      PROVE  Serialized' /\ DialsTheActiveBranch' /\ RestartKeepsTheBranch'
  BY <1>2, LockFreeNobodyInside
     DEF Refuse, MayEnter, Reply, branchVars, Serialized, DialsTheActiveBranch,
         RestartKeepsTheBranch
<1>3. ASSUME NEW c \in Clients, StartCheck(c)
      PROVE  Serialized' /\ DialsTheActiveBranch' /\ RestartKeepsTheBranch'
  BY <1>3, LockFreeNobodyInside
     DEF StartCheck, MayEnter, branchVars, Serialized, DialsTheActiveBranch,
         RestartKeepsTheBranch
<1>4. ASSUME NEW c \in Clients, NEW code \in {409, 500}, CheckRaises(c, code)
      PROVE  Serialized' /\ DialsTheActiveBranch' /\ RestartKeepsTheBranch'
  BY <1>4, NoOneAssumption
     DEF CheckRaises, Reply, branchVars, Serialized, DialsTheActiveBranch,
         RestartKeepsTheBranch
<1>5. ASSUME NEW c \in Clients, CheckPasses(c)
      PROVE  Serialized' /\ DialsTheActiveBranch' /\ RestartKeepsTheBranch'
  BY <1>5, OneInside
     DEF CheckPasses, Serialized, DialsTheActiveBranch, RestartKeepsTheBranch
<1>6. ASSUME NEW c \in Clients, CommerceDisposed(c)
      PROVE  Serialized' /\ DialsTheActiveBranch' /\ RestartKeepsTheBranch'
  BY <1>6
     DEF CommerceDisposed, branchVars, Serialized, DialsTheActiveBranch,
         RestartKeepsTheBranch
<1>7. ASSUME NEW c \in Clients, Complete(c)
      PROVE  Serialized' /\ DialsTheActiveBranch' /\ RestartKeepsTheBranch'
  <2>1. \A d \in Clients : phase'[d] \notin Inside
    BY <1>7 DEF Complete, Reply, Serialized
  <2>2. Serialized'
    <3>1. \A i \in DOMAIN waiters : waiters[i] # c /\ waiters[i] \in Clients
      BY <1>7 DEF Complete, Serialized
    <3>2. \A d \in Clients : d # c => phase'[d] = phase[d]
      BY <1>7 DEF Complete, Reply
    <3> QED
      BY <1>7, <2>1, <3>1, <3>2, NoOneAssumption DEF Complete, Serialized
  <2>3. DialsTheActiveBranch'
    BY <1>7, <2>1 DEF Complete, DialsTheActiveBranch
  <2>4. RestartKeepsTheBranch'
    BY <1>7, LoadInBranch DEF Complete, RestartKeepsTheBranch
  <2> QED
    BY <2>2, <2>3, <2>4
<1>8. ASSUME NEW c \in Clients, NEW f \in Contents, SaveRaises(c, f)
      PROVE  Serialized' /\ DialsTheActiveBranch' /\ RestartKeepsTheBranch'
  <2>1. \A d \in Clients : phase'[d] \notin Inside
    BY <1>8 DEF SaveRaises, Reply, Serialized
  <2>2. Serialized'
    <3>1. \A i \in DOMAIN waiters : waiters[i] # c /\ waiters[i] \in Clients
      BY <1>8 DEF SaveRaises, Serialized
    <3>2. \A d \in Clients : d # c => phase'[d] = phase[d]
      BY <1>8 DEF SaveRaises, Reply
    <3> QED
      BY <1>8, <2>1, <3>1, <3>2, NoOneAssumption DEF SaveRaises, Serialized
  <2>3. DialsTheActiveBranch'
    BY <1>8, <2>1 DEF SaveRaises, DialsTheActiveBranch
  <2>4. RestartKeepsTheBranch'
    BY <1>8 DEF SaveRaises, RestartKeepsTheBranch
  <2> QED
    BY <2>2, <2>3, <2>4
<1>9. ASSUME NEW c \in Clients, CrashInSave(c)
      PROVE  Serialized' /\ DialsTheActiveBranch' /\ RestartKeepsTheBranch'
  BY <1>9, RebootIInv DEF CrashInSave, Contents
<1>10. CASE Crash
  BY <1>10, RebootIInv DEF Crash
<1>11. CASE UNCHANGED vars
  BY <1>11
     DEF vars, branchVars, requestVars, Serialized, DialsTheActiveBranch,
         RestartKeepsTheBranch
<1> QED
  BY <1>1, <1>2, <1>3, <1>4, <1>5, <1>6, <1>7, <1>8, <1>9, <1>10, <1>11
     DEF Next, Proceed

LEMMA IInvariant == Spec => []IInv
<1>1. Init => IInv
  BY InitIInv
<1>2. IInv /\ [Next]_vars => IInv'
  BY StepTypeOK, StepIInv DEF IInv
<1> QED
  BY <1>1, <1>2, PTL DEF Spec

\* The lock serializes switches, however many requests are made.
THEOREM SwitchesAreSerialized == Spec => []Serialized
BY IInvariant, PTL DEF IInv

\* New connections dial the branch /branches/current reports, except between
\* the flip of the URL and the end of the disposals.
THEOREM ConnectionsDialTheActiveBranch == Spec => []DialsTheActiveBranch
BY IInvariant, PTL DEF IInv

\* Unless writing the state file has failed, a restart at any moment brings
\* back the branch that is active.
THEOREM RestartBringsBackTheBranch == Spec => []RestartKeepsTheBranch
BY IInvariant, PTL DEF IInv

-----------------------------------------------------------------------------
(* Action properties.                                                      *)

\* Which step answered: a request's answer changes to a 200 only in Complete,
\* to a 409 or a 500 only in Refuse, CheckRaises and SaveRaises.
LEMMA WhoAnswers ==
    ASSUME TypeOK, [Next]_vars, NEW c \in Clients,
           answer'[c] # answer[c], answer'[c].code # 0
    PROVE  \/ Complete(c)
           \/ Refuse(c)
           \/ \E code \in {409, 500} : CheckRaises(c, code)
           \/ \E f \in Contents : SaveRaises(c, f)
<1> USE DEF TypeOK, NoAnswer
<1>1. ASSUME NEW d \in Clients, NEW t \in Branch, Request(d, t)
      PROVE  FALSE
  BY <1>1 DEF Request
<1>2. ASSUME NEW d \in Clients, Proceed(d), d # c
      PROVE  FALSE
  BY <1>2
     DEF Proceed, Refuse, StartCheck, CheckRaises, CheckPasses, CommerceDisposed,
         Complete, SaveRaises, Reply
<1>3. ASSUME Proceed(c)
      PROVE  \/ Complete(c)
             \/ Refuse(c)
             \/ \E code \in {409, 500} : CheckRaises(c, code)
             \/ \E f \in Contents : SaveRaises(c, f)
  BY <1>3 DEF Proceed, StartCheck, CheckPasses, CommerceDisposed
<1>4. ASSUME NEW f \in Contents, Reboot(f)
      PROVE  FALSE
  BY <1>4 DEF Reboot
<1>5. ASSUME UNCHANGED vars
      PROVE  FALSE
  BY <1>5 DEF vars, requestVars
<1> QED
  BY <1>1, <1>2, <1>3, <1>4, <1>5 DEF Next, Crash, CrashInSave, Contents

LEMMA StepAnswerIsTheTruth ==
    ASSUME IInv, [Next]_vars, NEW c \in Clients,
           answer'[c] # answer[c], answer'[c].code = 200
    PROVE  /\ answer'[c].active = target[c]
           /\ active' = target[c]
           /\ url' = target[c]
           /\ Load(file') = target[c]
<1> USE DEF IInv, TypeOK
<1>1. Complete(c)
  <2>1. ~Refuse(c)
    BY DEF Refuse, Reply
  <2>2. \A code \in {409, 500} : ~CheckRaises(c, code)
    BY DEF CheckRaises, Reply
  <2>3. \A f \in Contents : ~SaveRaises(c, f)
    BY DEF SaveRaises, Reply
  <2> QED
    BY <2>1, <2>2, <2>3, WhoAnswers
<1>2. url = target[c]
  BY <1>1 DEF Complete, DialsTheActiveBranch, Disposing
<1> QED
  BY <1>1, <1>2, LoadInBranch DEF Complete, Reply

\* A 200 names the branch asked for, and it is then the active one, the one
\* connections dial and the one a restart would load.
THEOREM SuccessIsTheTruth == Spec => AnswerIsTheTruth
<1>1. IInv /\ [Next]_vars
        => [\A c \in Clients :
              answer'[c] # answer[c] /\ answer'[c].code = 200
                 => /\ answer'[c].active = target[c]
                    /\ active' = target[c]
                    /\ url' = target[c]
                    /\ Load(file') = target[c]]_vars
  BY StepAnswerIsTheTruth
<1> QED
  BY <1>1, IInvariant, PTL DEF Spec, AnswerIsTheTruth

LEMMA StepFailureKeepsServing ==
    ASSUME IInv, [Next]_vars, NEW c \in Clients,
           answer'[c] # answer[c], answer'[c].code \in {409, 500}
    PROVE  /\ url' = active'
           /\ active' # active => answer'[c].code = 500 /\ ~saved'
<1> USE DEF IInv, TypeOK, Inside, Disposing
<1>1. CASE Refuse(c)
  <2>1. url = active
    BY <1>1, LockFreeNobodyInside DEF Refuse, MayEnter, DialsTheActiveBranch
  <2> QED
    BY <1>1, <2>1 DEF Refuse, branchVars
<1>2. ASSUME NEW code \in {409, 500}, CheckRaises(c, code)
      PROVE  url' = active' /\ active' = active
  <2>1. \A d \in Clients : ~Disposing(d)
    BY <1>2 DEF CheckRaises, Serialized
  <2> QED
    BY <1>2, <2>1 DEF CheckRaises, branchVars, DialsTheActiveBranch
<1>3. ASSUME NEW f \in Contents, SaveRaises(c, f)
      PROVE  url' = active' /\ answer'[c].code = 500 /\ ~saved'
  BY <1>3 DEF SaveRaises, Reply, DialsTheActiveBranch
<1>4. ~Complete(c)
  BY DEF Complete, Reply
<1> QED
  BY <1>1, <1>2, <1>3, <1>4, WhoAnswers

\* After a failed or refused request, connections dial the branch
\* /branches/current reports; it moved only if saving the branch failed.
THEOREM FailuresKeepServing == Spec => FailureKeepsServing
<1>1. IInv /\ [Next]_vars
        => [\A c \in Clients :
              answer'[c] # answer[c] /\ answer'[c].code \in {409, 500}
                 => /\ url' = active'
                    /\ active' # active => answer'[c].code = 500 /\ ~saved']_vars
  BY StepFailureKeepsServing
<1> QED
  BY <1>1, IInvariant, PTL DEF Spec, FailureKeepsServing

-----------------------------------------------------------------------------
(* BranchSwitch implements BranchRegister.                                 *)

LEMMA InitRegister == Init => Register!Init
BY LoadInBranch
   DEF Init, Register!Init, Branch, Register!Branch, Register!NoBranch, NoBranch,
       Register!NoAnswer, NoAnswer

\* Answering a request clears what it waits for and leaves the others alone.
LEMMA ReplyMaps ==
    ASSUME TypeOK, NEW c \in Clients, phase[c] # "idle", target' = target,
           NEW code, NEW shown, Reply(c, code, shown)
    PROVE  Register!Reply(c, code, shown)
<1> DEFINE P == [d \in Clients |-> IF phase[d] = "idle" THEN NoBranch ELSE target[d]]
<1>1. P' = [P EXCEPT ![c] = NoBranch]
  BY DEF TypeOK, Reply
<1>2. answer' = [answer EXCEPT ![c] = [code |-> code, active |-> shown]]
  BY DEF Reply
<1> QED
  BY <1>1, <1>2 DEF Register!Reply, NoBranch, Register!NoBranch

\* The request that may enter is queued, so it is still waiting.
LEMMA HeadWaits ==
    ASSUME TypeOK, Serialized, NEW c \in Clients, MayEnter(c)
    PROVE  phase[c] = "waiting"
BY DEF TypeOK, Serialized, MayEnter

LEMMA StepRegister ==
    ASSUME IInv, IInv', [Next]_vars
    PROVE  [Register!Next]_(Register!vars)
<1> USE DEF IInv, TypeOK, NoBranch, Register!NoBranch, NoAnswer, Register!NoAnswer,
            Branch, Register!Branch
<1>1. ASSUME NEW c \in Clients, NEW t \in Branch, Request(c, t)
      PROVE  Register!Invoke(c, t)
  <2> DEFINE P == [d \in Clients |-> IF phase[d] = "idle" THEN NoBranch ELSE target[d]]
  <2>1. /\ phase[c] = "idle" /\ phase' = [phase EXCEPT ![c] = "waiting"]
        /\ target' = [target EXCEPT ![c] = t]
        /\ answer' = [answer EXCEPT ![c] = NoAnswer] /\ UNCHANGED <<active, saved>>
    BY <1>1 DEF Request, branchVars
  <2>2. phase \in [Clients -> Phases] /\ target \in [Clients -> Branch]
    OBVIOUS
  <2>3. P[c] = NoBranch /\ P' = [P EXCEPT ![c] = t]
    BY ONLY <2>1, <2>2 DEF NoBranch
  <2> QED BY <2>1, <2>3 DEF Register!Invoke
<1>2. ASSUME NEW c \in Clients, Refuse(c)
      PROVE  Register!Refuse(c)
  <2>1. phase[c] = "waiting"
    BY <1>2, HeadWaits DEF Refuse
  <2>2. Register!Reply(c, 409, NoBranch)
    BY <1>2, <2>1, ReplyMaps DEF Refuse
  <2> QED
    BY <1>2, <2>1, <2>2 DEF Refuse, branchVars, Register!Refuse
<1>3. ASSUME NEW c \in Clients, StartCheck(c)
      PROVE  UNCHANGED Register!vars
  <2>1. phase[c] = "waiting"
    BY <1>3, HeadWaits DEF StartCheck
  <2> QED
    BY <1>3, <2>1 DEF StartCheck, branchVars, Register!vars
<1>4. ASSUME NEW c \in Clients, NEW code \in {409, 500}, CheckRaises(c, code)
      PROVE  Register!Refuse(c) \/ Register!Fail(c)
  <2>1. Register!Reply(c, code, NoBranch)
    BY <1>4, ReplyMaps DEF CheckRaises
  <2>2. target[c] # active
    BY <1>4 DEF CheckRaises, DialsTheActiveBranch, Inside
  <2>3. CASE target[c] \in malformed
    BY <1>4, <2>1, <2>3 DEF CheckRaises, branchVars, Register!Refuse
  <2>4. CASE target[c] \notin malformed
    BY <1>4, <2>1, <2>2, <2>4 DEF CheckRaises, branchVars, Register!Fail
  <2> QED
    BY <2>3, <2>4
<1>5. ASSUME NEW c \in Clients, CheckPasses(c)
      PROVE  UNCHANGED Register!vars
  BY <1>5 DEF CheckPasses, Register!vars
<1>6. ASSUME NEW c \in Clients, CommerceDisposed(c)
      PROVE  UNCHANGED Register!vars
  BY <1>6 DEF CommerceDisposed, branchVars, Register!vars
<1>7. ASSUME NEW c \in Clients, Complete(c)
      PROVE  Register!Switch(c)
  <2> PICK t \in Branch : t = target[c]
    OBVIOUS
  <2>1. Reply(c, 200, t)
    BY <1>7 DEF Complete, Reply
  <2>2. Register!Reply(c, 200, t)
    BY <1>7, <2>1, ReplyMaps DEF Complete
  <2>3. target[c] # active
    BY <1>7 DEF Complete, DialsTheActiveBranch, Inside
  <2> QED
    BY <1>7, <2>2, <2>3 DEF Complete, Register!Switch, Register!Reply
<1>8. ASSUME NEW c \in Clients, NEW f \in Contents, SaveRaises(c, f)
      PROVE  Register!SwitchUnsaved(c)
  <2>1. Register!Reply(c, 500, NoBranch)
    <3>1. phase[c] = "health" /\ target' = target /\ Reply(c, 500, NoBranch)
      BY <1>8 DEF SaveRaises
    <3>2. TypeOK /\ phase[c] # "idle"
      BY <3>1
    <3> QED BY ONLY <3>1, <3>2, ReplyMaps
  <2>2. target[c] # active
    BY <1>8 DEF SaveRaises, DialsTheActiveBranch, Inside
  <2> QED
    BY <1>8, <2>1, <2>2 DEF SaveRaises, Register!SwitchUnsaved
<1>9. ASSUME NEW c \in Clients, CrashInSave(c)
      PROVE  Register!Restart
  \* An empty file loads "slow": the active branch, or the one switched to.
  <2>1. "slow" \in {active, target[c]}
    BY <1>9 DEF CrashInSave, DialsTheActiveBranch, Inside
  <2> QED
    BY <1>9, <2>1 DEF CrashInSave, Reboot, Load, Register!Restart
<1>10. ASSUME Crash
       PROVE  Register!Restart
  BY <1>10, LoadInBranch DEF Crash, Reboot, RestartKeepsTheBranch, Register!Restart
<1>11. CASE UNCHANGED vars
  BY <1>11 DEF vars, branchVars, requestVars, Register!vars
<1>12. UNCHANGED malformed
  BY DEF Next, Proceed, Request, Refuse, StartCheck, CheckRaises, CheckPasses, CommerceDisposed,
         Complete, SaveRaises, Crash, CrashInSave, Reboot, vars, branchVars
<1> QED
  BY <1>1, <1>2, <1>3, <1>4, <1>5, <1>6, <1>7, <1>8, <1>9, <1>10, <1>11, <1>12
     DEF Next, Proceed, Register!Next

\* Every behaviour of the switch, crashes and failed saves included, is one of
\* the atomic register.
THEOREM ImplementsRegister == Spec => ActsAsRegister
<1>1. Init => Register!Init
  BY InitRegister
<1>2. IInv /\ IInv' /\ [Next]_vars => [Register!Next]_(Register!vars)
  BY StepRegister
<1> QED
  BY <1>1, <1>2, IInvariant, PTL DEF Spec, ActsAsRegister, Register!Spec

-----------------------------------------------------------------------------
(* The queue: what EveryRequestEnds rests on besides fairness.             *)

Queued ==
    \A c \in Clients : phase[c] = "waiting" => \E i \in DOMAIN waiters : waiters[i] = c

\* While a request is unanswered, one of them can go on: the lock is never
\* left taken by nobody, and nobody is left waiting outside the queue.
SomebodyGoesOn ==
    (\E c \in Clients : phase[c] # "idle")
      => \E c \in Clients : phase[c] \in Inside \/ (phase[c] = "waiting" /\ MayEnter(c))

\* A request that goes on waiting loses no place in the queue.
NobodyIsOvertaken ==
    [][\A c \in Clients : \A i \in DOMAIN waiters :
          waiters[i] = c /\ phase'[c] = "waiting"
            => \E j \in DOMAIN waiters' : waiters'[j] = c /\ j \in {i - 1, i}]_vars

\* What a step does to the queue.
LEMMA QueueMoves ==
    ASSUME IInv, [Next]_vars
    PROVE  \/ \E c \in Clients :
                /\ phase' = [phase EXCEPT ![c] = "waiting"] /\ waiters' = Append(waiters, c)
           \/ \E c \in Clients : \E p \in {"idle", "checking"} :
                /\ MayEnter(c)
                /\ phase' = [phase EXCEPT ![c] = p] /\ waiters' = Tail(waiters)
           \/ \E c \in Clients : \E p \in Phases \ {"waiting"} :
                /\ phase[c] \in Inside
                /\ phase' = [phase EXCEPT ![c] = p] /\ waiters' = waiters
           \/ \A c \in Clients : phase'[c] = "idle"
           \/ phase' = phase /\ waiters' = waiters
<1> USE DEF Phases, Inside
<1>1. ASSUME NEW c \in Clients, NEW t \in Branch, Request(c, t)
      PROVE  phase' = [phase EXCEPT ![c] = "waiting"] /\ waiters' = Append(waiters, c)
  BY <1>1 DEF Request
<1>2. ASSUME NEW c \in Clients, Refuse(c) \/ StartCheck(c)
      PROVE  \E p \in {"idle", "checking"} :
               MayEnter(c) /\ phase' = [phase EXCEPT ![c] = p] /\ waiters' = Tail(waiters)
  BY <1>2 DEF Refuse, StartCheck, Reply
<1>3. ASSUME NEW c \in Clients,
             \/ \E code \in {409, 500} : CheckRaises(c, code)
             \/ CheckPasses(c) \/ CommerceDisposed(c) \/ Complete(c)
             \/ \E f \in Contents : SaveRaises(c, f)
      PROVE  \E p \in Phases \ {"waiting"} :
               /\ phase[c] \in Inside
               /\ phase' = [phase EXCEPT ![c] = p] /\ waiters' = waiters
  BY <1>3 DEF CheckRaises, CheckPasses, CommerceDisposed, Complete, SaveRaises, Reply
<1>4. ASSUME Crash \/ \E c \in Clients : CrashInSave(c)
      PROVE  \A c \in Clients : phase'[c] = "idle"
  BY <1>4 DEF Crash, CrashInSave, Reboot
<1>5. CASE UNCHANGED vars
  BY <1>5 DEF vars, requestVars
<1> QED
  BY <1>1, <1>2, <1>3, <1>4, <1>5 DEF Next, Proceed

\* Where the others stand when the head of the queue is gone.
LEMMA OneLess ==
    ASSUME IInv, NEW c \in Clients, MayEnter(c), NEW i \in DOMAIN waiters, waiters[i] # c
    PROVE  i - 1 \in DOMAIN Tail(waiters) /\ Tail(waiters)[i - 1] = waiters[i]
<1>1. waiters \in Seq(Clients) /\ waiters # << >> /\ waiters[1] = c
  BY DEF IInv, TypeOK, MayEnter
<1>2. i \in 2 .. Len(waiters)
  BY <1>1
<1> QED
  BY <1>1, <1>2

LEMMA StepQueued ==
    ASSUME IInv, Queued, [Next]_vars
    PROVE  Queued'
<1> USE DEF Queued
<1>0. waiters \in Seq(Clients) /\ phase \in [Clients -> Phases]
  BY DEF IInv, TypeOK
<1>1. ASSUME NEW c \in Clients, phase' = [phase EXCEPT ![c] = "waiting"],
             waiters' = Append(waiters, c)
      PROVE  Queued'
  BY <1>0, <1>1
<1>2. ASSUME NEW c \in Clients, NEW p \in {"idle", "checking"}, MayEnter(c),
             phase' = [phase EXCEPT ![c] = p], waiters' = Tail(waiters)
      PROVE  Queued'
  <2>1. SUFFICES ASSUME NEW d \in Clients, phase'[d] = "waiting"
                 PROVE  \E j \in DOMAIN waiters' : waiters'[j] = d
    OBVIOUS
  <2>2. d # c /\ phase[d] = "waiting"
    BY <1>0, <1>2, <2>1
  <2>3. PICK i \in DOMAIN waiters : waiters[i] = d
    BY <2>2
  <2> QED
    BY <1>2, <2>2, <2>3, OneLess
<1>3. ASSUME NEW c \in Clients, NEW p \in Phases \ {"waiting"},
             phase' = [phase EXCEPT ![c] = p], waiters' = waiters
      PROVE  Queued'
  BY <1>0, <1>3
<1>4. CASE \A c \in Clients : phase'[c] = "idle"
  BY <1>4
<1>5. CASE phase' = phase /\ waiters' = waiters
  BY <1>5
<1> QED
  BY <1>1, <1>2, <1>3, <1>4, <1>5, QueueMoves

\* The switch never stops with a request unanswered, for any clients, refused
\* switches, failing checks and failing writes.
THEOREM SwitchesGoOn == Spec => []SomebodyGoesOn
<1>1. Init => Queued
  BY DEF Init, Queued
<1>2. IInv /\ Queued /\ [Next]_vars => Queued'
  BY StepQueued
<1>3. IInv /\ Queued => SomebodyGoesOn
  <2> SUFFICES ASSUME IInv, Queued, NEW c \in Clients, phase[c] # "idle"
               PROVE  \E d \in Clients :
                        phase[d] \in Inside \/ (phase[d] = "waiting" /\ MayEnter(d))
    BY DEF SomebodyGoesOn
  <2>1. CASE lock # NoOne
    <3>1. lock \in Clients /\ phase[lock] \in Inside
      BY <2>1 DEF IInv, TypeOK, Serialized
    <3> QED
      BY <3>1
  <2>2. CASE lock = NoOne
    <3>1. phase[c] = "waiting"
      BY <2>2, LockFreeNobodyInside DEF IInv, TypeOK, Phases, Inside
    <3>2. waiters \in Seq(Clients) /\ waiters # << >>
      BY <3>1 DEF IInv, TypeOK, Queued
    <3>3. Head(waiters) \in Clients /\ phase[Head(waiters)] = "waiting"
      BY <3>2 DEF IInv, Serialized
    <3> QED
      BY <2>2, <3>2, <3>3 DEF MayEnter
  <2> QED
    BY <2>1, <2>2
<1> QED
  BY <1>1, <1>2, <1>3, IInvariant, PTL DEF Spec

\* Whoever waits for the lock only moves forward: with SwitchesGoOn, a request
\* is past the lock after at most as many others as were queued before it.
THEOREM QueueIsFair == Spec => NobodyIsOvertaken
<1> DEFINE InTurn ==
      \A c \in Clients : \A i \in DOMAIN waiters :
        waiters[i] = c /\ phase'[c] = "waiting"
          => \E j \in DOMAIN waiters' : waiters'[j] = c /\ j \in {i - 1, i}
<1>1. IInv /\ [Next]_vars => InTurn
  <2> SUFFICES ASSUME IInv, [Next]_vars, NEW c \in Clients, NEW i \in DOMAIN waiters,
                      waiters[i] = c, phase'[c] = "waiting"
               PROVE  \E j \in DOMAIN waiters' : waiters'[j] = c /\ j \in {i - 1, i}
    OBVIOUS
  <2>0. waiters \in Seq(Clients) /\ phase \in [Clients -> Phases]
    BY DEF IInv, TypeOK
  <2>1. ASSUME NEW d \in Clients, waiters' = Append(waiters, d)
        PROVE  i \in DOMAIN waiters' /\ waiters'[i] = c
    BY <2>0, <2>1
  <2>2. ASSUME NEW d \in Clients, NEW p \in {"idle", "checking"}, MayEnter(d),
               phase' = [phase EXCEPT ![d] = p], waiters' = Tail(waiters)
        PROVE  i - 1 \in DOMAIN waiters' /\ waiters'[i - 1] = c
    <3>1. d # c
      BY <2>0, <2>2
    <3> QED
      BY <2>2, <3>1, OneLess
  <2>3. ASSUME waiters' = waiters
        PROVE  i \in DOMAIN waiters' /\ waiters'[i] = c
    BY <2>3
  <2>4. CASE \A d \in Clients : phase'[d] = "idle"
    BY <2>4
  <2> QED
    BY <2>1, <2>2, <2>3, <2>4, QueueMoves
<1> QED
  BY <1>1, IInvariant, PTL DEF Spec, NobodyIsOvertaken

-----------------------------------------------------------------------------
(*                        Part 2: ServedBranch                             *)

USE PoolAssumption

Reaches(e, p, b) ==
    \/ idle[e][p][b] > 0
    \/ \E w \in Users :
         Engine(w) = e /\ from[w] = p /\ stage[w] \in Holding /\ on[w] = b

Typed ==
    /\ pool \in [Engines -> Pools]
    /\ idle \in [Engines -> [Pools -> [Branch -> Nat]]]
    /\ stage \in [Users -> Stages]
    /\ from \in [Users -> Pools]
    /\ on \in [Users -> Branch]
    /\ DOMAIN early = Users
    /\ DOMAIN seen = Users

\* A pool still to come has no connection and no user.
Fresh ==
    /\ \A u \in Users : from[u] <= pool[Engine(u)]
    /\ \A e \in Engines : \A p \in Pools : \A b \in Branch :
         p > pool[e] => idle[e][p][b] = 0

\* The health engine is one pool behind from one disposal to the other.
Paced ==
    /\ (\A c \in Clients : phase[c] # "health") => pool["commerce"] = pool["health"]
    /\ \A c \in Clients : phase[c] = "commerce" => pool["commerce"] < MaxPools
    /\ \A c \in Clients : phase[c] = "health" => pool["commerce"] = pool["health"] + 1

CurrentPools ==
    \A e \in Engines : \A b \in Branch :
       Reaches(e, pool[e], b) => b \in {url, active} /\ (b = url \/ AwaitsDisposal(e))

WaitedPools ==
    \A u \in Users : stage[u] = "waiting" =>
       \A b \in Branch : Reaches(Engine(u), from[u], b) => b \in seen[u]

HeldOfItsTime == \A u \in Users : stage[u] \in Holding => on[u] \in seen[u]

LateComers ==
    (\A c \in Clients : ~Disposing(c)) =>
       \A u \in Requests :
          stage[u] # "off" => early[u] = TRUE \/ from[u] = pool["commerce"]

Parts ==
    /\ Typed
    /\ Fresh
    /\ Paced
    /\ CurrentPools
    /\ WaitedPools
    /\ HeldOfItsTime
    /\ LateComers
    /\ StaleSamplesAreLate

SInv == IInv /\ Parts

-----------------------------------------------------------------------------
(* Pools and engines.                                                      *)

LEMMA EngineOf == \A u \in Users : Engine(u) \in Engines
BY DEF Engine, Engines

LEMMA EngineOfRequest == \A u \in Requests : u \in Users /\ Engine(u) = "commerce"
BY DEF Engine, Users

\* Taking an idle connection out adds none anywhere.
LEMMA TakeLess ==
    ASSUME Typed, NEW e \in Engines, NEW p \in Pools, NEW b \in Branch,
           idle[e][p][b] > 0, Take(e, p, b)
    PROVE  /\ idle' \in [Engines -> [Pools -> [Branch -> Nat]]]
           /\ \A d \in Engines : \A q \in Pools : \A a \in Branch :
                idle'[d][q][a] <= idle[d][q][a]
<1>1. idle \in [Engines -> [Pools -> [Branch -> Nat]]]
    BY DEF Typed
<1>2. idle[e] \in [Pools -> [Branch -> Nat]] /\ idle[e][p] \in [Branch -> Nat] /\ idle[e][p][b] \in Nat
    BY <1>1
<1> DEFINE row == [idle[e][p] EXCEPT ![b] = @ - 1]
           col == [idle[e] EXCEPT ![p] = row]
<1>3. row \in [Branch -> Nat] /\ \A a \in Branch : row[a] <= idle[e][p][a]
    BY <1>2
<1> HIDE DEF row
<1>4. col \in [Pools -> [Branch -> Nat]] /\ col[p] = row /\ \A q \in Pools \ {p} : col[q] = idle[e][q]
    BY <1>2, <1>3
<1> HIDE DEF col
<1>5. \A q \in Pools : \A a \in Branch : col[q][a] <= idle[e][q][a]
    <2> SUFFICES ASSUME NEW q \in Pools, NEW a \in Branch PROVE col[q][a] <= idle[e][q][a]
        OBVIOUS
    <2>1. CASE q = p
        BY <1>3, <1>4, <2>1
    <2>2. CASE q # p
        <3>1. idle[e][q] \in [Branch -> Nat]
            BY <1>2
        <3>2. idle[e][q][a] \in Nat
            BY <3>1
        <3> QED BY <1>4, <2>2, <3>2
    <2> QED BY <2>1, <2>2
<1>6. idle' = [idle EXCEPT ![e] = col]
    BY DEF Take, row, col
<1>7. idle'[e] = col /\ \A d \in Engines \ {e} : idle'[d] = idle[d]
    BY <1>1, <1>6
<1>8. \A d \in Engines : \A q \in Pools : \A a \in Branch : idle[d][q][a] \in Nat
    BY <1>1
<1>9. idle' \in [Engines -> [Pools -> [Branch -> Nat]]]
    BY <1>1, <1>4, <1>6
<1> QED BY <1>5, <1>7, <1>8, <1>9

\* A session's connection returns.
Put(e, p, b) == idle' = [idle EXCEPT ![e][p][b] = @ + 1]

\* Putting one back adds to that pool and branch only.
LEMMA PutOne ==
    ASSUME Typed, NEW e \in Engines, NEW p \in Pools, NEW b \in Branch, Put(e, p, b)
    PROVE  /\ idle' \in [Engines -> [Pools -> [Branch -> Nat]]]
           /\ \A d \in Engines : \A q \in Pools : \A a \in Branch :
                idle'[d][q][a] = idle[d][q][a] \/ (d = e /\ q = p /\ a = b)
<1>1. idle \in [Engines -> [Pools -> [Branch -> Nat]]]
    BY DEF Typed
<1>2. idle[e] \in [Pools -> [Branch -> Nat]] /\ idle[e][p] \in [Branch -> Nat] /\ idle[e][p][b] \in Nat
    BY <1>1
<1> DEFINE row == [idle[e][p] EXCEPT ![b] = @ + 1]
           col == [idle[e] EXCEPT ![p] = row]
<1>3. row \in [Branch -> Nat] /\ \A a \in Branch : row[a] = idle[e][p][a] \/ a = b
    BY <1>2
<1> HIDE DEF row
<1>4. col \in [Pools -> [Branch -> Nat]] /\ col[p] = row /\ \A q \in Pools \ {p} : col[q] = idle[e][q]
    BY <1>2, <1>3
<1> HIDE DEF col
<1>5. idle' = [idle EXCEPT ![e] = col]
    BY DEF Put, row, col
<1>6. idle'[e] = col /\ \A d \in Engines \ {e} : idle'[d] = idle[d]
    BY <1>1, <1>5
<1>7. idle' \in [Engines -> [Pools -> [Branch -> Nat]]]
    BY <1>1, <1>4, <1>5
<1> QED BY <1>3, <1>4, <1>6, <1>7

-----------------------------------------------------------------------------
(* The composition is a BranchSwitch, whatever the pools do.               *)

LEMMA ServedStepSwitches == [ServedNext]_served => [Next]_vars
<1> SUFFICES ASSUME [ServedNext]_served PROVE [Next]_vars
    OBVIOUS
<1>1. ASSUME NEW c \in Clients, Switching(c) PROVE [Next]_vars
    <2>1. CASE CloseIdle(c)
        BY <2>1 DEF CloseIdle
    <2> QED BY <1>1, <2>1 DEF Switching, Next, Proceed
<1>2. ASSUME Die PROVE [Next]_vars
    BY <1>2 DEF Die, Next
<1>3. CASE UNCHANGED served
    BY <1>3 DEF served
<1> QED BY <1>1, <1>2, <1>3 DEF ServedNext

LEMMA ServedKeepsIInv == IInv /\ [ServedNext]_served => IInv'
BY ServedStepSwitches, StepTypeOK, StepIInv DEF IInv

-----------------------------------------------------------------------------
(* Init and the death of the process.                                      *)

\* With no connection anywhere and nobody at work there is nothing to show.
Booted == BootEngines /\ DOMAIN seen = Users /\ \A c \in Clients : phase[c] = "idle"

LEMMA BootInOrder == Booted => Parts
<1> SUFFICES ASSUME Booted PROVE Parts
    OBVIOUS
<1> USE DEF Booted
<1>1. Typed
    <2>1. 0 \in Pools /\ "slow" \in Branch /\ "off" \in Stages
        BY DEF Pools, Branch, Stages
    <2>2. NoIdle \in [Pools -> [Branch -> Nat]]
        BY DEF NoIdle
    <2> QED BY <2>1, <2>2 DEF BootEngines, Typed
<1>2. \A u \in Users : stage[u] = "off" /\ from[u] = 0
    BY DEF BootEngines
<1>3. \A e \in Engines : pool[e] = 0
    BY DEF BootEngines
<1>4. \A e \in Engines : \A p \in Pools : \A b \in Branch : idle[e][p][b] = 0
    BY DEF BootEngines, NoIdle
<1>5. Fresh
    BY <1>2, <1>3, <1>4, EngineOf DEF Fresh
<1>6. Paced
    BY <1>3 DEF Paced, Engines
<1>7. CurrentPools
    <2>1. 0 \in Pools
        BY DEF Pools
    <2>2. \A u \in Users : stage[u] \notin Holding
        BY <1>2 DEF Holding
    <2>3. \A e \in Engines : \A b \in Branch : ~Reaches(e, 0, b)
        BY <1>4, <2>1, <2>2 DEF Reaches
    <2> QED BY <1>3, <2>3 DEF CurrentPools
<1>8. WaitedPools /\ HeldOfItsTime
    BY <1>2 DEF WaitedPools, HeldOfItsTime, Holding
<1>9. LateComers /\ StaleSamplesAreLate
    BY <1>2, EngineOfRequest DEF LateComers, StaleSamplesAreLate, BootEngines
<1> QED BY <1>1, <1>5, <1>6, <1>7, <1>8, <1>9 DEF Parts

LEMMA InitServed == ServedInit => SInv
<1> SUFFICES ASSUME ServedInit PROVE SInv
    OBVIOUS
<1>1. DOMAIN seen = Users /\ \A c \in Clients : phase[c] = "idle"
    BY DEF ServedInit, Init
<1>2. IInv
    BY InitIInv DEF ServedInit
<1> QED BY <1>1, <1>2, BootInOrder DEF ServedInit, SInv, Booted

LEMMA DieInOrder ==
    ASSUME SInv, Die, Witnessed
    PROVE  Parts'
<1>1. \A c \in Clients : phase'[c] = "idle"
    BY DEF Die, Crash, CrashInSave, Reboot
<1>2. BootEngines'
    BY DEF Die, BootEngines, NoIdle
<1>3. DOMAIN seen' = Users
    BY DEF Witnessed
<1>4. Booted'
    BY <1>1, <1>2, <1>3 DEF Booted
<1> QED BY <1>4, BootInOrder, PTL

-----------------------------------------------------------------------------
(* A request or probe takes a step; the switch does not.                   *)

\* What a request has seen only grows while it is at work, and has the branch
\* dialled and the active one in it.
LEMMA SeenGrows ==
    ASSUME Witnessed
    PROVE  /\ DOMAIN seen' = Users
           /\ \A u \in Users : stage'[u] # "off" /\ stage[u] # "off"
                => seen'[u] = seen[u] \cup {url', active'}
           /\ \A u \in Users : stage'[u] # "off" /\ stage[u] = "off"
                => seen'[u] = {url, active}
BY DEF Witnessed

Begins(u) ==
    stage[u] = "off" /\ stage'[u] # "off" /\ from'[u] = pool[Engine(u)]

GoesOn(u) ==
    /\ stage[u] # "off" /\ stage'[u] # "off"
    /\ from'[u] = from[u] /\ early'[u] = early[u]
    /\ stage'[u] = "waiting" => stage[u] = "waiting"

Ends(u) == stage'[u] = "off" /\ from'[u] = 0

\* The connection u has now: the one it had, a new one, or one of the pool's.
Connects(u) ==
    \/ stage[u] \in Holding /\ GoesOn(u) /\ on'[u] = on[u]
    \/ on'[u] = url
    \/ stage[u] \notin Holding /\ Reaches(Engine(u), from'[u], on'[u])

\* What a step of u may do.
Moves(u) ==
    /\ UNCHANGED pool
    /\ idle' \in [Engines -> [Pools -> [Branch -> Nat]]]
    /\ stage' \in [Users -> Stages] /\ from' \in [Users -> Pools]
    /\ on' \in [Users -> Branch] /\ DOMAIN early' = Users
    /\ \A w \in Users \ {u} :
         stage'[w] = stage[w] /\ from'[w] = from[w] /\ on'[w] = on[w] /\ early'[w] = early[w]
    /\ \A e \in Engines : \A p \in Pools : \A b \in Branch :
         idle'[e][p][b] > 0 => Reaches(e, p, b)
    /\ stage'[u] \in Holding => Connects(u)
    /\ Begins(u) \/ GoesOn(u) \/ Ends(u)
    /\ \A s \in buffer' :
         s \in buffer \/ (u \in Requests /\ stage[u] = "running" /\ s = <<on[u], early[u]>>)

\* Whatever a pool reaches after the step it reached before, or is dialled.
LEMMA MoveReaches ==
    ASSUME SInv, NEW u \in Users, Moves(u),
           NEW e \in Engines, NEW p \in Pools, NEW b \in Branch, Reaches(e, p, b)'
    PROVE  Reaches(e, p, b) \/ b = url
<1>1. CASE idle'[e][p][b] > 0
    BY <1>1 DEF Moves
<1>2. ASSUME NEW w \in Users, Engine(w) = e, from'[w] = p, stage'[w] \in Holding, on'[w] = b
      PROVE  Reaches(e, p, b) \/ b = url
    <2>1. CASE w # u
        BY <1>2, <2>1 DEF Moves, Reaches
    <2>2. CASE w = u
        BY <1>2, <2>2 DEF Moves, Connects, GoesOn, Reaches
    <2> QED BY <2>1, <2>2
<1> QED BY <1>1, <1>2 DEF Reaches

\* The current pools are all a new request may take a connection from, and a
\* request on its way keeps to the pool it came to.
LEMMA MoveInOrder ==
    ASSUME SInv, NEW u \in Users, Moves(u), UNCHANGED vars, Witnessed
    PROVE  Parts'
<1>0. /\ Typed /\ Fresh /\ Paced /\ CurrentPools /\ WaitedPools /\ HeldOfItsTime
      /\ LateComers /\ StaleSamplesAreLate /\ DialsTheActiveBranch
    BY DEF SInv, Parts, IInv
<1>1. UNCHANGED <<url, active, phase, pool>>
    BY DEF vars, branchVars, requestVars, Moves
<1>2. \A e \in Engines : pool[e] \in Pools
    BY <1>0 DEF Typed
<1>3. Typed'
    BY <1>0, <1>1, SeenGrows DEF Typed, Moves
<1>4. Fresh'
    <2>1. \A w \in Users : from'[w] <= pool[Engine(w)]
        <3> SUFFICES ASSUME NEW w \in Users PROVE from'[w] <= pool[Engine(w)]
            OBVIOUS
        <3>1. from[w] <= pool[Engine(w)] /\ pool[Engine(w)] \in Nat
            BY <1>0, <1>2, EngineOf DEF Fresh, Pools
        <3> QED BY <3>1 DEF Moves, Begins, GoesOn, Ends
    <2>2. \A e \in Engines : \A p \in Pools : \A b \in Branch :
            p > pool[e] => idle'[e][p][b] = 0
        <3> SUFFICES ASSUME NEW e \in Engines, NEW p \in Pools, NEW b \in Branch, p > pool[e]
                     PROVE  idle'[e][p][b] = 0
            OBVIOUS
        <3>1. idle[e][p][b] = 0
            BY <1>0 DEF Fresh
        <3>2. \A w \in Users : Engine(w) = e => from[w] # p
            BY <1>0, <1>2 DEF Fresh, Pools
        <3>3. ~Reaches(e, p, b)
            BY <3>1, <3>2 DEF Reaches
        <3>4. idle'[e] \in [Pools -> [Branch -> Nat]]
            BY DEF Moves
        <3>5. idle'[e][p][b] \in Nat
            BY <3>4
        <3> QED BY <3>3, <3>5 DEF Moves
    <2> QED BY <1>1, <2>1, <2>2 DEF Fresh
<1>5. Paced'
    BY <1>0, <1>1 DEF Paced
<1>6. CurrentPools'
    <2>1. \A e \in Engines : AwaitsDisposal(e)' <=> AwaitsDisposal(e)
        BY <1>1 DEF AwaitsDisposal
    <2>2. \A e \in Engines : \A b \in Branch :
            Reaches(e, pool[e], b)' => Reaches(e, pool[e], b) \/ b = url
        <3> SUFFICES ASSUME NEW e \in Engines, NEW b \in Branch, NEW p \in Pools, p = pool[e],
                            Reaches(e, p, b)'
                     PROVE  Reaches(e, p, b) \/ b = url
            BY <1>1, <1>2 DEF Reaches
        <3> QED BY MoveReaches
    <2> QED BY <1>0, <1>1, <2>1, <2>2 DEF CurrentPools
<1>7. WaitedPools'
    <2> SUFFICES ASSUME NEW w \in Users, stage'[w] = "waiting", NEW b \in Branch,
                        NEW p \in Pools, p = from'[w], Reaches(Engine(w), p, b)'
                 PROVE  b \in seen'[w]
        BY <1>3 DEF WaitedPools, Typed, Reaches
    <2>1. Reaches(Engine(w), p, b) \/ b = url
        BY MoveReaches, EngineOf
    <2>2. CASE stage[w] = "waiting" /\ from[w] = p
        BY <1>0, <1>1, <2>1, <2>2, SeenGrows DEF WaitedPools
    <2>3. CASE ~(stage[w] = "waiting" /\ from[w] = p)
        <3>1. stage[w] = "off" /\ p = pool[Engine(w)]
            BY <2>3 DEF Moves, Begins, GoesOn, Ends
        <3>2. b \in {url, active}
            BY <1>0, <2>1, <3>1, EngineOf DEF CurrentPools
        <3> QED BY <3>1, <3>2, SeenGrows
    <2> QED BY <2>2, <2>3
<1>8. HeldOfItsTime'
    <2> SUFFICES ASSUME NEW w \in Users, stage'[w] \in Holding
                 PROVE  on'[w] \in seen'[w]
        BY DEF HeldOfItsTime
    <2>0. stage'[w] # "off" /\ url \in seen'[w] /\ seen'[w] \subseteq seen'[w] \cup {url, active}
        BY <1>1, SeenGrows DEF Holding
    <2>1. CASE stage[w] \in Holding /\ on'[w] = on[w]
        BY <1>0, <2>0, <2>1, SeenGrows DEF HeldOfItsTime, Holding
    <2>2. CASE on'[w] = url
        BY <2>0, <2>2
    <2>3. CASE w = u /\ stage[u] \notin Holding /\ Reaches(Engine(u), from'[u], on'[u])
        <3>0. on'[u] \in Branch
            BY <1>3 DEF Typed
        <3>1. CASE Begins(u)
            BY <1>0, <2>0, <2>3, <3>0, <3>1, SeenGrows, EngineOf DEF Begins, CurrentPools
        <3>2. CASE GoesOn(u)
            <4>1. stage[u] = "waiting"
                BY <1>0, <2>3, <3>2 DEF GoesOn, Typed, Stages, Holding
            <4>2. on'[u] \in seen[u]
                BY <1>0, <2>3, <3>0, <3>2, <4>1 DEF GoesOn, WaitedPools
            <4> QED BY <2>0, <2>3, <4>1, <4>2, SeenGrows
        <3> QED BY <2>0, <2>3, <3>1, <3>2 DEF Moves, Ends
    <2> QED BY <2>1, <2>2, <2>3 DEF Moves, Connects
<1>9. LateComers'
    BY <1>0, <1>1, EngineOfRequest DEF LateComers, Disposing, Moves, Begins, GoesOn, Ends
<1>10. StaleSamplesAreLate'
    <2> SUFFICES ASSUME \A c \in Clients : ~Disposing(c), NEW s \in buffer'
                 PROVE  s[1] = active \/ s[2] = TRUE
        BY <1>1 DEF StaleSamplesAreLate, Disposing
    <2>1. CASE s \in buffer
        BY <1>0, <2>1 DEF StaleSamplesAreLate
    <2>2. CASE u \in Requests /\ stage[u] = "running" /\ s = <<on[u], early[u]>>
        <3>1. url = active /\ ~AwaitsDisposal("commerce") /\ Engine(u) = "commerce"
            BY <1>0, <2>2, EngineOfRequest DEF DialsTheActiveBranch, AwaitsDisposal, Disposing
        <3>2. early[u] = TRUE \/ from[u] = pool["commerce"]
            BY <1>0, <2>2 DEF LateComers
        <3>3. from[u] = pool["commerce"] => Reaches("commerce", pool["commerce"], on[u])
            BY <2>2, <3>1 DEF Reaches, Holding
        <3>4. from[u] = pool["commerce"] => on[u] = url
            BY <1>0, <3>1, <3>3 DEF CurrentPools, Typed, Engines
        <3> QED BY <2>2, <3>1, <3>2, <3>4
    <2> QED BY <2>1, <2>2 DEF Moves
<1> QED BY <1>3, <1>4, <1>5, <1>6, <1>7, <1>8, <1>9, <1>10 DEF Parts

\* A step that opens no connection and keeps the idle ones it finds.
LEMMA Unpooled ==
    ASSUME Typed, UNCHANGED idle
    PROVE  /\ idle' \in [Engines -> [Pools -> [Branch -> Nat]]]
           /\ \A e \in Engines : \A p \in Pools : \A b \in Branch :
                idle'[e][p][b] > 0 => Reaches(e, p, b)
BY DEF Typed, Reaches

LEMMA TakenWasIdle ==
    ASSUME Typed, NEW e \in Engines, NEW p \in Pools, NEW b \in Branch,
           idle[e][p][b] > 0, Take(e, p, b)
    PROVE  /\ idle' \in [Engines -> [Pools -> [Branch -> Nat]]]
           /\ \A d \in Engines : \A q \in Pools : \A a \in Branch :
                idle'[d][q][a] > 0 => Reaches(d, q, a)
<1> SUFFICES ASSUME NEW d \in Engines, NEW q \in Pools, NEW a \in Branch, idle'[d][q][a] > 0
             PROVE  idle[d][q][a] > 0
    BY TakeLess DEF Reaches
<1>1. idle'[d][q][a] <= idle[d][q][a]
    BY TakeLess
<1>2. idle[d] \in [Pools -> [Branch -> Nat]] /\ idle'[d] \in [Pools -> [Branch -> Nat]]
    BY TakeLess DEF Typed
<1>3. idle[d][q][a] \in Nat /\ idle'[d][q][a] \in Nat
    BY <1>2
<1> QED BY <1>1, <1>3

\* Every step of a request is such a move.
LEMMA UseMoves ==
    ASSUME SInv, NEW u \in Users, Use(u), UNCHANGED vars
    PROVE  Moves(u)
<1> DEFINE e == Engine(u)
<1>0. /\ Typed /\ e \in Engines /\ pool[e] \in Pools /\ from[u] \in Pools /\ on[u] \in Branch
      /\ url \in Branch /\ 0 \in Pools /\ stage[u] \in Stages
    <2>1. Typed /\ url \in Branch
        BY DEF SInv, Parts, IInv, TypeOK
    <2>2. e \in Engines
        BY EngineOf
    <2>3. 0 \in Pools
        BY DEF Pools
    <2> QED BY <2>1, <2>2, <2>3 DEF Typed
<1>1. ASSUME NEW p \in Pools, Dial(u, p), UNCHANGED <<pool, idle, buffer>>, DOMAIN early' = Users,
             \A w \in Users \ {u} : early'[w] = early[w],
             \/ stage[u] = "off" /\ p = pool[e]
             \/ stage[u] # "off" /\ p = from[u] /\ early'[u] = early[u]
      PROVE  Moves(u)
    BY <1>0, <1>1, Unpooled
       DEF Dial, Typed, Stages, Moves, Connects, Begins, GoesOn
<1>2. ASSUME Leave(u), UNCHANGED <<pool, idle, buffer>>
      PROVE  Moves(u)
    BY <1>0, <1>2, Unpooled
       DEF Leave, Typed, Stages, Holding, Branch, Moves, Ends
<1>3. ASSUME NEW p \in Pools, NEW b \in Branch, Reuse(u, p, b), UNCHANGED <<pool, buffer>>,
             DOMAIN early' = Users, \A w \in Users \ {u} : early'[w] = early[w],
             \/ stage[u] = "off" /\ p = pool[e]
             \/ stage[u] = "waiting" /\ p = from[u] /\ early'[u] = early[u]
      PROVE  Moves(u)
    <2>1. /\ idle' \in [Engines -> [Pools -> [Branch -> Nat]]]
          /\ \A d \in Engines : \A q \in Pools : \A a \in Branch :
               idle'[d][q][a] > 0 => Reaches(d, q, a)
        BY <1>0, <1>3, TakenWasIdle DEF Reuse
    <2>2. Reaches(e, p, b)
        BY <1>3 DEF Reuse, Reaches
    <2>3. stage' = [stage EXCEPT ![u] = "pinging"] /\ from' = [from EXCEPT ![u] = p]
          /\ on' = [on EXCEPT ![u] = b]
        BY <1>3 DEF Reuse
    <2>4. Connects(u)
        BY <1>0, <1>3, <2>2, <2>3 DEF Connects, Typed, Holding
    <2> QED BY <1>0, <1>3, <2>1, <2>3, <2>4 DEF Typed, Stages, Moves, Begins, GoesOn
<1>4. ASSUME NEW s \in {"running"}, stage[u] \in Holding, stage' = [stage EXCEPT ![u] = s],
             UNCHANGED <<pool, idle, from, on, early, buffer>>
      PROVE  Moves(u)
    BY <1>0, <1>4, Unpooled DEF Typed, Stages, Holding, Moves, Connects, GoesOn
<1>5. CASE Begin(u)
    <2>1. stage[u] = "off" /\ UNCHANGED <<pool, buffer>> /\ DOMAIN early' = Users
          /\ \A w \in Users \ {u} : early'[w] = early[w]
        BY <1>0, <1>5 DEF Begin, Typed
    <2>2. ASSUME stage' = [stage EXCEPT ![u] = "waiting"], from' = [from EXCEPT ![u] = pool[e]],
                 UNCHANGED <<on, idle>>
          PROVE  Moves(u)
        BY <1>0, <2>1, <2>2, Unpooled DEF Typed, Stages, Holding, Moves, Begins
    <2> QED BY <1>0, <1>1, <1>3, <1>5, <2>1, <2>2 DEF Begin
<1>6. CASE WaitServed(u)
    BY <1>0, <1>3, <1>6 DEF WaitServed, Typed
<1>7. CASE WaitExpires(u)
    BY <1>0, <1>1, <1>2, <1>7 DEF WaitExpires, Typed, poolVars
<1>8. CASE PingAnswers(u)
    BY <1>4, <1>8 DEF PingAnswers, Holding, poolVars
<1>9. CASE PingFails(u)
    BY <1>0, <1>1, <1>9 DEF PingFails, Typed, poolVars
<1>10. CASE Connected(u)
    BY <1>4, <1>10 DEF Connected, Holding, poolVars
<1>11. CASE DialFails(u) \/ Break(u)
    BY <1>2, <1>11 DEF DialFails, Break, poolVars
<1>12. CASE Query(u)
    <2>1. stage[u] = "running" /\ u \in Requests /\ UNCHANGED <<pool, idle, stage, from, on, early>>
          /\ buffer' = buffer \cup {<<on[u], early[u]>>}
        BY <1>12 DEF Query, poolVars, useVars
    <2> QED BY <1>0, <2>1, Unpooled DEF Typed, Holding, Moves, Connects, GoesOn
<1>13. CASE Finish(u)
    <2>1. stage[u] = "running" /\ Leave(u) /\ UNCHANGED <<pool, buffer>>
        BY <1>13 DEF Finish
    <2>2. CASE UNCHANGED idle
        BY <1>2, <2>1, <2>2
    <2>3. CASE Put(e, from[u], on[u])
        <3>1. /\ idle' \in [Engines -> [Pools -> [Branch -> Nat]]]
              /\ \A d \in Engines : \A q \in Pools : \A a \in Branch :
                   idle'[d][q][a] = idle[d][q][a] \/ (d = e /\ q = from[u] /\ a = on[u])
            BY <1>0, <2>3, PutOne
        <3>2. Reaches(e, from[u], on[u])
            BY <2>1 DEF Reaches, Holding
        <3>3. \A d \in Engines : \A q \in Pools : \A a \in Branch :
                idle'[d][q][a] > 0 => Reaches(d, q, a)
            BY <3>1, <3>2 DEF Reaches
        <3> QED BY <1>0, <2>1, <3>1, <3>3 DEF Leave, Typed, Stages, Holding, Branch, Moves, Ends
    <2> QED BY <1>13, <2>2, <2>3 DEF Finish, Put
<1> QED BY <1>5, <1>6, <1>7, <1>8, <1>9, <1>10, <1>11, <1>12, <1>13 DEF Use

-----------------------------------------------------------------------------
(* The switch takes a step; the requests do not.                           *)

LEMMA Quiet ==
    ASSUME SInv, IInv', Witnessed, UNCHANGED <<pool, useVars>>,
           idle' \in [Engines -> [Pools -> [Branch -> Nat]]],
           \A e \in Engines : \A p \in Pools : \A b \in Branch :
             idle'[e][p][b] <= idle[e][p][b],
           Paced', active' = active, buffer' = buffer,
           \/ /\ url' = url /\ \A c \in Clients : Disposing(c)' <=> Disposing(c)
              /\ \A e \in Engines : AwaitsDisposal(e)' <=> AwaitsDisposal(e)
           \/ /\ url = active
              /\ \A e \in Engines : AwaitsDisposal(e)'
              /\ \E c \in Clients : Disposing(c)'
    PROVE  SInv'
<1>0. /\ Typed /\ Fresh /\ Paced /\ CurrentPools /\ WaitedPools /\ HeldOfItsTime
      /\ LateComers /\ StaleSamplesAreLate
    BY DEF SInv, Parts
<1>1. UNCHANGED <<stage, from, on, early>>
    BY DEF useVars
<1>2. Typed'
    BY <1>0, <1>1, SeenGrows DEF Typed
<1>3. \A e \in Engines : \A p \in Pools : \A b \in Branch :
        idle[e][p][b] \in Nat /\ idle'[e][p][b] \in Nat
    <2> SUFFICES ASSUME NEW e \in Engines, NEW p \in Pools, NEW b \in Branch
                 PROVE  idle[e][p][b] \in Nat /\ idle'[e][p][b] \in Nat
        OBVIOUS
    <2>1. idle[e] \in [Pools -> [Branch -> Nat]] /\ idle'[e] \in [Pools -> [Branch -> Nat]]
        BY <1>0 DEF Typed
    <2> QED BY <2>1
<1>4. \A e \in Engines : \A p \in Pools : \A b \in Branch : Reaches(e, p, b)' => Reaches(e, p, b)
    BY <1>1, <1>3 DEF Reaches
<1>5. Fresh'
    BY <1>0, <1>1, <1>3 DEF Fresh
<1>6. CurrentPools'
    <2> SUFFICES ASSUME NEW e \in Engines, NEW b \in Branch, Reaches(e, pool[e], b)
                 PROVE  b \in {url', active} /\ (b = url' \/ AwaitsDisposal(e)')
        BY <1>0, <1>4 DEF CurrentPools, Typed, Reaches
    <2>1. b \in {url, active} /\ (b = url \/ AwaitsDisposal(e))
        BY <1>0 DEF CurrentPools
    <2> QED BY <2>1 DEF AwaitsDisposal
<1>7. WaitedPools' /\ HeldOfItsTime'
    <2>1. \A u \in Users : stage[u] # "off" => seen[u] \subseteq seen'[u]
        BY <1>1, SeenGrows
    <2>2. WaitedPools'
        <3> SUFFICES ASSUME NEW u \in Users, stage[u] = "waiting", NEW b \in Branch,
                            Reaches(Engine(u), from[u], b)'
                     PROVE  b \in seen'[u]
            BY <1>1 DEF WaitedPools, Reaches
        <3>1. Reaches(Engine(u), from[u], b)
            BY <1>0, <1>1, <1>4, EngineOf DEF Typed, Reaches
        <3> QED BY <1>0, <2>1, <3>1 DEF WaitedPools
    <2>3. HeldOfItsTime'
        BY <1>0, <1>1, <2>1 DEF HeldOfItsTime, Holding
    <2> QED BY <2>2, <2>3
<1>8. (\A c \in Clients : ~Disposing(c)') => \A c \in Clients : ~Disposing(c)
    BY DEF Disposing
<1>9. LateComers' /\ StaleSamplesAreLate'
    BY <1>0, <1>1, <1>8, EngineOfRequest DEF LateComers, StaleSamplesAreLate
<1> QED BY <1>0, <1>2, <1>5, <1>6, <1>7, <1>9 DEF SInv, Parts

LEMMA SameDisposals ==
    ASSUME Paced, UNCHANGED pool,
           \A c \in Clients : /\ phase'[c] = "commerce" <=> phase[c] = "commerce"
                              /\ phase'[c] = "health" <=> phase[c] = "health"
    PROVE  /\ Paced'
           /\ \A c \in Clients : Disposing(c)' <=> Disposing(c)
           /\ \A e \in Engines : AwaitsDisposal(e)' <=> AwaitsDisposal(e)
BY DEF Paced, Disposing, AwaitsDisposal

\* Nobody else is past the lock.
LEMMA Alone ==
    ASSUME SInv, NEW c \in Clients, phase[c] \in Inside
    PROVE  \A d \in Clients : phase[d] \in Inside => d = c
BY OneInside DEF SInv, IInv

\* Up to the check's end nothing changes for the pools.
LEMMA BeforeTheFlip ==
    ASSUME SInv, IInv', Witnessed, NEW c \in Clients, UNCHANGED <<poolVars, useVars, buffer>>,
           \/ \E t \in Branch : Request(c, t)
           \/ Refuse(c) \/ StartCheck(c)
           \/ \E code \in {409, 500} : CheckRaises(c, code)
    PROVE  SInv'
<1>1. UNCHANGED <<url, active, pool, idle, buffer>>
    BY DEF Request, Refuse, StartCheck, CheckRaises, branchVars, poolVars
<1>2. phase \in [Clients -> Phases] /\ Serialized
    BY DEF SInv, IInv, TypeOK
<1>3. \A d \in Clients : /\ phase'[d] = "commerce" <=> phase[d] = "commerce"
                         /\ phase'[d] = "health" <=> phase[d] = "health"
    <2>1. ASSUME NEW t \in Branch, Request(c, t)
          PROVE  phase[c] = "idle" /\ phase' = [phase EXCEPT ![c] = "waiting"]
        BY <2>1 DEF Request
    <2>2. ASSUME MayEnter(c) PROVE phase[c] \notin Inside
        BY <1>2, <2>2, LockFreeNobodyInside DEF MayEnter
    <2>3. CASE Refuse(c)
        BY <1>2, <2>2, <2>3 DEF Refuse, Reply, Inside
    <2>4. CASE StartCheck(c)
        BY <1>2, <2>2, <2>4 DEF StartCheck, Inside
    <2>5. ASSUME NEW code \in {409, 500}, CheckRaises(c, code)
          PROVE  phase[c] = "checking" /\ phase' = [phase EXCEPT ![c] = "idle"]
        BY <2>5 DEF CheckRaises, Reply
    <2> QED BY <1>2, <2>1, <2>3, <2>4, <2>5
<1>4. \A e \in Engines : \A p \in Pools : \A b \in Branch : idle'[e][p][b] <= idle[e][p][b]
    <2> SUFFICES ASSUME NEW e \in Engines, NEW p \in Pools, NEW b \in Branch
                 PROVE  idle[e][p][b] \in Nat
        BY <1>1
    <2>1. idle[e] \in [Pools -> [Branch -> Nat]]
        BY DEF SInv, Parts, Typed
    <2> QED BY <2>1
<1> QED BY <1>1, <1>3, <1>4, SameDisposals, Quiet DEF SInv, Parts, Typed

\* The URL flips while both current pools reach the active branch only.
LEMMA CheckPassesInOrder ==
    ASSUME SInv, IInv', Witnessed, NEW c \in Clients, UNCHANGED <<poolVars, useVars, buffer>>,
           CheckPasses(c), pool["commerce"] < MaxPools
    PROVE  SInv'
<1>1. UNCHANGED <<active, pool, idle, buffer>>
    BY DEF CheckPasses, poolVars
<1>2. /\ phase \in [Clients -> Phases] /\ phase[c] = "checking"
      /\ phase' = [phase EXCEPT ![c] = "commerce"] /\ DialsTheActiveBranch
    BY DEF SInv, IInv, TypeOK, CheckPasses
<1>3. \A d \in Clients : phase[d] \notin {"commerce", "health"}
    BY <1>2, Alone DEF Inside
<1>4. url = active
    BY <1>2, <1>3 DEF DialsTheActiveBranch, Disposing
<1>5. Paced'
    BY <1>1, <1>2, <1>3 DEF SInv, Parts, Paced
<1>6. (\A e \in Engines : AwaitsDisposal(e)') /\ \E d \in Clients : Disposing(d)'
    BY <1>2 DEF AwaitsDisposal, Disposing
<1>7. \A e \in Engines : \A p \in Pools : \A b \in Branch : idle'[e][p][b] <= idle[e][p][b]
    <2> SUFFICES ASSUME NEW e \in Engines, NEW p \in Pools, NEW b \in Branch
                 PROVE  idle[e][p][b] \in Nat
        BY <1>1
    <2>1. idle[e] \in [Pools -> [Branch -> Nat]]
        BY DEF SInv, Parts, Typed
    <2> QED BY <2>1
<1> QED BY <1>1, <1>4, <1>5, <1>6, <1>7, Quiet DEF SInv, Parts, Typed

LEMMA CloseIdleInOrder ==
    ASSUME SInv, IInv', Witnessed, NEW c \in Clients, CloseIdle(c)
    PROVE  SInv'
<1>1. UNCHANGED <<url, active, phase, pool, buffer, useVars>>
    BY DEF CloseIdle, vars, branchVars, requestVars
<1>2. PICK b \in Branch : /\ phase[c] \in Engines /\ idle[phase[c]][pool[phase[c]]][b] > 0
                          /\ Take(phase[c], pool[phase[c]], b)
    BY DEF CloseIdle
<1>3. Typed /\ pool[phase[c]] \in Pools
    BY <1>2 DEF SInv, Parts, Typed
<1>4. /\ idle' \in [Engines -> [Pools -> [Branch -> Nat]]]
      /\ \A e \in Engines : \A p \in Pools : \A a \in Branch : idle'[e][p][a] <= idle[e][p][a]
    BY <1>2, <1>3, TakeLess
<1> QED BY <1>1, <1>4, SameDisposals, Quiet DEF SInv, Parts

\* A disposed engine starts on a pool that nobody has used.
LEMMA NewPoolReachesNothing ==
    ASSUME SInv, NEW e \in Engines, Repool(e), pool[e] < MaxPools,
           UNCHANGED <<stage, from, on>>
    PROVE  /\ pool' \in [Engines -> Pools]
           /\ pool'[e] = pool[e] + 1 /\ \A d \in Engines \ {e} : pool'[d] = pool[d]
           /\ \A b \in Branch : ~Reaches(e, pool'[e], b)
           /\ \A d \in Engines : \A p \in Pools : \A b \in Branch :
                Reaches(d, p, b)' <=> Reaches(d, p, b)
           /\ Fresh'
<1>0. Typed /\ Fresh
    BY DEF SInv, Parts
<1>1. pool \in [Engines -> Pools] /\ pool[e] + 1 \in Pools /\ pool' = [pool EXCEPT ![e] = @ + 1]
    BY <1>0 DEF Typed, Repool, Pools
<1>2. /\ pool' \in [Engines -> Pools]
      /\ pool'[e] = pool[e] + 1 /\ \A d \in Engines \ {e} : pool'[d] = pool[d]
    BY <1>1
<1>3. \A b \in Branch : ~Reaches(e, pool'[e], b)
    <2>1. \A b \in Branch : idle[e][pool'[e]][b] = 0
        BY <1>0, <1>1, <1>2 DEF Fresh, Pools
    <2>2. \A w \in Users : Engine(w) = e => from[w] # pool'[e]
        BY <1>0, <1>1, <1>2 DEF Fresh, Pools, Typed
    <2> QED BY <2>1, <2>2 DEF Reaches
<1>4. \A d \in Engines : \A p \in Pools : \A b \in Branch : Reaches(d, p, b)' <=> Reaches(d, p, b)
    BY DEF Reaches, Repool
<1>5. \A d \in Engines : pool[d] <= pool'[d]
    BY <1>1, <1>2 DEF Pools
<1>6. Fresh'
    <2>1. \A u \in Users : from[u] <= pool'[Engine(u)]
        BY <1>0, <1>1, <1>2, <1>5, EngineOf DEF Fresh, Typed, Pools
    <2>2. \A d \in Engines : \A p \in Pools : \A b \in Branch : p > pool'[d] => idle[d][p][b] = 0
        BY <1>0, <1>1, <1>2, <1>5 DEF Fresh, Pools
    <2> QED BY <2>1, <2>2 DEF Fresh, Repool
<1> QED BY <1>2, <1>3, <1>4, <1>6

\* What requests have seen, and hold, is not touched by a new pool.
LEMMA SeenStays ==
    ASSUME SInv, Witnessed, UNCHANGED <<stage, from, on>>,
           \A d \in Engines : \A p \in Pools : \A b \in Branch :
             Reaches(d, p, b)' <=> Reaches(d, p, b)
    PROVE  WaitedPools' /\ HeldOfItsTime' /\ DOMAIN seen' = Users
<1>0. Typed /\ WaitedPools /\ HeldOfItsTime
    BY DEF SInv, Parts
<1>1. \A u \in Users : stage[u] # "off" => seen[u] \subseteq seen'[u]
    BY SeenGrows
<1>2. WaitedPools'
    <2> SUFFICES ASSUME NEW u \in Users, stage[u] = "waiting", NEW b \in Branch,
                        Reaches(Engine(u), from[u], b)'
                 PROVE  b \in seen'[u]
        BY DEF WaitedPools, Reaches
    <2>1. Reaches(Engine(u), from[u], b)
        BY <1>0, EngineOf DEF Typed, Reaches
    <2> QED BY <1>0, <1>1, <2>1 DEF WaitedPools
<1>3. HeldOfItsTime'
    BY <1>0, <1>1 DEF HeldOfItsTime, Holding
<1> QED BY <1>2, <1>3, SeenGrows

LEMMA CommerceDisposedInOrder ==
    ASSUME SInv, IInv', Witnessed, NEW c \in Clients, CommerceDisposed(c), Repool("commerce"),
           UNCHANGED <<useVars, buffer>>
    PROVE  SInv'
<1>0. /\ Typed /\ Fresh /\ Paced /\ CurrentPools
      /\ phase[c] = "commerce" /\ phase \in [Clients -> Phases]
      /\ phase' = [phase EXCEPT ![c] = "health"]
      /\ UNCHANGED <<url, active, stage, from, on, early, idle>>
    BY DEF SInv, Parts, IInv, TypeOK, CommerceDisposed, branchVars, useVars, Repool
<1>1. pool["commerce"] < MaxPools /\ "commerce" \in Engines /\ "health" \in Engines
    BY <1>0 DEF Paced, Engines
<1>2. /\ pool' \in [Engines -> Pools] /\ Fresh'
      /\ pool'["commerce"] = pool["commerce"] + 1 /\ pool'["health"] = pool["health"]
      /\ \A b \in Branch : ~Reaches("commerce", pool'["commerce"], b)
      /\ \A d \in Engines : \A p \in Pools : \A b \in Branch :
           Reaches(d, p, b)' <=> Reaches(d, p, b)
    BY <1>0, <1>1, NewPoolReachesNothing DEF Engines
<1>3. \A d \in Clients : phase[d] \in {"commerce", "health"} => d = c
    BY <1>0, Alone DEF Inside
<1>4. /\ phase'[c] = "health" /\ \A d \in Clients \ {c} : phase'[d] \notin {"commerce", "health"}
    BY <1>0, <1>3
<1>5. Typed' /\ WaitedPools' /\ HeldOfItsTime'
    BY <1>0, <1>2, SeenStays DEF Typed
<1>6. Paced'
    <2>1. pool["commerce"] = pool["health"]
        BY <1>0, <1>3 DEF Paced
    <2> QED BY <1>2, <1>4, <2>1 DEF Paced
<1>7. CurrentPools'
    <2> SUFFICES ASSUME NEW e \in Engines, NEW b \in Branch, Reaches(e, pool'[e], b)
                 PROVE  b \in {url, active} /\ AwaitsDisposal(e)'
        BY <1>0, <1>2 DEF CurrentPools, Reaches
    <2>1. e = "health"
        BY <1>2 DEF Engines
    <2> QED BY <1>0, <1>1, <1>2, <1>4, <2>1 DEF CurrentPools, AwaitsDisposal
<1>8. LateComers' /\ StaleSamplesAreLate'
    BY <1>4 DEF LateComers, StaleSamplesAreLate, Disposing
<1> QED BY <1>2, <1>5, <1>6, <1>7, <1>8 DEF SInv, Parts

\* The last pool is replaced, the branch made active and the buffer cleared:
\* from here on the current pools reach the active branch only.
LEMMA SwitchedInOrder ==
    ASSUME SInv, IInv', Witnessed, NEW c \in Clients,
           Complete(c) \/ \E f \in Contents : SaveRaises(c, f),
           Repool("health"), ClearBuffer, UNCHANGED <<stage, from, on>>
    PROVE  SInv'
<1>0. /\ Typed /\ Fresh /\ Paced /\ CurrentPools /\ DialsTheActiveBranch
      /\ phase[c] = "health" /\ phase \in [Clients -> Phases]
      /\ phase' = [phase EXCEPT ![c] = "idle"]
      /\ UNCHANGED <<url, idle>> /\ active' = target[c]
    BY DEF SInv, Parts, IInv, TypeOK, Complete, SaveRaises, Reply, Repool
<1>1. "commerce" \in Engines /\ "health" \in Engines /\ pool["health"] < MaxPools
    BY <1>0 DEF Paced, Engines, Typed, Pools
<1>2. /\ pool' \in [Engines -> Pools] /\ Fresh'
      /\ pool'["health"] = pool["health"] + 1 /\ pool'["commerce"] = pool["commerce"]
      /\ \A b \in Branch : ~Reaches("health", pool'["health"], b)
      /\ \A d \in Engines : \A p \in Pools : \A b \in Branch :
           Reaches(d, p, b)' <=> Reaches(d, p, b)
    BY <1>0, <1>1, NewPoolReachesNothing DEF Engines
<1>3. \A d \in Clients : phase[d] \in {"commerce", "health"} => d = c
    BY <1>0, Alone DEF Inside
<1>4. \A d \in Clients : phase'[d] \notin {"commerce", "health"}
    BY <1>0, <1>3
<1>5. Typed' /\ WaitedPools' /\ HeldOfItsTime'
    BY <1>0, <1>2, SeenStays DEF Typed, ClearBuffer
<1>6. Paced'
    BY <1>0, <1>2, <1>4 DEF Paced
<1>7. url' = active'
    BY <1>0 DEF DialsTheActiveBranch, Disposing
<1>8. CurrentPools'
    <2> SUFFICES ASSUME NEW e \in Engines, NEW b \in Branch, Reaches(e, pool'[e], b)
                 PROVE  b = url
        BY <1>0, <1>2, <1>7 DEF CurrentPools, Reaches
    <2>1. e = "commerce"
        BY <1>2 DEF Engines
    <2>2. ~AwaitsDisposal("commerce")
        BY <1>0, <1>3 DEF AwaitsDisposal
    <2> QED BY <1>0, <1>1, <1>2, <2>1, <2>2 DEF CurrentPools
<1>9. LateComers'
    <2>1. \A u \in Requests : stage[u] # "off" => early'[u] = TRUE
        BY EngineOfRequest DEF ClearBuffer
    <2> QED BY <2>1 DEF LateComers
<1>10. StaleSamplesAreLate'
    BY DEF ClearBuffer, StaleSamplesAreLate
<1> QED BY <1>2, <1>5, <1>6, <1>8, <1>9, <1>10 DEF SInv, Parts

-----------------------------------------------------------------------------
(* Every step.                                                             *)

LEMMA ServedStepInOrder == SInv /\ [ServedNext]_served => SInv'
<1> SUFFICES ASSUME SInv, [ServedNext]_served PROVE SInv'
    OBVIOUS
<1>0. IInv'
    BY ServedKeepsIInv DEF SInv
<1>1. ASSUME NEW u \in Users, Use(u), UNCHANGED vars, Witnessed PROVE SInv'
    BY <1>0, <1>1, UseMoves, MoveInOrder DEF SInv
<1>2. ASSUME NEW c \in Clients, Switching(c), Witnessed PROVE SInv'
    BY <1>0, <1>2, BeforeTheFlip, CheckPassesInOrder, CloseIdleInOrder,
       CommerceDisposedInOrder, SwitchedInOrder DEF Switching
<1>3. ASSUME Die, Witnessed PROVE SInv'
    BY <1>0, <1>3, DieInOrder DEF SInv
<1>4. CASE UNCHANGED served
    <2> USE DEF served, vars, branchVars, requestVars, poolVars, useVars
    <2>1. /\ Typed' /\ Fresh' /\ Paced'
        BY <1>4 DEF SInv, Parts, Typed, Fresh, Paced
    <2>2. CurrentPools' /\ WaitedPools' /\ HeldOfItsTime'
        BY <1>4 DEF SInv, Parts, CurrentPools, WaitedPools, HeldOfItsTime, Reaches, AwaitsDisposal
    <2>3. LateComers' /\ StaleSamplesAreLate'
        BY <1>4 DEF SInv, Parts, LateComers, StaleSamplesAreLate, Disposing
    <2> QED BY <1>0, <2>1, <2>2, <2>3 DEF SInv, Parts
<1> QED BY <1>1, <1>2, <1>3, <1>4 DEF ServedNext

LEMMA ServedInOrder == ServedSpec => []SInv
BY InitServed, ServedStepInOrder, PTL DEF ServedSpec

\* The histories and the buffer, whose types nothing else rests on.
Histories ==
    /\ buffer \subseteq Branch \X BOOLEAN
    /\ early \in [Users -> BOOLEAN]
    /\ seen \in [Users -> SUBSET Branch]

LEMMA HistoriesStay ==
    ASSUME SInv, Histories, [ServedNext]_served
    PROVE  Histories'
<1>0. on \in [Users -> Branch] /\ {url, active} \subseteq Branch /\ {url', active'} \subseteq Branch
    BY ServedKeepsIInv DEF SInv, IInv, Parts, Typed, TypeOK
<1>1. ASSUME Witnessed PROVE seen' \in [Users -> SUBSET Branch]
    BY <1>0, <1>1 DEF Witnessed, Histories
<1>2. ASSUME NEW u \in Users, Use(u)
      PROVE  buffer' \subseteq Branch \X BOOLEAN /\ early' \in [Users -> BOOLEAN]
    <2>1. \/ early' = early
          \/ early' = [early EXCEPT ![u] = FALSE]
        BY <1>2 DEF Use, Begin, WaitServed, WaitExpires, PingAnswers, PingFails, Connected,
           DialFails, Query, Finish, Break, Leave, useVars
    <2>2. \/ buffer' = buffer
          \/ buffer' = buffer \cup {<<on[u], early[u]>>}
        BY <1>2 DEF Use, Begin, WaitServed, WaitExpires, PingAnswers, PingFails, Connected,
           DialFails, Query, Finish, Break
    <2>3. early' \in [Users -> BOOLEAN]
        BY <2>1 DEF Histories
    <2>4. <<on[u], early[u]>> \in Branch \X BOOLEAN
        BY <1>0 DEF Histories
    <2> QED BY <2>2, <2>3, <2>4 DEF Histories
<1>3. ASSUME ClearBuffer
      PROVE  buffer' \subseteq Branch \X BOOLEAN /\ early' \in [Users -> BOOLEAN]
    BY <1>3 DEF ClearBuffer
<1>4. ASSUME NEW c \in Clients, Switching(c)
      PROVE  buffer' \subseteq Branch \X BOOLEAN /\ early' \in [Users -> BOOLEAN]
    <2>1. UNCHANGED <<buffer, early>> \/ ClearBuffer
        BY <1>4 DEF Switching, CloseIdle, useVars
    <2> QED BY <1>3, <2>1 DEF Histories
<1>5. ASSUME Die
      PROVE  buffer' \subseteq Branch \X BOOLEAN /\ early' \in [Users -> BOOLEAN]
    BY <1>5 DEF Die
<1>6. CASE UNCHANGED served
    BY <1>6 DEF served, useVars, Histories
<1> QED BY <1>1, <1>2, <1>4, <1>5, <1>6 DEF ServedNext, Histories

-----------------------------------------------------------------------------
(* How many connections a pool has.                                        *)

\* The current pool of each engine has no more connections, idle and in use
\* together, than pool_size and max_overflow of core/database.py allow.
PoolsWithinCapacity ==
    \A e \in Engines :
       /\ IsFiniteSet(Occupants(e, pool[e]))
       /\ Idle(e, pool[e]) + Cardinality(Occupants(e, pool[e])) <= Capacity[e]

\* A step of a request moves one connection at most: it takes an idle one,
\* dials one where there is room, gives its own back, or none of these.
LEMMA StillRoom ==
    ASSUME NEW S, IsFiniteSet(S), NEW T, NEW x, NEW i \in Nat, NEW j \in Nat, NEW k \in Nat,
           i + Cardinality(S) <= k,
           \/ T \subseteq S /\ j <= i
           \/ T \subseteq S \cup {x} /\ j + 1 <= i
           \/ T \subseteq S \cup {x} /\ j <= i /\ i + Cardinality(S) < k
           \/ x \in S /\ T \subseteq S \ {x} /\ j <= i + 1
    PROVE  IsFiniteSet(T) /\ j + Cardinality(T) <= k
<1>1. Cardinality(S) \in Nat
    BY FS_CardinalityType
<1>2. /\ IsFiniteSet(S \cup {x}) /\ Cardinality(S \cup {x}) <= Cardinality(S) + 1
      /\ Cardinality(S \cup {x}) \in Nat
    BY <1>1, FS_AddElement
<1>3. /\ IsFiniteSet(S \ {x}) /\ Cardinality(S \ {x}) \in Nat
      /\ x \in S => Cardinality(S \ {x}) + 1 = Cardinality(S)
    <2>1. IsFiniteSet(S \ {x}) /\ (x \in S => Cardinality(S \ {x}) = Cardinality(S) - 1)
        BY FS_RemoveElement
    <2>2. Cardinality(S \ {x}) \in Nat
        BY <2>1, FS_CardinalityType
    <2> QED BY <1>1, <2>1, <2>2
<1>4. ASSUME NEW U, IsFiniteSet(U), T \subseteq U
      PROVE  IsFiniteSet(T) /\ Cardinality(T) <= Cardinality(U) /\ Cardinality(T) \in Nat
    BY <1>4, FS_Subset, FS_CardinalityType
<1>5. CASE T \subseteq S /\ j <= i
    BY <1>1, <1>4, <1>5
<1>6. CASE T \subseteq S \cup {x} /\ (j + 1 <= i \/ (j <= i /\ i + Cardinality(S) < k))
    <2>1. IsFiniteSet(T) /\ Cardinality(T) <= Cardinality(S \cup {x}) /\ Cardinality(T) \in Nat
        BY <1>2, <1>4, <1>6
    <2> QED BY <1>1, <1>2, <1>6, <2>1
<1>7. CASE x \in S /\ T \subseteq S \ {x} /\ j <= i + 1
    <2>1. IsFiniteSet(T) /\ Cardinality(T) <= Cardinality(S \ {x}) /\ Cardinality(T) \in Nat
        BY <1>3, <1>4, <1>7
    <2> QED BY <1>1, <1>3, <1>7, <2>1
<1> QED BY <1>5, <1>6, <1>7

LEMMA IdleType ==
    ASSUME Typed, NEW e \in Engines, NEW p \in Pools
    PROVE  /\ \A b \in Branch : idle[e][p][b] \in Nat
           /\ Idle(e, p) \in Nat
<1>1. idle[e] \in [Pools -> [Branch -> Nat]]
    BY DEF Typed
<1>2. idle[e][p] \in [Branch -> Nat]
    BY <1>1
<1> QED BY <1>2 DEF Idle, Branch

LEMMA TakeSum ==
    ASSUME Typed, NEW e \in Engines, NEW p \in Pools, NEW b \in Branch,
           idle[e][p][b] > 0, Take(e, p, b)
    PROVE  /\ Idle(e, p)' + 1 = Idle(e, p)
           /\ \A d \in Engines : \A q \in Pools : Idle(d, q)' <= Idle(d, q) /\ Idle(d, q)' \in Nat
<1>1. idle[e] \in [Pools -> [Branch -> Nat]] /\ idle \in [Engines -> [Pools -> [Branch -> Nat]]]
    BY DEF Typed
<1>2. idle[e][p] \in [Branch -> Nat]
    BY <1>1
<1>3. idle'[e][p] = [idle[e][p] EXCEPT ![b] = @ - 1]
    BY <1>1 DEF Take
<1>4. /\ idle'[e][p][b] = idle[e][p][b] - 1
      /\ \A a \in Branch \ {b} : idle'[e][p][a] = idle[e][p][a]
    BY <1>2, <1>3
<1>5. Idle(e, p)' + 1 = Idle(e, p)
    <2>1. b \in {"slow", "fast"} /\ idle[e][p]["slow"] \in Nat /\ idle[e][p]["fast"] \in Nat
        BY <1>2 DEF Branch
    <2> QED BY <1>4, <2>1 DEF Idle, Branch
<1>6. ASSUME NEW d \in Engines, NEW q \in Pools
      PROVE  Idle(d, q)' <= Idle(d, q) /\ Idle(d, q)' \in Nat
    <2>1. idle' \in [Engines -> [Pools -> [Branch -> Nat]]]
          /\ \A a \in Branch : idle'[d][q][a] <= idle[d][q][a]
        BY TakeLess
    <2>2. idle'[d] \in [Pools -> [Branch -> Nat]]
        BY <2>1
    <2>3. idle'[d][q] \in [Branch -> Nat] /\ \A a \in Branch : idle[d][q][a] \in Nat
        BY <2>2, IdleType
    <2> QED BY <2>1, <2>3 DEF Idle, Branch
<1> QED BY <1>5, <1>6

LEMMA PutSum ==
    ASSUME Typed, NEW e \in Engines, NEW p \in Pools, NEW b \in Branch, Put(e, p, b)
    PROVE  /\ Idle(e, p)' = Idle(e, p) + 1
           /\ \A d \in Engines : \A q \in Pools :
                (d = e /\ q = p) \/ Idle(d, q)' = Idle(d, q)
<1>1. idle[e] \in [Pools -> [Branch -> Nat]] /\ idle \in [Engines -> [Pools -> [Branch -> Nat]]]
    BY DEF Typed
<1>2. idle[e][p] \in [Branch -> Nat]
    BY <1>1
<1>3. idle'[e][p] = [idle[e][p] EXCEPT ![b] = @ + 1]
    BY <1>1 DEF Put
<1>4. /\ idle'[e][p][b] = idle[e][p][b] + 1
      /\ \A a \in Branch \ {b} : idle'[e][p][a] = idle[e][p][a]
    BY <1>2, <1>3
<1>5. Idle(e, p)' = Idle(e, p) + 1
    <2>1. b \in {"slow", "fast"} /\ idle[e][p]["slow"] \in Nat /\ idle[e][p]["fast"] \in Nat
        BY <1>2 DEF Branch
    <2> QED BY <1>4, <2>1 DEF Idle, Branch
<1>6. ASSUME NEW d \in Engines, NEW q \in Pools, ~(d = e /\ q = p)
      PROVE  Idle(d, q)' = Idle(d, q)
    <2>1. \A a \in Branch : idle'[d][q][a] = idle[d][q][a]
        BY <1>6, PutOne
    <2> QED BY <2>1 DEF Idle, Branch
<1> QED BY <1>5, <1>6

\* Only u can come to a pool or leave one in a step of u.
LEMMA OneMoves ==
    ASSUME NEW u \in Users, Moves(u), NEW e \in Engines, NEW p \in Pools
    PROVE  /\ Occupants(e, p)' \subseteq Occupants(e, p) \cup {u}
           /\ u \notin Occupants(e, p)' => Occupants(e, p)' \subseteq Occupants(e, p) \ {u}
           /\ u \in Occupants(e, p) => Occupants(e, p)' \subseteq Occupants(e, p)
BY DEF Moves, Occupants

LEMMA UseKeepsCapacity ==
    ASSUME SInv, PoolsWithinCapacity, NEW u \in Users, Use(u), UNCHANGED vars
    PROVE  PoolsWithinCapacity'
<1>1. Moves(u) /\ pool' = pool /\ Typed /\ (\A e \in Engines : pool[e] \in Pools)
      /\ from[u] \in Pools /\ on[u] \in Branch
      /\ Engine(u) \in Engines /\ pool[Engine(u)] \in Pools
    BY UseMoves, EngineOf DEF Moves, SInv, Parts, Typed
<1>2. SUFFICES ASSUME NEW e \in Engines, NEW p \in Pools, p = pool[e]
               PROVE  /\ IsFiniteSet(Occupants(e, p)')
                      /\ Idle(e, p)' + Cardinality(Occupants(e, p)') <= Capacity[e]
    BY <1>1 DEF PoolsWithinCapacity, Idle, Occupants
<1> DEFINE S == Occupants(e, p)
           T == Occupants(e, p)'
           i == Idle(e, p)
           j == Idle(e, p)'
<1> SUFFICES IsFiniteSet(T) /\ j + Cardinality(T) <= Capacity[e]
    OBVIOUS
<1>3. /\ T \subseteq S \cup {u}
      /\ u \notin T => T \subseteq S \ {u}
      /\ u \in S => T \subseteq S
    BY <1>1, OneMoves
<1>4. IsFiniteSet(S) /\ i + Cardinality(S) <= Capacity[e] /\ Capacity[e] \in Nat
    BY <1>2 DEF PoolsWithinCapacity
<1>5. i \in Nat /\ j \in Nat
    <2>1. idle' \in [Engines -> [Pools -> [Branch -> Nat]]]
        BY <1>1 DEF Moves
    <2>2. idle'[e] \in [Pools -> [Branch -> Nat]]
        BY <2>1
    <2>3. idle'[e][p] \in [Branch -> Nat]
        BY <1>1, <2>2
    <2>4. j = idle'[e][p]["slow"] + idle'[e][p]["fast"]
        BY DEF Idle
    <2> QED BY <1>1, <2>3, <2>4, IdleType DEF Branch
<1>6. u \in T <=> Engine(u) = e /\ from'[u] = p /\ stage'[u] \in Holding
    BY DEF Occupants
<1>7. u \in S <=> Engine(u) = e /\ from[u] = p /\ stage[u] \in Holding
    BY DEF Occupants
<1>8. SUFFICES \/ T \subseteq S /\ j <= i
               \/ T \subseteq S \cup {u} /\ j + 1 <= i
               \/ T \subseteq S \cup {u} /\ j <= i /\ i + Cardinality(S) < Capacity[e]
               \/ u \in S /\ T \subseteq S \ {u} /\ j <= i + 1
    <2> HIDE DEF S, T, i, j
    <2> QED BY <1>4, <1>5, <1>8, StillRoom
<1>9. ASSUME u \in T => u \in S PROVE T \subseteq S
    BY <1>3, <1>9
<1>10. UNCHANGED idle => j = i
    BY DEF Idle
<1> HIDE DEF S, T, i, j
<1>11. ASSUME NEW q \in Pools, Dial(u, q), UNCHANGED idle, stage[u] \notin Holding, Room(Engine(u), q)
       PROVE  \/ T \subseteq S /\ j <= i
              \/ T \subseteq S \cup {u} /\ j <= i /\ i + Cardinality(S) < Capacity[e]
    <2>1. from'[u] = q
        BY <1>1, <1>11 DEF Dial, Typed
    <2>2. CASE u \in T
        <3>1. i + Cardinality(S) < Capacity[e]
            BY <1>2, <1>6, <1>11, <2>1, <2>2 DEF Room, i, S
        <3> QED BY <1>3, <1>5, <1>10, <1>11, <3>1
    <2> QED BY <1>5, <1>9, <1>10, <1>11, <2>2
<1>12. ASSUME NEW q \in Pools, NEW b \in Branch, Reuse(u, q, b)
       PROVE  \/ T \subseteq S /\ j <= i
              \/ T \subseteq S \cup {u} /\ j + 1 <= i
    <2>1. from'[u] = q
        BY <1>1, <1>12 DEF Reuse, Typed
    <2>2. /\ Engine(u) = e /\ q = p => j + 1 = i
          /\ j <= i
        <3>1. PICK d \in Engines : d = Engine(u)
            BY <1>1
        <3>2. idle[d][q][b] > 0 /\ Take(d, q, b)
            BY <1>12, <3>1 DEF Reuse
        <3>3. Idle(d, q)' + 1 = Idle(d, q) /\ Idle(e, p)' <= Idle(e, p)
            BY <1>1, <3>2, TakeSum
        <3> QED BY <3>1, <3>3 DEF i, j
    <2>3. CASE u \in T
        <3>1. j + 1 = i
            BY <1>6, <2>1, <2>2, <2>3
        <3> QED BY <1>3, <1>5, <3>1
    <2> QED BY <1>9, <2>2, <2>3
<1>13. ASSUME stage[u] \in Holding, from'[u] = from[u], UNCHANGED idle
       PROVE  T \subseteq S /\ j <= i
    BY <1>5, <1>6, <1>7, <1>9, <1>10, <1>13
<1>14. ASSUME stage'[u] \notin Holding, UNCHANGED idle
       PROVE  T \subseteq S /\ j <= i
    BY <1>5, <1>6, <1>9, <1>10, <1>14
<1>15. CASE Begin(u)
    <2>1. stage[u] \notin Holding
        BY <1>15 DEF Begin, Holding
    <2>2. CASE stage' = [stage EXCEPT ![u] = "waiting"] /\ UNCHANGED idle
        BY <1>1, <1>14, <2>2 DEF Typed, Holding
    <2> QED BY <1>1, <1>11, <1>12, <1>15, <2>1, <2>2 DEF Begin
<1>16. CASE WaitServed(u)
    BY <1>1, <1>12, <1>16 DEF WaitServed
<1>17. ASSUME Leave(u) PROVE stage'[u] \notin Holding
    BY <1>1, <1>17 DEF Leave, Typed, Holding
<1>18. CASE WaitExpires(u)
    <2>1. stage[u] \notin Holding
        BY <1>18 DEF WaitExpires, Holding
    <2> QED BY <1>1, <1>11, <1>14, <1>17, <1>18, <2>1 DEF WaitExpires, poolVars
<1>19. CASE PingAnswers(u) \/ PingFails(u) \/ Connected(u)
    <2>1. stage[u] \in Holding /\ UNCHANGED idle
        BY <1>19 DEF PingAnswers, PingFails, Connected, Holding, poolVars
    <2>2. from'[u] = from[u]
        BY <1>1, <1>19 DEF PingAnswers, PingFails, Connected, Dial, Typed
    <2> QED BY <1>13, <2>1, <2>2
<1>20. CASE DialFails(u) \/ Break(u)
    BY <1>14, <1>17, <1>20 DEF DialFails, Break, poolVars
<1>21. CASE Query(u)
    BY <1>13, <1>21 DEF Query, Holding, poolVars, useVars
<1>22. CASE Finish(u)
    <2>1. stage[u] \in Holding /\ stage'[u] \notin Holding
        BY <1>17, <1>22 DEF Finish, Holding
    <2>2. CASE UNCHANGED idle
        BY <1>14, <2>1, <2>2
    <2>3. CASE Put(Engine(u), from[u], on[u])
        <3>1. IF Engine(u) = e /\ from[u] = p THEN j = i + 1 ELSE j = i
            <4>1. PICK d \in Engines, q \in Pools, b \in Branch :
                    d = Engine(u) /\ q = from[u] /\ b = on[u]
                BY <1>1
            <4>2. Put(d, q, b)
                BY <2>3, <4>1
            <4>3. /\ Idle(d, q)' = Idle(d, q) + 1
                  /\ (e = d /\ p = q) \/ Idle(e, p)' = Idle(e, p)
                BY <1>1, <4>2, PutSum
            <4> QED BY <4>1, <4>3 DEF i, j
        <3>2. u \notin T
            BY <1>6, <2>1
        <3>3. CASE u \in S
            <4>1. j = i + 1
                BY <1>7, <3>1, <3>3
            <4> QED BY <1>3, <1>5, <3>2, <3>3, <4>1
        <3>4. CASE u \notin S
            <4>1. j = i
                BY <1>7, <2>1, <3>1, <3>4
            <4> QED BY <1>5, <1>9, <3>2, <4>1
        <3> QED BY <3>3, <3>4
    <2> QED BY <1>22, <2>2, <2>3 DEF Finish, Put
<1> QED BY <1>15, <1>16, <1>18, <1>19, <1>20, <1>21, <1>22 DEF Use

\* A new pool starts empty, and leaves the other engine's alone.
LEMMA RepoolKeepsCapacity ==
    ASSUME SInv, PoolsWithinCapacity, NEW e \in Engines, Repool(e), pool[e] < MaxPools,
           UNCHANGED <<stage, from, on>>
    PROVE  PoolsWithinCapacity'
<1>1. /\ Typed
      /\ pool' \in [Engines -> Pools]
      /\ \A d \in Engines \ {e} : pool'[d] = pool[d]
      /\ \A b \in Branch : ~Reaches(e, pool'[e], b)
      /\ UNCHANGED idle
    BY NewPoolReachesNothing DEF SInv, Parts, Repool
<1>2. SUFFICES ASSUME NEW d \in Engines, NEW q \in Pools, q = pool'[d]
               PROVE  /\ IsFiniteSet(Occupants(d, q))
                      /\ Idle(d, q) + Cardinality(Occupants(d, q)) <= Capacity[d]
    BY <1>1 DEF PoolsWithinCapacity, Idle, Occupants
<1>3. CASE d # e
    BY <1>1, <1>2, <1>3 DEF PoolsWithinCapacity
<1>4. CASE d = e
    <2>1. \A b \in Branch : idle[d][q][b] \in Nat /\ ~Reaches(d, q, b)
        BY <1>1, <1>2, <1>4, IdleType
    <2>2. Idle(d, q) = 0
        BY <2>1 DEF Reaches, Idle, Branch
    <2>3. Occupants(d, q) = {}
        BY <1>1, <2>1 DEF Occupants, Reaches, Typed
    <2>4. IsFiniteSet({}) /\ 0 + Cardinality({}) <= Capacity[d]
        BY FS_EmptySet
    <2> QED BY <2>2, <2>3, <2>4
<1> QED BY <1>3, <1>4

\* A process that starts has no connection.
LEMMA BootedWithinCapacity == BootEngines => PoolsWithinCapacity
<1> SUFFICES ASSUME BootEngines, NEW e \in Engines
             PROVE  /\ IsFiniteSet(Occupants(e, pool[e]))
                    /\ Idle(e, pool[e]) + Cardinality(Occupants(e, pool[e])) <= Capacity[e]
    BY DEF PoolsWithinCapacity
<1>1. pool[e] = 0 /\ 0 \in Pools /\ idle[e] = NoIdle /\ \A u \in Users : stage[u] = "off"
    BY DEF BootEngines, Pools
<1>2. Idle(e, pool[e]) = 0
    BY <1>1 DEF Idle, NoIdle, Branch
<1>3. Occupants(e, pool[e]) = {}
    BY <1>1 DEF Occupants, Holding
<1> QED BY <1>2, <1>3, FS_EmptySet

LEMMA StepKeepsCapacity ==
    ASSUME SInv, PoolsWithinCapacity, [ServedNext]_served
    PROVE  PoolsWithinCapacity'
<1>1. ASSUME NEW c \in Clients, Switching(c) PROVE PoolsWithinCapacity'
    <2>1. CASE UNCHANGED <<poolVars, useVars>>
        BY <2>1 DEF PoolsWithinCapacity, Idle, Occupants, poolVars, useVars
    <2>2. CASE CloseIdle(c)
        <3>1. Typed /\ \A e \in Engines : pool[e] \in Pools
            BY DEF SInv, Parts, Typed
        <3>2. PICK d \in Engines, q \in Pools, b \in Branch :
                idle[d][q][b] > 0 /\ Take(d, q, b)
            BY <2>2, <3>1 DEF CloseIdle
        <3>3. \A e \in Engines : \A p \in Pools :
                Idle(e, p)' <= Idle(e, p) /\ Idle(e, p)' \in Nat
            BY <3>1, <3>2, TakeSum
        <3>4. UNCHANGED <<pool, stage, from>>
            BY <2>2 DEF CloseIdle, useVars
        <3>5. SUFFICES ASSUME NEW e \in Engines, NEW p \in Pools, p = pool[e]
                       PROVE  /\ IsFiniteSet(Occupants(e, p)')
                              /\ Idle(e, p)' + Cardinality(Occupants(e, p)') <= Capacity[e]
            BY <3>1, <3>4 DEF PoolsWithinCapacity, Idle, Occupants
        <3>6. Occupants(e, p)' = Occupants(e, p)
            BY <3>4 DEF Occupants
        <3>7. /\ IsFiniteSet(Occupants(e, p)) /\ Idle(e, p) \in Nat
              /\ Idle(e, p) + Cardinality(Occupants(e, p)) <= Capacity[e]
              /\ Cardinality(Occupants(e, p)) \in Nat /\ Capacity[e] \in Nat
            BY <3>1, <3>5, IdleType, FS_CardinalityType DEF PoolsWithinCapacity
        <3>8. Idle(e, p)' <= Idle(e, p) /\ Idle(e, p)' \in Nat
            BY <3>3
        <3> QED BY <3>6, <3>7, <3>8
    <2>3. CASE CommerceDisposed(c) /\ Repool("commerce") /\ UNCHANGED <<useVars, buffer>>
        <3>1. pool["commerce"] < MaxPools /\ "commerce" \in Engines
            BY <2>3 DEF SInv, Parts, Paced, CommerceDisposed, Engines
        <3> QED BY <2>3, <3>1, RepoolKeepsCapacity DEF useVars
    <2>4. CASE /\ Complete(c) \/ \E f \in Contents : SaveRaises(c, f)
               /\ Repool("health") /\ UNCHANGED <<stage, from, on>>
        <3>1. phase[c] = "health"
            BY <2>4 DEF Complete, SaveRaises
        <3>2. pool["health"] < MaxPools /\ "health" \in Engines
            BY <3>1 DEF SInv, Parts, Paced, Engines, Typed, Pools
        <3> QED BY <2>4, <3>2, RepoolKeepsCapacity
    <2> QED BY <1>1, <2>1, <2>2, <2>3, <2>4 DEF Switching
<1>2. ASSUME Die PROVE PoolsWithinCapacity'
    <2>1. BootEngines'
        BY <1>2 DEF Die, BootEngines, NoIdle
    <2> QED BY <2>1, BootedWithinCapacity, PTL
<1>3. CASE UNCHANGED served
    BY <1>3 DEF served, poolVars, useVars, PoolsWithinCapacity, Idle, Occupants
<1> QED BY <1>1, <1>2, <1>3, UseKeepsCapacity DEF ServedNext

-----------------------------------------------------------------------------
(* Theorems.                                                               *)

\* Whatever requests and pools do, the switch with its engines behaves as
\* BranchSwitch: what is proved of BranchSwitch holds of the composition.
THEOREM ServedSwitches == ServedSpec => Spec
BY ServedStepSwitches, PTL DEF ServedSpec, ServedInit, Spec

\* Every variable of the composition keeps its type; in particular no pool ever
\* counts less than no connection.
THEOREM ServedTypeCorrect == ServedSpec => []ServedTypeOK
<1>1. SInv /\ Histories => ServedTypeOK
    BY DEF SInv, IInv, Parts, Typed, Histories, ServedTypeOK
<1>2. ServedInit => Histories
    BY DEF ServedInit, BootEngines, Histories
<1>3. SInv /\ Histories /\ [ServedNext]_served => Histories'
    BY HistoriesStay
<1> QED BY ServedInOrder, <1>1, <1>2, <1>3, PTL DEF ServedSpec

\* A request runs on a branch that was dialled or active at some moment since
\* it began, also one that waited at a pool while that was replaced.
THEOREM RequestsAreOfTheirTime == ServedSpec => []ServedByABranchOfItsTime
<1>1. SInv => ServedByABranchOfItsTime
    BY DEF SInv, Parts, HeldOfItsTime, Holding, ServedByABranchOfItsTime
<1> QED BY ServedInOrder, <1>1, PTL

\* But for the pools that the switch under way has still to dispose, the current
\* pools lead to the branch that new connections dial.
THEOREM CurrentPoolsAreOnTarget == ServedSpec => []CurrentPoolOnTarget
<1>1. SInv => CurrentPoolOnTarget
    <2> SUFFICES ASSUME SInv, NEW e \in Engines, ~AwaitsDisposal(e)
                 PROVE  /\ \A b \in Branch : idle[e][pool[e]][b] > 0 => b = url
                        /\ \A u \in Users :
                             Engine(u) = e /\ from[u] = pool[e] /\ stage[u] \in Holding
                               => on[u] = url
        BY DEF CurrentPoolOnTarget
    <2>1. Typed /\ \A b \in Branch : Reaches(e, pool[e], b) => b = url
        BY DEF SInv, Parts, CurrentPools
    <2> QED BY <2>1 DEF Reaches, Typed
<1> QED BY ServedInOrder, <1>1, PTL

\* Between switches a sample of the inactive branch is one of a request from
\* before the buffer was cleared: the hook clears after both disposals.
THEOREM SamplesOfTheOldBranchAreLate == ServedSpec => []StaleSamplesAreLate
BY ServedInOrder, PTL DEF SInv, Parts

\* No interleaving of requests, expiries, returns and disposals takes an engine's
\* current pool over its capacity, for any number of requests and any sizes.
THEOREM PoolsKeepWithinCapacity == ServedSpec => []PoolsWithinCapacity
<1>1. ServedInit => PoolsWithinCapacity
    BY BootedWithinCapacity DEF ServedInit
<1> QED BY ServedInOrder, StepKeepsCapacity, <1>1, PTL DEF ServedSpec
\* The composition keeps the promise of BranchRegister, too.
COROLLARY ServedActsAsRegister == ServedSpec => ActsAsRegister
BY ServedSwitches, ImplementsRegister

StepsLeft(s) ==
    CASE s = "waiting" -> 4 [] s = "pinging" -> 3 [] s = "dialing" -> 2
      [] s = "running" -> 1 [] s = "off" -> 0

\* A request keeps to the pool it came to, and while it has no better
\* connection than before it is nearer its end.
GoesForward(u) ==
    \/ stage'[u] = "off"
    \/ /\ from'[u] = from[u]
       /\ \/ stage'[u] = stage[u] /\ on'[u] = on[u]
          \/ StepsLeft(stage'[u]) < StepsLeft(stage[u])

UsesGoForward == [][\A u \in Users : stage[u] # "off" => GoesForward(u)]_served

\* A request that has begun is never sent back to wait or to ping, whichever
\* connections die and whichever pools are replaced under it (get_db and the
\* pools of core/database.py): with the fairness of its own steps, it ends.
THEOREM RequestsGoForward == ServedSpec => UsesGoForward
<1>1. ASSUME SInv, [ServedNext]_served
      PROVE  \A u \in Users : stage[u] # "off" => GoesForward(u)
    <2> SUFFICES ASSUME NEW u \in Users, stage[u] # "off" PROVE GoesForward(u)
        OBVIOUS
    <2>1. Typed
        BY <1>1 DEF SInv, Parts
    <2>2. ASSUME NEW w \in Users, Use(w), UNCHANGED vars PROVE GoesForward(u)
        <3>1. CASE w # u
            BY <1>1, <2>2, <3>1, UseMoves DEF Moves, GoesForward
        <3>2. CASE w = u
            <4>1. ASSUME Dial(u, from[u]), stage[u] \in {"waiting", "pinging"}
                  PROVE  GoesForward(u)
                BY <2>1, <4>1 DEF Dial, Typed, GoesForward, StepsLeft
            <4>2. ASSUME NEW b \in Branch, Reuse(u, from[u], b), stage[u] = "waiting"
                  PROVE  GoesForward(u)
                BY <2>1, <4>2 DEF Reuse, Typed, GoesForward, StepsLeft
            <4>3. ASSUME Leave(u) PROVE GoesForward(u)
                BY <2>1, <4>3 DEF Leave, Typed, GoesForward
            <4>4. CASE Begin(u)
                BY <1>1, <4>4 DEF Begin
            <4>5. CASE WaitServed(u) \/ WaitExpires(u) \/ PingFails(u)
                BY <4>1, <4>2, <4>3, <4>5 DEF WaitServed, WaitExpires, PingFails
            <4>6. CASE PingAnswers(u) \/ Connected(u)
                BY <2>1, <4>6 DEF PingAnswers, Connected, Typed, GoesForward, StepsLeft
            <4>7. CASE Query(u)
                BY <4>7 DEF Query, useVars, GoesForward
            <4>8. CASE DialFails(u) \/ Finish(u) \/ Break(u)
                BY <4>3, <4>8 DEF DialFails, Finish, Break
            <4> QED BY <2>2, <3>2, <4>4, <4>5, <4>6, <4>7, <4>8 DEF Use
        <3> QED BY <3>1, <3>2
    <2>3. CASE UNCHANGED <<stage, from, on>>
        BY <2>3 DEF GoesForward
    <2>4. ASSUME NEW c \in Clients, Switching(c) PROVE GoesForward(u)
        <3>1. UNCHANGED <<stage, from, on>>
            BY <2>4 DEF Switching, CloseIdle, useVars
        <3> QED BY <2>3, <3>1
    <2>5. CASE Die
        BY <1>1, <2>5 DEF Die, GoesForward
    <2>6. CASE UNCHANGED served
        BY <2>3, <2>6 DEF served, useVars
    <2>7. CASE ServedNext
        BY <2>2, <2>4, <2>5, <2>7 DEF ServedNext
    <2> QED BY <1>1, <2>6, <2>7
<1> QED BY ServedInOrder, <1>1, PTL DEF ServedSpec, UsesGoForward
=============================================================================
