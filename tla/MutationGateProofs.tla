------------------------ MODULE MutationGateProofs ------------------------
(***************************************************************************)
(* Theorems about MutationGate, for any callers whose visitors are told    *)
(* apart as VisitorAssumption says and whose addresses are addresses       *)
(* (AddressAssumption), any fingerprints, any cooldown and any number of   *)
(* requests at once.                                                       *)
(*                                                                         *)
(* The limiter knows buckets, the properties speak of visitors.  They meet *)
(* in BucketsAreVisitors: what the limiter's table says of a bucket is     *)
(* what the history says of its visitor.  ExplainersMay carries what the   *)
(* gates and the read of the store have found out to the await where the   *)
(* plan is written, and StagesTellOfTheWrite from there to the answer.     *)
(***************************************************************************)
EXTENDS MutationGate, SequenceTheorems, TLAPS

Explaining == {"readying", "reading", "storing", "asking", "inserting"}

\* The limiter's table says of a bucket what the history says of its visitor.
BucketsAreVisitors == \A c \in Callers : last[Key(c)] = admitted[c.visitor]

\* A request that is not under way has no caller and has written nothing.
IdleIsBlank == \A r \in Requests : Idle(r) => caller[r] = NoOne /\ ~wrote[r]

\* Whoever has got past the gate of force-explain may be there, and whoever
\* has got past the read of the store asks for a recorded fingerprint.
ExplainersMay ==
    \A r \in Requests :
      /\ stage[r] \in Explaining =>
           /\ settings.token /\ caller[r] \in Callers /\ caller[r].admin
           /\ id[r] \in Fingerprints
      /\ stage[r] \in {"storing", "asking", "inserting"} => id[r] \in recorded

\* How far a request has come tells whether it has stored a plan.
StagesTellOfTheWrite ==
    \A r \in Requests :
      /\ stage[r] # "off" => reply[r] = "none"
      /\ stage[r] \in {"switching", "readying", "reading", "storing"} => ~wrote[r]
      /\ stage[r] \in {"asking", "inserting"} => wrote[r]

IInv ==
    /\ TypeOK
    /\ BucketsAreVisitors
    /\ IdleIsBlank
    /\ ExplainersMay
    /\ StagesTellOfTheWrite
    /\ AnswersTellOfTheWrite

-----------------------------------------------------------------------------
(* Buckets.                                                                *)

\* A text put after an issuer's name begins with it, and differs with the text.
LEMMA Prefixed ==
    ASSUME NEW S, NEW n \in S, NEW s \in Seq(S)
    PROVE  /\ (<<n>> \o s)[1] = n
           /\ \A t \in Seq(S) : <<n>> \o s = <<n>> \o t => s = t
<1>1. <<n>> \in Seq(S) /\ Len(<<n>>) = 1 /\ <<n>>[1] = n
  OBVIOUS
<1>2. Len(s) \in Nat
  BY LenProperties
<1>3. (<<n>> \o s)[1] = n
  <2>1. \A i \in 1 .. Len(<<n>>) + Len(s) :
          (<<n>> \o s)[i] = IF i <= Len(<<n>>) THEN <<n>>[i] ELSE s[i - Len(<<n>>)]
    BY <1>1, ConcatProperties
  <2> QED BY <1>1, <1>2, <2>1
<1>4. \A t \in Seq(S) : <<n>> \o s = <<n>> \o t => s = t
  <2> SUFFICES ASSUME NEW t \in Seq(S), <<n>> \o s = <<n>> \o t PROVE s = t
    OBVIOUS
  <2>1. \A T : \A u, v, w \in Seq(T) : u \o v = u \o w => v = w
    BY ConcatSimplifications, Zenon
  <2> QED BY <1>1, <2>1, Zenon
<1> QED BY <1>3, <1>4

\* The text of a bucket tells the issuer, and then the subject or address.
LEMMA Buckets ==
    ASSUME NEW c \in Callers
    PROVE  /\ c.iss = "anonymous" => Key(c) = c.address /\ Key(c)[1] \notin Issuers
           /\ c.iss = "bastion" => Key(c) = <<"bastion">> \o c.sub /\ Key(c)[1] = "bastion"
           /\ c.iss = "slowquery-frontend" =>
                Key(c) = <<"slowquery-frontend">> \o c.address /\ Key(c)[1] = "slowquery-frontend"
  BY AddressAssumption, Prefixed DEF Key

\* rate_limit_key gives two callers one bucket if and only if they are one
\* visitor, so long as no address begins with an issuer's name.
LEMMA KeyIsVisitor ==
    ASSUME NEW c \in Callers, NEW d \in Callers
    PROVE  Key(c) = Key(d) <=> c.visitor = d.visitor
<1>1. c.iss \in Issuers /\ d.iss \in Issuers
  BY VisitorAssumption
<1>2. CASE c.iss # d.iss
  <2>1. Key(c)[1] # Key(d)[1]
    BY <1>1, <1>2, Buckets DEF Issuers
  <2> QED BY <1>2, <2>1, VisitorAssumption
<1> DEFINE Parts == STRING \cup Issuers
<1>3. /\ c.sub \in Seq(Parts) /\ d.sub \in Seq(Parts)
      /\ c.address \in Seq(Parts) /\ d.address \in Seq(Parts)
  BY AddressAssumption
<1>4. ASSUME NEW n \in Parts, NEW s \in Seq(Parts), NEW t \in Seq(Parts)
      PROVE  <<n>> \o s = <<n>> \o t <=> s = t
  BY Prefixed, Zenon
<1>5. "bastion" \in Parts /\ "slowquery-frontend" \in Parts
  BY DEF Issuers
<1> HIDE DEF Parts
<1>6. CASE c.iss = "bastion" /\ d.iss = "bastion"
  <2>1. Key(c) = <<"bastion">> \o c.sub /\ Key(d) = <<"bastion">> \o d.sub
    BY <1>6, Buckets
  <2>2. <<"bastion">> \o c.sub = <<"bastion">> \o d.sub <=> c.sub = d.sub
    BY <1>3, <1>4, <1>5, Zenon
  <2>3. Key(c) = Key(d) <=> c.sub = d.sub
    BY <2>1, <2>2, Zenon
  <2> QED BY <1>6, <2>3, VisitorAssumption
<1>7. CASE c.iss = "slowquery-frontend" /\ d.iss = "slowquery-frontend"
  <2>1. Key(c) = <<"slowquery-frontend">> \o c.address /\ Key(d) = <<"slowquery-frontend">> \o d.address
    BY <1>7, Buckets
  <2>2. <<"slowquery-frontend">> \o c.address = <<"slowquery-frontend">> \o d.address
          <=> c.address = d.address
    BY <1>3, <1>4, <1>5, Zenon
  <2>3. Key(c) = Key(d) <=> c.address = d.address
    BY <2>1, <2>2, Zenon
  <2> QED BY <1>7, <2>3, VisitorAssumption
<1>8. CASE c.iss = "anonymous" /\ d.iss = "anonymous"
  BY <1>8, Buckets, VisitorAssumption
<1> QED BY <1>1, <1>2, <1>6, <1>7, <1>8 DEF Issuers

LEMMA NeverIsPast == Never \in Int /\ Never < 0
BY CooldownAssumption DEF Never

LEMMA InitIInv == Init => IInv
<1> SUFFICES ASSUME Init PROVE IInv
  OBVIOUS
<1>1. TypeOK
  BY CooldownAssumption DEF Init, TypeOK, Stages, Replies, Plans, Ids
<1>2. BucketsAreVisitors
  BY DEF Init, BucketsAreVisitors, Keys, Visitors
<1>3. IdleIsBlank /\ ExplainersMay /\ StagesTellOfTheWrite /\ AnswersTellOfTheWrite
  BY DEF Init, IdleIsBlank, ExplainersMay, Explaining, StagesTellOfTheWrite, AnswersTellOfTheWrite
<1> QED BY <1>1, <1>2, <1>3 DEF IInv

\* A call that passes the cooldown starts the window of its visitor, and of
\* nobody else.
LEMMA PassStartsTheWindow ==
    ASSUME TypeOK, BucketsAreVisitors, NEW c \in Callers, PassCooldown(c)
    PROVE  /\ last' \in [Keys -> (0..Horizon) \cup {Never}]
           /\ admitted' \in [Visitors -> (0..Horizon) \cup {Never}]
           /\ BucketsAreVisitors'
<1> USE DEF TypeOK
<1>1. CASE Disabled
  BY <1>1 DEF PassCooldown, Arm, BucketsAreVisitors
<1>2. CASE ~Disabled
  <2>1. /\ last' = [last EXCEPT ![Key(c)] = now]
        /\ admitted' = [admitted EXCEPT ![c.visitor] = now]
    BY <1>2 DEF PassCooldown, Arm
  <2>2. \A d \in Callers : Key(d) \in Keys /\ d.visitor \in Visitors
    BY DEF Keys, Visitors
  <2>3. ASSUME NEW d \in Callers PROVE last'[Key(d)] = admitted'[d.visitor]
    BY <2>1, <2>2, KeyIsVisitor DEF BucketsAreVisitors
  <2> QED BY <2>1, <2>3 DEF BucketsAreVisitors
<1> QED BY <1>1, <1>2

-----------------------------------------------------------------------------
(* Every step keeps the invariant.                                         *)

LEMMA ThrottleKeeps ==
    ASSUME IInv, NEW r \in Requests, NEW c \in Callers, Throttle(r, c)
    PROVE  IInv'
<1> USE DEF IInv, TypeOK
<1>1. /\ UNCHANGED <<settings, now, last, admitted, id, wrote, recorded, plan>>
      /\ Enter(r, c, "429", "off")
  BY DEF Throttle, Arm, store
<1>2. TypeOK'
  BY <1>1 DEF Enter, Stages, Replies
<1>3. BucketsAreVisitors'
  BY <1>1 DEF BucketsAreVisitors
<1> QED
  BY <1>1, <1>2, <1>3
     DEF Enter, Idle, IdleIsBlank, ExplainersMay, Explaining, StagesTellOfTheWrite, AnswersTellOfTheWrite

LEMMA SwitchKeeps ==
    ASSUME IInv, NEW r \in Requests, NEW c \in Callers, PostSwitch(r, c)
    PROVE  IInv'
<1> USE DEF IInv, TypeOK
<1>1. /\ UNCHANGED <<settings, now, id, wrote, recorded, plan>>
      /\ PassCooldown(c)
      /\ Enter(r, c, "403", "off") \/ Enter(r, c, "422", "off") \/ Enter(r, c, "none", "switching")
  BY DEF PostSwitch, store
<1>2. TypeOK' /\ BucketsAreVisitors'
  <2>1. stage' \in [Requests -> Stages] /\ reply' \in [Requests -> Replies] /\ caller' \in [Requests -> Callers \cup {NoOne}]
    BY <1>1 DEF Enter, Stages, Replies
  <2> QED BY <1>1, <2>1, PassStartsTheWindow
<1> QED
  BY <1>1, <1>2
     DEF Enter, Idle, IdleIsBlank, ExplainersMay, Explaining, StagesTellOfTheWrite, AnswersTellOfTheWrite

LEMMA ExplainKeeps ==
    ASSUME IInv, NEW r \in Requests, NEW c \in Callers, NEW i \in Ids, PostExplain(r, c, i)
    PROVE  IInv'
<1> USE DEF IInv, TypeOK
<1>1. /\ UNCHANGED <<settings, now, wrote, recorded, plan>>
      /\ PassCooldown(c)
      /\ id' = [id EXCEPT ![r] = i]
      /\ \/ Enter(r, c, "403", "off")
         \/ Enter(r, c, "404", "off")
         \/ Enter(r, c, "none", "readying") /\ settings.token /\ c.admin /\ i \in Fingerprints
  BY DEF PostExplain, store, MayExplain, Ids
<1>2. TypeOK' /\ BucketsAreVisitors'
  <2>1. stage' \in [Requests -> Stages] /\ reply' \in [Requests -> Replies] /\ caller' \in [Requests -> Callers \cup {NoOne}]
    BY <1>1 DEF Enter, Stages, Replies
  <2> QED BY <1>1, <2>1, PassStartsTheWindow
<1> QED
  BY <1>1, <1>2
     DEF Enter, Idle, IdleIsBlank, ExplainersMay, Explaining, StagesTellOfTheWrite, AnswersTellOfTheWrite

LEMMA SwitchedKeeps ==
    ASSUME IInv, NEW r \in Requests, Switched(r)
    PROVE  IInv'
<1> USE DEF IInv, TypeOK
<1>1. /\ UNCHANGED <<settings, now, last, admitted, caller, id, wrote, recorded, plan>>
      /\ stage[r] = "switching" /\ Answer(r, "switch")
  BY DEF Switched, store, limiter
<1>2. TypeOK' /\ BucketsAreVisitors'
  BY <1>1 DEF Answer, Stages, Replies, BucketsAreVisitors
<1> QED
  BY <1>1, <1>2
     DEF Answer, Idle, IdleIsBlank, ExplainersMay, Explaining, StagesTellOfTheWrite, AnswersTellOfTheWrite

LEMMA LeaveKeeps ==
    ASSUME IInv, NEW r \in Requests, Leave(r)
    PROVE  IInv'
<1> USE DEF IInv, TypeOK
<1>1. UNCHANGED <<settings, now, last, admitted, stage, recorded, plan>>
  BY DEF Leave, store, limiter
<1>2. TypeOK' /\ BucketsAreVisitors'
  BY <1>1 DEF Leave, Ids, Replies, BucketsAreVisitors
<1> QED
  BY <1>1, <1>2
     DEF Leave, Idle, IdleIsBlank, ExplainersMay, Explaining, StagesTellOfTheWrite, AnswersTellOfTheWrite

\* What the awaits of force_explain change, and what they have seen before.
Explains(r, to, code, writes) ==
    /\ stage' = [stage EXCEPT ![r] = to]
    /\ reply' = [reply EXCEPT ![r] = code]
    /\ IF writes THEN PutPlan(r) ELSE UNCHANGED <<plan, wrote>>

LEMMA WorkIs ==
    ASSUME IInv, NEW r \in Requests, Work(r)
    PROVE  /\ UNCHANGED <<settings, now, last, admitted, caller, id, recorded>>
           /\ stage[r] \in Explaining
           /\ \/ stage[r] = "readying" /\ Explains(r, "reading", "none", FALSE)
              \/ stage[r] = "readying" /\ Explains(r, "off", "503", FALSE)
              \/ stage[r] = "reading" /\ id[r] \in recorded /\ Explains(r, "storing", "none", FALSE)
              \/ stage[r] = "reading" /\ Explains(r, "off", "404", FALSE)
              \/ stage[r] = "storing" /\ Explains(r, "asking", "none", TRUE)
              \/ stage[r] = "storing" /\ Explains(r, "inserting", "none", TRUE)
              \/ stage[r] = "storing" /\ Explains(r, "off", "200", TRUE)
              \/ stage[r] = "storing" /\ Explains(r, "off", "500", TRUE)
              \/ stage[r] = "asking" /\ Explains(r, "inserting", "none", FALSE)
              \/ stage[r] \in {"asking", "inserting"} /\ Explains(r, "off", "200", FALSE)
              \/ Explains(r, "off", "500", FALSE)
<1>1. reply \in [Requests -> Replies] /\ (stage[r] \in Explaining => reply[r] = "none")
  BY DEF IInv, TypeOK, StagesTellOfTheWrite, Explaining
<1>2. UNCHANGED <<settings, now, last, admitted, caller, id, recorded>>
  BY DEF Work, Ready, Read, Store, Ask, Insert, Raise, limiter, store
<1>3. stage[r] \in Explaining
  BY DEF Work, Ready, Read, Store, Ask, Insert, Raise, Explaining
<1>4. UNCHANGED reply => reply' = [reply EXCEPT ![r] = "none"]
  BY <1>1, <1>3
<1>5. CASE Ready(r) \/ Read(r) \/ Ask(r) \/ Insert(r)
  BY <1>2, <1>3, <1>4, <1>5 DEF Ready, Read, Ask, Insert, Step, Answer, Explains, store
<1>6. CASE Store(r)
  BY <1>2, <1>3, <1>4, <1>6 DEF Store, Step, Answer, Explains
<1>7. CASE Raise(r)
  BY <1>2, <1>3, <1>7 DEF Raise, Answer, Explains
<1> QED BY <1>5, <1>6, <1>7 DEF Work

LEMMA WorkKeeps ==
    ASSUME IInv, NEW r \in Requests, Work(r)
    PROVE  IInv'
<1> USE DEF IInv, TypeOK
<1>1. UNCHANGED <<settings, now, last, admitted, caller, id, recorded>>
  BY WorkIs
<1>2. PICK to \in Stages, code \in Replies, writes \in BOOLEAN :
        /\ Explains(r, to, code, writes)
        /\ stage[r] \in Explaining
        /\ to # "off" => code = "none"
        /\ to \in Explaining \cup {"off"}
        /\ to \in {"asking", "inserting"} => writes \/ stage[r] = "asking"
        /\ to \in {"reading", "storing"} => stage[r] \in {"readying", "reading"} /\ ~writes
        /\ to # "readying"
        /\ writes => stage[r] = "storing"
        /\ to = "storing" => id[r] \in recorded
        /\ to = "off" => code \in {"200", "404", "503", "500"}
        /\ code = "200" => writes \/ stage[r] \in {"asking", "inserting"}
        /\ code \in {"404", "503"} => stage[r] \in {"readying", "reading"} /\ ~writes
  BY WorkIs, Zenon DEF Stages, Replies, Explaining
<1>3. TypeOK' /\ BucketsAreVisitors'
  BY <1>1, <1>2 DEF Explains, PutPlan, BucketsAreVisitors, Plans
<1>4. wrote'[r] = (writes \/ wrote[r]) /\ \A q \in Requests \ {r} : wrote'[q] = wrote[q]
  BY <1>2 DEF Explains, PutPlan
<1>5. /\ stage'[r] = to /\ reply'[r] = code
      /\ \A q \in Requests \ {r} : stage'[q] = stage[q] /\ reply'[q] = reply[q]
  BY <1>2 DEF Explains
<1>6. IdleIsBlank'
  BY <1>1, <1>2, <1>4, <1>5 DEF Idle, IdleIsBlank
<1>7. ExplainersMay'
  BY <1>1, <1>2, <1>5 DEF ExplainersMay, Explaining
<1>8. StagesTellOfTheWrite'
  BY <1>1, <1>2, <1>4, <1>5 DEF StagesTellOfTheWrite, Explaining
<1>9. AnswersTellOfTheWrite'
  BY <1>1, <1>2, <1>4, <1>5 DEF AnswersTellOfTheWrite, StagesTellOfTheWrite, Explaining
<1> QED BY <1>3, <1>6, <1>7, <1>8, <1>9

LEMMA OthersKeep ==
    ASSUME IInv, (\E f \in Fingerprints : Record(f) \/ Capture(f)) \/ Tick \/ Restart
    PROVE  IInv'
<1> USE DEF IInv, TypeOK
<1> USE DEF Idle, IdleIsBlank, BucketsAreVisitors, ExplainersMay, Explaining, StagesTellOfTheWrite, AnswersTellOfTheWrite
<1>1. ASSUME NEW f \in Fingerprints, Record(f) PROVE IInv'
  BY <1>1 DEF Record, request, limiter
<1>2. ASSUME NEW f \in Fingerprints, Capture(f) PROVE IInv'
  BY <1>2 DEF Capture, request, limiter, Plans
<1>3. CASE Tick
  BY <1>3, CooldownAssumption DEF Tick, request, limiter, store
<1>4. CASE Restart
  BY <1>4 DEF Restart, store, Keys, Visitors, Stages, Replies, Ids
<1> QED BY <1>1, <1>2, <1>3, <1>4

LEMMA NextKeeps == IInv /\ [Next]_vars => IInv'
<1>1. IInv /\ UNCHANGED vars => IInv'
  BY DEF vars, request, limiter, store, IInv, TypeOK, Idle, IdleIsBlank, BucketsAreVisitors,
         ExplainersMay, StagesTellOfTheWrite, AnswersTellOfTheWrite
<1> QED
  BY <1>1, ThrottleKeeps, SwitchKeeps, ExplainKeeps, SwitchedKeeps, LeaveKeeps, WorkKeeps, OthersKeep
     DEF Next

LEMMA Invariant == Spec => []IInv
BY InitIInv, NextKeeps, PTL DEF Spec

-----------------------------------------------------------------------------
(* What follows.                                                           *)

\* The gates and the store are well typed, for any callers and fingerprints.
THEOREM TypeCorrect == Spec => []TypeOK
BY Invariant, PTL DEF IInv

\* force_explain answers 200 where it has stored the plan and a 4xx or 503
\* where it has not, however its awaits interleave and whichever of them fails.
THEOREM AnswersAreTrue == Spec => []AnswersTellOfTheWrite
BY Invariant, PTL DEF IInv

\* A request with an answer before it had a caller has passed the gate of one
\* of the two endpoints, or was throttled.
LEMMA WhoEnters ==
    ASSUME IInv, Next, NEW r \in Requests, Idle(r), ~Idle(r)'
    PROVE  \E c \in Callers :
             /\ caller'[r] = c
             /\ \/ PassCooldown(c) /\ reply'[r] # "429"
                \/ ~Allowed(Key(c)) /\ reply'[r] = "429"
<1> USE DEF IInv, TypeOK, Idle
<1>1. PICK q \in Requests :
        \/ \E c \in Callers : Throttle(q, c) \/ PostSwitch(q, c) \/ \E i \in Ids : PostExplain(q, c, i)
        \/ Switched(q) \/ Work(q) \/ Leave(q)
  <2>1. \A f \in Fingerprints : ~Record(f) /\ ~Capture(f)
    BY DEF Record, Capture, request
  <2>2. ~Tick /\ ~Restart
    BY DEF Tick, Restart, request
  <2> QED BY <2>1, <2>2 DEF Next
<1>2. q = r
  BY <1>1 DEF Throttle, PostSwitch, PostExplain, Enter, Switched, Leave, Answer,
              Work, Ready, Read, Store, Ask, Insert, Raise, Step
<1>3. PICK c \in Callers : Throttle(r, c) \/ PostSwitch(r, c) \/ \E i \in Ids : PostExplain(r, c, i)
  BY <1>1, <1>2 DEF Switched, Leave, Work, Ready, Read, Store, Ask, Insert, Raise
<1> QED BY <1>3 DEF Throttle, PostSwitch, PostExplain, Enter

\* Two calls of a visitor that CooldownLimiter lets through are a window apart,
\* whatever their endpoints, addresses and answers are.
THEOREM CallsAreApart == Spec => AdmittedApart
<1> DEFINE Apart ==
      \A r \in Requests :
         Idle(r) /\ caller'[r] # NoOne /\ reply'[r] # "429" /\ settings.cooldown > 0
           => now - admitted[caller'[r].visitor] >= COOLDOWN_S
<1>1. IInv /\ IInv' /\ [Next]_vars => [Apart]_vars
  <2> SUFFICES ASSUME IInv, IInv', Next, NEW r \in Requests,
                      Idle(r), caller'[r] # NoOne, reply'[r] # "429", settings.cooldown > 0
               PROVE  now - admitted[caller'[r].visitor] >= COOLDOWN_S
    OBVIOUS
  <2>1. ~Idle(r)'
    BY DEF IInv, IdleIsBlank
  <2>2. PICK c \in Callers : caller'[r] = c /\ PassCooldown(c)
    BY <2>1, WhoEnters
  <2>3. settings.cooldown = COOLDOWN_S /\ ~Disabled
    BY CooldownAssumption DEF IInv, TypeOK, Disabled
  <2>4. last[Key(c)] = admitted[c.visitor]
    BY DEF IInv, BucketsAreVisitors
  <2> QED BY <2>2, <2>3, <2>4 DEF PassCooldown, Allowed
<1>2. Spec => [][Apart]_vars
  BY <1>1, Invariant, PTL DEF Spec
<1> QED BY <1>2 DEF AdmittedApart

\* A 429 follows a call of the same visitor that was let through less than a
\* window ago: a bucket is nobody else's, and a refusal does not refill it.
THEOREM NobodyPaysForOthers == Spec => ThrottledForOwnCalls
<1> DEFINE Own ==
      \A r \in Requests :
         Idle(r) /\ reply'[r] = "429" => now - admitted[caller'[r].visitor] < settings.cooldown
<1>1. IInv /\ [Next]_vars => [Own]_vars
  <2> SUFFICES ASSUME IInv, Next, NEW r \in Requests, Idle(r), reply'[r] = "429"
               PROVE  now - admitted[caller'[r].visitor] < settings.cooldown
    OBVIOUS
  <2>1. PICK c \in Callers : caller'[r] = c /\ ~Allowed(Key(c))
    BY WhoEnters DEF Idle
  <2>2. last[Key(c)] = admitted[c.visitor] /\ last[Key(c)] \in Int
    BY NeverIsPast, CooldownAssumption DEF IInv, TypeOK, BucketsAreVisitors, Keys
  <2> QED BY <2>1, <2>2, CooldownAssumption DEF Allowed, IInv, TypeOK
<1>2. Spec => [][Own]_vars
  BY <1>1, Invariant, PTL DEF Spec
<1> QED BY <1>2 DEF ThrottledForOwnCalls

\* upsert_plan overwrites a plan only for a caller with the admin token, on a
\* service that has one, and only at a fingerprint the library has recorded.
THEOREM OverwritesAreAuthorised == Spec => OverwritesNeedTheToken
<1> DEFINE Authorised ==
      \A f \in Fingerprints :
         plan[f] # "synthetic" /\ plan'[f] = "synthetic"
           => /\ settings.token /\ f \in recorded
              /\ \E r \in Requests : stage[r] # "off" /\ id[r] = f /\ caller[r].admin
<1>1. IInv /\ [Next]_vars => [Authorised]_vars
  <2> SUFFICES ASSUME IInv, Next, NEW f \in Fingerprints, plan[f] # "synthetic", plan'[f] = "synthetic"
               PROVE  /\ settings.token /\ f \in recorded
                      /\ \E r \in Requests : stage[r] # "off" /\ id[r] = f /\ caller[r].admin
    OBVIOUS
  <2>1. PICK r \in Requests : Work(r)
    <3>1. \A g \in Fingerprints : ~Record(g) /\ ~Capture(g)
      BY DEF Record, Capture, IInv, TypeOK
    <3> QED BY <3>1 DEF Next, Tick, Restart, Throttle, PostSwitch, PostExplain, Switched, Leave, store
  <2>2. stage[r] = "storing" /\ PutPlan(r)
    BY <2>1, WorkIs DEF Explains
  <2>3. id[r] = f
    BY <2>2 DEF PutPlan, IInv, TypeOK
  <2> QED BY <2>2, <2>3 DEF IInv, ExplainersMay, Explaining
<1>2. Spec => [][Authorised]_vars
  BY <1>1, Invariant, PTL DEF Spec
<1> QED BY <1>2 DEF OverwritesNeedTheToken
=============================================================================
