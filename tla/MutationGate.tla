---------------------------- MODULE MutationGate ----------------------------
(***************************************************************************)
(* The two mutating endpoints, POST /branches/switch and POST              *)
(* /_slowquery/queries/{id}/force-explain, behind the gates of             *)
(* core/access.py: the cooldown they share and the admin token; and what   *)
(* force-explain (api/routers/dashboard.py) does to the library's store.   *)
(*                                                                         *)
(* Cooldown, admin gate and the validation of the body run without a       *)
(* suspension, in that order.  The switch itself is BranchSwitch; here it  *)
(* is a request that has been let through.  force-explain suspends at each *)
(* call of the store and at the call of the LLM, while the library's own   *)
(* worker stores the plans it captures.                                    *)
(*                                                                         *)
(* A bucket of the cooldown is a text.  Here it is the sequence of its     *)
(* parts between colons, and so are the subjects and addresses it is made  *)
(* of: <<"bastion">> and <<"alice">> make bastion:alice.                   *)
(***************************************************************************)
EXTENDS Integers, Sequences

CONSTANTS
    Requests,
    Callers,         \* who calls: [iss, sub, address, visitor, admin]
    Fingerprints,
    Unknown,         \* an id that is not the form of a fingerprint
    NoOne,           \* no caller
    COOLDOWN_S,      \* DEMO_MUTATION_COOLDOWN_S where it is set
    Horizon          \* bound: the clock stops here

Visitors == {c.visitor : c \in Callers}
Issuers == {"anonymous", "bastion", "slowquery-frontend"}

\* A visitor is one pseudonym for bastion and one address for everybody else;
\* the dashboard's tokens all have the same sub.
ASSUME VisitorAssumption ==
    /\ \A c, d \in Callers :
         (c.visitor = d.visitor)
           <=> /\ c.iss = d.iss
               /\ IF c.iss = "bastion" THEN c.sub = d.sub ELSE c.address = d.address
    /\ \A c \in Callers : c.iss \in Issuers /\ c.admin \in BOOLEAN

ASSUME CooldownAssumption == COOLDOWN_S \in Nat \ {0} /\ Horizon \in Nat

\* The address is whatever the leftmost of X-Forwarded-For says, and the code
\* does not check that it is an address.  An address is one with a first part
\* that is no issuer's name; without that a caller could share any bucket.
ASSUME AddressAssumption ==
    \A c \in Callers :
       /\ c.sub \in Seq(STRING)
       /\ c.address \in Seq(STRING) \ {<<>>}
       /\ c.address[1] \notin Issuers

Never == -1 - COOLDOWN_S

Ids == Fingerprints \cup {Unknown}
Plans == {"none", "captured", "synthetic"}
Stages == {"off", "switching", "readying", "reading", "storing", "asking", "inserting"}
Replies == {"none", "429", "403", "422", "404", "503", "500", "200", "switch"}

VARIABLES
    settings,    \* cooldown (0 disables it), token and llm: set or not
    now,         \* time.monotonic()
    last,        \* CooldownLimiter._last_allowed
    stage,       \* stage[r]: at which await request r stands
    caller,      \* caller[r]
    id,          \* id[r]: the fingerprint force-explain was called with
    reply,       \* reply[r]: the answer to r
    recorded,    \* the fingerprints in the library's store
    plan,        \* plan[f]: the plan stored for f
    admitted,    \* history: when a visitor's last call passed a cooldown
    wrote        \* history: r has stored a plan

request == <<stage, caller, id, reply, wrote>>
limiter == <<last, admitted>>
store == <<recorded, plan>>
vars == <<settings, now, request, limiter, store>>

-----------------------------------------------------------------------------
(* The gates.                                                              *)

\* Mutant: every caller with a token is its token's subject.
KeyBySubject(c) == IF c.iss = "anonymous" THEN c.address ELSE <<c.iss>> \o c.sub

\* rate_limit_key
Key(c) ==
    CASE c.iss = "anonymous" -> c.address
      [] c.iss = "bastion" -> <<c.iss>> \o c.sub
      [] c.iss = "slowquery-frontend" -> <<c.iss>> \o c.address

Keys == {Key(c) : c \in Callers}

Disabled == settings.cooldown = 0

Allowed(k) == Disabled \/ now - last[k] >= settings.cooldown

\* Mutant: a call that is let through does not start a window.
ArmNever(k, allowed) == last

\* What CooldownLimiter.allow leaves behind.
Arm(k, allowed) ==
    IF Disabled \/ ~allowed THEN last ELSE [last EXCEPT ![k] = now]

\* require_admin_token_if_configured
MaySwitch(c) == settings.token => c.admin

\* Mutant: force-explain has the gate of the switch.
MayExplainSoft(c) == settings.token => c.admin

\* require_admin_token
MayExplain(c) == settings.token /\ c.admin

Init ==
    /\ settings \in [cooldown : {0, COOLDOWN_S}, token : BOOLEAN, llm : BOOLEAN]
    /\ now = 0
    /\ last = [k \in Keys |-> Never]
    /\ admitted = [v \in Visitors |-> Never]
    /\ stage = [r \in Requests |-> "off"]
    /\ caller = [r \in Requests |-> NoOne]
    /\ id = [r \in Requests |-> Unknown]
    /\ reply = [r \in Requests |-> "none"]
    /\ wrote = [r \in Requests |-> FALSE]
    /\ recorded = {}
    /\ plan = [f \in Fingerprints |-> "none"]

-----------------------------------------------------------------------------
(* A request arrives.                                                      *)

Enter(r, c, code, to) ==
    /\ stage[r] = "off" /\ reply[r] = "none"
    /\ caller' = [caller EXCEPT ![r] = c]
    /\ reply' = [reply EXCEPT ![r] = code]
    /\ stage' = [stage EXCEPT ![r] = to]

PassCooldown(c) ==
    /\ Allowed(Key(c))
    /\ last' = Arm(Key(c), TRUE)
    /\ admitted' = IF Disabled THEN admitted ELSE [admitted EXCEPT ![c.visitor] = now]

Throttle(r, c) ==
    /\ ~Allowed(Key(c))
    /\ last' = Arm(Key(c), FALSE)
    /\ Enter(r, c, "429", "off")
    /\ UNCHANGED <<settings, now, admitted, id, wrote, store>>

\* 422: the body is checked last.
PostSwitch(r, c) ==
    /\ PassCooldown(c)
    /\ \/ ~MaySwitch(c) /\ Enter(r, c, "403", "off")
       \/ MaySwitch(c) /\ Enter(r, c, "422", "off")
       \/ MaySwitch(c) /\ Enter(r, c, "none", "switching")
    /\ UNCHANGED <<settings, now, id, wrote, store>>

PostExplain(r, c, i) ==
    /\ PassCooldown(c)
    /\ \/ ~MayExplain(c) /\ Enter(r, c, "403", "off")
       \/ MayExplain(c) /\ i = Unknown /\ Enter(r, c, "404", "off")
       \/ MayExplain(c) /\ i # Unknown /\ Enter(r, c, "none", "readying")
    /\ id' = [id EXCEPT ![r] = i]
    /\ UNCHANGED <<settings, now, wrote, store>>

Answer(r, code) ==
    /\ stage' = [stage EXCEPT ![r] = "off"]
    /\ reply' = [reply EXCEPT ![r] = code]

Switched(r) ==
    /\ stage[r] = "switching"
    /\ Answer(r, "switch")
    /\ UNCHANGED <<settings, now, limiter, caller, id, wrote, store>>

\* The caller has its answer and may call again.
Leave(r) ==
    /\ reply[r] # "none"
    /\ reply' = [reply EXCEPT ![r] = "none"]
    /\ caller' = [caller EXCEPT ![r] = NoOne]
    /\ id' = [id EXCEPT ![r] = Unknown]
    /\ wrote' = [wrote EXCEPT ![r] = FALSE]
    /\ UNCHANGED <<settings, now, limiter, stage, store>>

-----------------------------------------------------------------------------
(* force_explain                                                           *)

Step(r, to) == stage' = [stage EXCEPT ![r] = to] /\ UNCHANGED reply

\* runtime.ensure_ready
Ready(r) ==
    /\ stage[r] = "readying"
    /\ Step(r, "reading") \/ Answer(r, "503")
    /\ UNCHANGED <<settings, now, limiter, caller, id, wrote, store>>

\* Mutant: the plan is stored before the fingerprint is known to be recorded.
StoreThenRead(r) ==
    /\ stage[r] = "reading"
    /\ IF id[r] \in recorded THEN Step(r, "storing") ELSE Answer(r, "404")
    /\ plan' = [plan EXCEPT ![id[r]] = "synthetic"]
    /\ wrote' = [wrote EXCEPT ![r] = TRUE]
    /\ UNCHANGED <<settings, now, limiter, caller, id, recorded>>

\* store.get_query
Read(r) ==
    /\ stage[r] = "reading"
    /\ IF id[r] \in recorded THEN Step(r, "storing") ELSE Answer(r, "404")
    /\ UNCHANGED <<settings, now, limiter, caller, id, wrote, store>>

PutPlan(r) ==
    /\ plan' = [plan EXCEPT ![id[r]] = "synthetic"]
    /\ wrote' = [wrote EXCEPT ![r] = TRUE]

\* store.upsert_plan, run_rules, and the choice of what to do with the result.
Store(r) ==
    /\ stage[r] = "storing"
    /\ PutPlan(r)
    /\ \/ Step(r, "inserting")
       \/ settings.llm /\ Step(r, "asking")
       \/ ~settings.llm /\ Answer(r, "200")
    /\ UNCHANGED <<settings, now, limiter, caller, id, recorded>>

\* llm_explain, with a suggestion or without.
Ask(r) ==
    /\ stage[r] = "asking"
    /\ Step(r, "inserting") \/ Answer(r, "200")
    /\ UNCHANGED <<settings, now, limiter, caller, id, wrote, store>>

\* store.insert_suggestions
Insert(r) ==
    /\ stage[r] = "inserting"
    /\ Answer(r, "200")
    /\ UNCHANGED <<settings, now, limiter, caller, id, wrote, store>>

\* A call of the store or of the LLM raises; the plan may be stored already.
Raise(r) ==
    /\ stage[r] \in {"readying", "reading", "storing", "asking", "inserting"}
    /\ Answer(r, "500")
    /\ \/ UNCHANGED <<plan, wrote>>
       \/ stage[r] = "storing" /\ PutPlan(r)
    /\ UNCHANGED <<settings, now, limiter, caller, id, recorded>>

Work(r) == Ready(r) \/ Read(r) \/ Store(r) \/ Ask(r) \/ Insert(r) \/ Raise(r)

-----------------------------------------------------------------------------
(* Everything else.                                                        *)

\* The library records a fingerprint, or stores a plan that EXPLAIN gave it.
Record(f) ==
    /\ recorded' = recorded \cup {f}
    /\ UNCHANGED <<settings, now, request, limiter, plan>>

Capture(f) ==
    /\ f \in recorded
    /\ plan' = [plan EXCEPT ![f] = "captured"]
    /\ UNCHANGED <<settings, now, request, limiter, recorded>>

Tick ==
    /\ now < Horizon
    /\ now' = now + 1
    /\ UNCHANGED <<settings, request, limiter, store>>

\* The limiter is in memory; the store is not.
Restart ==
    /\ last' = [k \in Keys |-> Never]
    /\ admitted' = [v \in Visitors |-> Never]
    /\ stage' = [r \in Requests |-> "off"]
    /\ caller' = [r \in Requests |-> NoOne]
    /\ id' = [r \in Requests |-> Unknown]
    /\ reply' = [r \in Requests |-> "none"]
    /\ wrote' = [r \in Requests |-> FALSE]
    /\ UNCHANGED <<settings, now, store>>

Next ==
    \/ \E r \in Requests :
          \/ \E c \in Callers :
                \/ Throttle(r, c)
                \/ PostSwitch(r, c)
                \/ \E i \in Ids : PostExplain(r, c, i)
          \/ Switched(r)
          \/ Work(r)
          \/ Leave(r)
    \/ \E f \in Fingerprints : Record(f) \/ Capture(f)
    \/ Tick
    \/ Restart

Spec == Init /\ [][Next]_vars

-----------------------------------------------------------------------------
(* Properties.                                                             *)

\* Type invariant.
TypeOK ==
    /\ settings \in [cooldown : {0, COOLDOWN_S}, token : BOOLEAN, llm : BOOLEAN]
    /\ now \in 0..Horizon
    /\ last \in [Keys -> (0..Horizon) \cup {Never}]
    /\ admitted \in [Visitors -> (0..Horizon) \cup {Never}]
    /\ stage \in [Requests -> Stages]
    /\ caller \in [Requests -> Callers \cup {NoOne}]
    /\ id \in [Requests -> Ids]
    /\ reply \in [Requests -> Replies]
    /\ wrote \in [Requests -> BOOLEAN]
    /\ recorded \subseteq Fingerprints
    /\ plan \in [Fingerprints -> Plans]

Idle(r) == stage[r] = "off" /\ reply[r] = "none"

\* In the life of a process, two calls of one visitor that pass the cooldown
\* are a window apart, whichever of the two endpoints they are for, from
\* whichever address a bastion visitor comes, and also when the first of them
\* was then refused, failed or is not answered yet.
AdmittedApart ==
    [][\A r \in Requests :
          Idle(r) /\ caller'[r] # NoOne /\ reply'[r] # "429" /\ settings.cooldown > 0
            => now - admitted[caller'[r].visitor] >= COOLDOWN_S]_vars

\* Nobody is throttled for somebody else's calls, nor for calls that were
\* themselves throttled: a 429 follows a call of the same visitor that passed
\* less than a window ago.  So long as addresses are addresses: see
\* AddressAssumption.
ThrottledForOwnCalls ==
    [][\A r \in Requests :
          Idle(r) /\ reply'[r] = "429"
            => now - admitted[caller'[r].visitor] < settings.cooldown]_vars

\* A plan is replaced by the synthetic one only for a caller with the admin
\* token, on a service that has one configured, and only where the library
\* has recorded the fingerprint.
OverwritesNeedTheToken ==
    [][\A f \in Fingerprints :
          plan[f] # "synthetic" /\ plan'[f] = "synthetic"
            => /\ settings.token /\ f \in recorded
               /\ \E r \in Requests :
                    stage[r] # "off" /\ id[r] = f /\ caller[r].admin]_vars

\* The answer tells what became of the plan: 200 that it was stored, a 4xx or
\* 503 that it was not.  Only a 500 leaves it open.
AnswersTellOfTheWrite ==
    \A r \in Requests :
       /\ reply[r] = "200" => wrote[r]
       /\ reply[r] \in {"429", "403", "422", "404", "503", "switch"} => ~wrote[r]
=============================================================================
