---------------------------- MODULE PlatformAuth ----------------------------
(***************************************************************************)
(* The platform-token middleware (core/platform_auth.py), the keys it      *)
(* trusts (core/platform_keys.py) and the checks on a token                *)
(* (core/platform_token.py), for the protected routes.                     *)
(*                                                                         *)
(* bastion's key may have to be fetched.  The fetch is the middleware's    *)
(* only suspension: while it lasts other requests run, start fetches of    *)
(* their own or fill the cache, bastion rotates its key, tokens expire.    *)
(*                                                                         *)
(* `now` is both clocks, time.monotonic() and time.time(), in seconds.     *)
(* Keys are numbered by rotation; two different keys never verify the same *)
(* signature.                                                              *)
(***************************************************************************)
EXTENDS Integers

CONSTANTS
    Requests,        \* requests on protected routes
    Tokens,          \* the claims requests present, with who signed them
    NoToken,
    TTL,             \* _URL_KEY_TTL_S
    LEEWAY_S,
    MAX_LIFETIME_S,
    Horizon,         \* bound: the clock stops here
    Rotations        \* bound: how often bastion changes its key

ASSUME ClockAssumption ==
    /\ TTL \in Nat \ {0}
    /\ LEEWAY_S \in Nat
    /\ MAX_LIFETIME_S \in Nat \ {0}
    /\ Horizon \in Nat
    /\ Rotations \in Nat

BASTION_ISS == "bastion"
FRONTEND_ISS == "slowquery-frontend"
Issuers == {BASTION_ISS, FRONTEND_ISS}

Versions == 0..Rotations
NoKey == -1
FrontendKey == Rotations + 1
Empty == [at |-> 0, key |-> NoKey]

\* Where bastion's key comes from (a malformed value counts as "unset"),
\* whether the frontend's is set, DEMO_MODE, and APP_ENV=test.
Settings == [bastion : {"value", "url", "unset"},
             frontend : BOOLEAN, demo : BOOLEAN, test : BOOLEAN]

Replies == {"none", "unconfigured", "missing", "invalid", "anonymous", "authenticated"}

VARIABLES
    settings,
    now,
    published,       \* the key BASTION_PUBLIC_KEY_URL serves
    cache,           \* _url_cache: when its fetch began, and the key
    stage,           \* stage[r]: "off", "fetching", or "answered" (response on its way)
    began,           \* began[r]: when r reached the middleware
    got,             \* got[r]: the key in the response to r's fetch
    token,           \* token[r]: what r presents
    reply,           \* reply[r]: what the middleware made of r
    retired          \* history: retired[k], when key k was replaced

vars == <<settings, now, published, cache, stage, began, got, token, reply, retired>>

Init ==
    /\ settings \in Settings
    /\ now = 0
    /\ published = 0
    /\ cache = Empty
    /\ stage = [r \in Requests |-> "off"]
    /\ began = [r \in Requests |-> 0]
    /\ got = [r \in Requests |-> NoKey]
    /\ token = [r \in Requests |-> NoToken]
    /\ reply = [r \in Requests |-> "none"]
    /\ retired = [k \in Versions |-> 0]

-----------------------------------------------------------------------------
(* What a token is worth.                                                  *)

\* check_claims.  Which check failed is only logged.
Valid(claims, issuer, t) ==
    /\ claims.iss = issuer
    /\ issuer = FRONTEND_ISS => claims.role = "frontend"
    /\ claims.aud = "slowquery"
    /\ claims.exp \in Int /\ claims.iat \in Int
    /\ claims.exp + LEEWAY_S > t
    /\ claims.iat - LEEWAY_S <= t
    /\ 0 < claims.exp - claims.iat /\ claims.exp - claims.iat <= MAX_LIFETIME_S
    /\ claims.sub # ""

\* load_trusted_keys, b being bastion's key: who may sign what.
Trusted(b) ==
    {<<BASTION_ISS, k>> : k \in {b} \ {NoKey}}
      \cup {<<FRONTEND_ISS, FrontendKey>> : f \in {settings.frontend} \cap {TRUE}}

\* Mutant: DEMO_MODE is looked at before the keys.
VerdictDemoFirst(t, b, at) ==
    IF t = NoToken /\ settings.demo THEN "anonymous"
    ELSE IF Trusted(b) = {} /\ ~settings.test THEN "unconfigured"
    ELSE IF t = NoToken THEN "missing"
    ELSE IF \E k \in Trusted(b) : t.signer = k[2] /\ Valid(t, k[1], at)
           THEN "authenticated" ELSE "invalid"

\* _platform_auth, once the keys are there.
Verdict(t, b, at) ==
    IF Trusted(b) = {} /\ ~settings.test THEN "unconfigured"
    ELSE IF t = NoToken THEN IF settings.demo THEN "anonymous" ELSE "missing"
    ELSE IF \E k \in Trusted(b) : t.signer = k[2] /\ Valid(t, k[1], at)
           THEN "authenticated" ELSE "invalid"

-----------------------------------------------------------------------------
(* A request.                                                              *)

\* Mutant: a cached key is kept until a newer one arrives.
UsableForever == cache.key # NoKey

Usable == cache.key # NoKey /\ now - cache.at < TTL

\* The keys are at hand: from the settings, or from the cache.
ArriveDecided(r, t, b) ==
    /\ CASE settings.bastion = "value" -> b = 0
         [] settings.bastion = "unset" -> b = NoKey
         [] settings.bastion = "url"   -> Usable /\ b = cache.key
    /\ reply' = [reply EXCEPT ![r] = Verdict(t, b, now)]
    /\ UNCHANGED stage

ArriveFetching(r) ==
    /\ settings.bastion = "url" /\ ~Usable
    /\ stage' = [stage EXCEPT ![r] = "fetching"]
    /\ UNCHANGED reply

Arrive(r, t) ==
    /\ stage[r] = "off" /\ reply[r] = "none"
    /\ began' = [began EXCEPT ![r] = now]
    /\ token' = [token EXCEPT ![r] = t]
    /\ (\E b \in Versions \cup {NoKey} : ArriveDecided(r, t, b)) \/ ArriveFetching(r)
    /\ UNCHANGED <<settings, now, published, cache, got, retired>>

\* Mutant: the token is judged by the time at which the request arrived.
ResumeInThePast(r, b) ==
    /\ stage' = [stage EXCEPT ![r] = "off"]
    /\ got' = [got EXCEPT ![r] = NoKey]
    /\ reply' = [reply EXCEPT ![r] = Verdict(token[r], b, began[r])]

\* The fetch is over: with its key, or with none.
Resume(r, b) ==
    /\ stage' = [stage EXCEPT ![r] = "off"]
    /\ got' = [got EXCEPT ![r] = NoKey]
    /\ reply' = [reply EXCEPT ![r] = Verdict(token[r], b, now)]

\* No response, an error status, or no key in it.
FetchFails(r) ==
    /\ stage[r] # "off"
    /\ Resume(r, NoKey)
    /\ UNCHANGED <<settings, now, published, cache, began, token, retired>>

\* bastion answers the fetch; the answer has yet to arrive.
BastionAnswers(r) ==
    /\ stage[r] = "fetching"
    /\ stage' = [stage EXCEPT ![r] = "answered"]
    /\ got' = [got EXCEPT ![r] = published]
    /\ UNCHANGED <<settings, now, published, cache, began, token, reply, retired>>

\* Mutant: the key's age counts from the moment its response arrived.
KeyArrivesNew(r) ==
    /\ stage[r] = "answered"
    /\ cache' = [at |-> now, key |-> got[r]]
    /\ Resume(r, got[r])
    /\ UNCHANGED <<settings, now, published, began, token, retired>>

\* The response is in: the key is cached, over whatever is there by now.
KeyArrives(r) ==
    /\ stage[r] = "answered"
    /\ cache' = [at |-> began[r], key |-> got[r]]
    /\ Resume(r, got[r])
    /\ UNCHANGED <<settings, now, published, began, token, retired>>

\* The rest of the request has run; its connection asks again.
Leave(r) ==
    /\ reply[r] # "none"
    /\ reply' = [reply EXCEPT ![r] = "none"]
    /\ token' = [token EXCEPT ![r] = NoToken]
    /\ began' = [began EXCEPT ![r] = 0]
    /\ UNCHANGED <<settings, now, published, cache, stage, got, retired>>

-----------------------------------------------------------------------------
(* Everything else.                                                        *)

Tick ==
    /\ now < Horizon
    /\ now' = now + 1
    /\ UNCHANGED <<settings, published, cache, stage, began, got, token, reply, retired>>

Rotate ==
    /\ published < Rotations
    /\ published' = published + 1
    /\ retired' = [retired EXCEPT ![published] = now]
    /\ UNCHANGED <<settings, now, cache, stage, began, got, token, reply>>

\* The cache is in memory, and so is whatever was fetching.
Restart ==
    /\ cache' = Empty
    /\ stage' = [r \in Requests |-> "off"]
    /\ began' = [r \in Requests |-> 0]
    /\ got' = [r \in Requests |-> NoKey]
    /\ token' = [r \in Requests |-> NoToken]
    /\ reply' = [r \in Requests |-> "none"]
    /\ UNCHANGED <<settings, now, published, retired>>

Next ==
    \/ \E r \in Requests :
          \/ \E t \in Tokens \cup {NoToken} : Arrive(r, t)
          \/ FetchFails(r)
          \/ BastionAnswers(r)
          \/ KeyArrives(r)
          \/ Leave(r)
    \/ Tick
    \/ Rotate
    \/ Restart

Spec == Init /\ [][Next]_vars

-----------------------------------------------------------------------------
(* Properties.                                                             *)

\* Type invariant.
TypeOK ==
    /\ settings \in Settings
    /\ now \in 0..Horizon
    /\ published \in Versions
    /\ cache \in [at : 0..Horizon, key : Versions \cup {NoKey}]
    /\ stage \in [Requests -> {"off", "fetching", "answered"}]
    /\ began \in [Requests -> 0..Horizon]
    /\ got \in [Requests -> Versions \cup {NoKey}]
    /\ token \in [Requests -> Tokens \cup {NoToken}]
    /\ reply \in [Requests -> Replies]
    /\ retired \in [Versions -> 0..Horizon]

\* Key k was bastion's published key at time t or later.
PublishedSince(k, t) == k = published \/ (k < published /\ retired[k] >= t)

\* A key the service holds, cached or on its way, was still published when
\* the fetch that brought it began, however slow that fetch was and whichever
\* of several responses came last.
HeldKeysAreDated ==
    /\ cache.key # NoKey => PublishedSince(cache.key, cache.at)
    /\ \A r \in Requests :
         stage[r] = "answered" => got[r] # NoKey /\ PublishedSince(got[r], began[r])

\* A key that bastion has replaced admits nobody TTL later: a token is admitted
\* only by a fetched key that was published within the last TTL seconds, or
\* since the request arrived.
ReplacedKeysExpire ==
    [][\A r \in Requests :
          /\ reply[r] = "none" /\ reply'[r] = "authenticated"
          /\ settings.bastion = "url" /\ token'[r].signer # FrontendKey
          => \/ PublishedSince(token'[r].signer, now - TTL + 1)
             \/ PublishedSince(token'[r].signer, began'[r])]_vars

\* A token is admitted only during its life of at most MAX_LIFETIME_S, give or
\* take the leeway, however long the keys took to fetch after it was presented.
AdmittedAlive ==
    [][\A r \in Requests :
          reply[r] = "none" /\ reply'[r] = "authenticated"
            => /\ now < token'[r].exp + LEEWAY_S
               /\ now >= token'[r].iat - LEEWAY_S
               /\ now < token'[r].iat + MAX_LIFETIME_S + LEEWAY_S]_vars

\* With nothing but BASTION_PUBLIC_KEY_URL configured the service fails closed:
\* whatever DEMO_MODE says, any answer but 503 is given with a key in the cache
\* that is less than TTL old or that this request itself has fetched.
FailsClosed ==
    [][\A r \in Requests :
          /\ reply[r] = "none" /\ reply'[r] \notin {"none", "unconfigured"}
          /\ settings.bastion = "url" /\ ~settings.frontend /\ ~settings.test
          => /\ cache'.key # NoKey
             /\ now - cache'.at < TTL \/ cache'.at = began'[r]]_vars
=============================================================================
