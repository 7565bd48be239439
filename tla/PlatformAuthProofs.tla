------------------------- MODULE PlatformAuthProofs -------------------------
(***************************************************************************)
(* Proofs about PlatformAuth: for any number of requests, any tokens, any  *)
(* TTL, leeway and lifetime, and under every configuration.                *)
(*                                                                         *)
(* HeldKeysAreDated is inductive once nothing is known to begin in the     *)
(* future (TimesArePast): when bastion rotates its key, the key that is    *)
(* replaced was published until now, hence since any fetch under way or    *)
(* done began.                                                             *)
(***************************************************************************)
EXTENDS PlatformAuth, TLAPS

TimesArePast == cache.at <= now /\ \A r \in Requests : began[r] <= now

IInv == TypeOK /\ HeldKeysAreDated /\ TimesArePast

\* A verdict is one of the middleware's replies.
LEMMA VerdictIsReply ==
    ASSUME NEW t, NEW b, NEW at
    PROVE  Verdict(t, b, at) \in Replies \ {"none"}
BY DEF Verdict, Replies

\* Who is authenticated, and on what grounds.
LEMMA AuthenticatedMeans ==
    ASSUME NEW t, NEW b, NEW at, Verdict(t, b, at) = "authenticated"
    PROVE  \/ t.signer = FrontendKey /\ Valid(t, FRONTEND_ISS, at)
           \/ t.signer = b /\ b # NoKey /\ Valid(t, BASTION_ISS, at)
BY DEF Verdict, Trusted

-----------------------------------------------------------------------------
LEMMA InitIInv == Init => IInv
<1> SUFFICES ASSUME Init PROVE IInv
  OBVIOUS
<1>1. TypeOK
  BY ClockAssumption DEF Init, TypeOK, Empty, Versions, NoKey, Replies
<1>2. HeldKeysAreDated /\ TimesArePast
  BY ClockAssumption DEF Init, HeldKeysAreDated, TimesArePast, Empty
<1> QED BY <1>1, <1>2 DEF IInv

LEMMA StepTypeOK == TypeOK /\ [Next]_vars => TypeOK'
<1> SUFFICES ASSUME TypeOK, [Next]_vars PROVE TypeOK'
  OBVIOUS
<1> USE ClockAssumption
<1>1. ASSUME NEW r \in Requests, NEW t \in Tokens \cup {NoToken}, Arrive(r, t)
      PROVE  TypeOK'
  <2>1. CASE \E b \in Versions \cup {NoKey} : ArriveDecided(r, t, b)
    BY <1>1, <2>1, VerdictIsReply DEF Arrive, ArriveDecided, TypeOK
  <2>2. CASE ArriveFetching(r)
    BY <1>1, <2>2 DEF Arrive, ArriveFetching, TypeOK
  <2> QED BY <1>1, <2>1, <2>2 DEF Arrive
<1>2. ASSUME NEW r \in Requests, FetchFails(r)
      PROVE  TypeOK'
  BY <1>2, VerdictIsReply DEF FetchFails, Resume, TypeOK
<1>3. ASSUME NEW r \in Requests, BastionAnswers(r)
      PROVE  TypeOK'
  BY <1>3 DEF BastionAnswers, TypeOK
<1>4. ASSUME NEW r \in Requests, KeyArrives(r)
      PROVE  TypeOK'
  BY <1>4, VerdictIsReply DEF KeyArrives, Resume, TypeOK
<1>5. ASSUME NEW r \in Requests, Leave(r)
      PROVE  TypeOK'
  BY <1>5 DEF Leave, TypeOK, Replies
<1>6. CASE Tick
  BY <1>6 DEF Tick, TypeOK
<1>7. CASE Rotate
  BY <1>7 DEF Rotate, TypeOK, Versions
<1>8. CASE Restart
  BY <1>8 DEF Restart, TypeOK, Empty, Replies
<1>9. CASE UNCHANGED vars
  BY <1>9 DEF vars, TypeOK
<1> QED BY <1>1, <1>2, <1>3, <1>4, <1>5, <1>6, <1>7, <1>8, <1>9 DEF Next

LEMMA StepIInv == IInv /\ [Next]_vars => IInv'
<1> SUFFICES ASSUME IInv, [Next]_vars PROVE IInv'
  OBVIOUS
<1> USE ClockAssumption DEF IInv
<1>0. TypeOK /\ TypeOK'
  BY StepTypeOK
<1>a. now \in Int /\ published \in Int /\ cache.at \in Int
      /\ \A r \in Requests : began[r] \in Int
  BY <1>0 DEF TypeOK, Versions
<1>1. ASSUME NEW r \in Requests, NEW t \in Tokens \cup {NoToken}, Arrive(r, t)
      PROVE  HeldKeysAreDated' /\ TimesArePast'
  <2>1. /\ UNCHANGED <<now, published, cache, got, retired>>
        /\ began' = [began EXCEPT ![r] = now]
        /\ stage[r] = "off"
        /\ stage' = stage \/ stage' = [stage EXCEPT ![r] = "fetching"]
    BY <1>1 DEF Arrive, ArriveDecided, ArriveFetching
  <2>2. ASSUME NEW s \in Requests, stage'[s] = "answered"
        PROVE  s # r /\ stage[s] = "answered"
    BY <1>0, <2>1, <2>2 DEF TypeOK
  <2> QED BY <1>0, <1>a, <2>1, <2>2 DEF HeldKeysAreDated, TimesArePast, PublishedSince, TypeOK
<1>2. ASSUME NEW r \in Requests, FetchFails(r)
      PROVE  HeldKeysAreDated' /\ TimesArePast'
  BY <1>2, <1>0 DEF FetchFails, Resume, HeldKeysAreDated, TimesArePast, PublishedSince, TypeOK
<1>3. ASSUME NEW r \in Requests, BastionAnswers(r)
      PROVE  HeldKeysAreDated' /\ TimesArePast'
  <2>1. published # NoKey
    BY <1>0 DEF TypeOK, Versions, NoKey
  <2> QED
    BY <1>3, <1>0, <2>1 DEF BastionAnswers, HeldKeysAreDated, TimesArePast, PublishedSince, TypeOK
<1>4. ASSUME NEW r \in Requests, KeyArrives(r)
      PROVE  HeldKeysAreDated' /\ TimesArePast'
  BY <1>4, <1>0 DEF KeyArrives, Resume, HeldKeysAreDated, TimesArePast, PublishedSince, TypeOK
<1>5. ASSUME NEW r \in Requests, Leave(r)
      PROVE  HeldKeysAreDated' /\ TimesArePast'
  BY <1>5, <1>0, <1>a DEF Leave, HeldKeysAreDated, TimesArePast, PublishedSince, TypeOK
<1>6. CASE Tick
  BY <1>6, <1>0, <1>a DEF Tick, HeldKeysAreDated, TimesArePast, PublishedSince
<1>7. CASE Rotate
  <2>1. ASSUME NEW k \in Versions, NEW t \in Int, t <= now, PublishedSince(k, t)
        PROVE  PublishedSince(k, t)'
    BY <1>7, <1>0, <1>a, <2>1 DEF Rotate, PublishedSince, TypeOK, Versions
  <2>2. cache.key # NoKey => cache.key \in Versions
    BY <1>0 DEF TypeOK
  <2>3. \A s \in Requests : got[s] # NoKey => got[s] \in Versions
    BY <1>0 DEF TypeOK
  <2>4. UNCHANGED <<now, cache, stage, began, got>>
    BY <1>7 DEF Rotate
  <2>5. TimesArePast'
    BY <2>4 DEF TimesArePast
  <2>6. cache'.key # NoKey => PublishedSince(cache.key, cache.at)'
    BY <1>a, <2>1, <2>2, <2>4 DEF HeldKeysAreDated, TimesArePast
  <2>7. ASSUME NEW s \in Requests, stage'[s] = "answered"
        PROVE  got'[s] # NoKey /\ PublishedSince(got[s], began[s])'
    BY <1>a, <2>1, <2>3, <2>4, <2>7 DEF HeldKeysAreDated, TimesArePast
  <2> QED BY <1>0, <2>5, <2>6, <2>7 DEF HeldKeysAreDated
<1>8. CASE Restart
  BY <1>8, <1>0, <1>a DEF Restart, HeldKeysAreDated, TimesArePast, Empty, TypeOK
<1>9. CASE UNCHANGED vars
  BY <1>0, <1>9 DEF vars, HeldKeysAreDated, TimesArePast, PublishedSince
<1> QED BY <1>0, <1>1, <1>2, <1>3, <1>4, <1>5, <1>6, <1>7, <1>8, <1>9 DEF Next

LEMMA IInvariant == Spec => []IInv
BY InitIInv, StepIInv, PTL DEF Spec

\* The type invariant.
THEOREM TypeCorrect == Spec => []TypeOK
BY IInvariant, PTL DEF IInv

\* Every key held was published when its fetch began, or later.
THEOREM KeysAreDated == Spec => []HeldKeysAreDated
BY IInvariant, PTL DEF IInv

-----------------------------------------------------------------------------
(* What an admission rests on.                                             *)

\* A request that has just been answered was judged now, with a key it got in
\* one of the four ways.
LEMMA WhoIsAnswered ==
    ASSUME IInv, Next, NEW r \in Requests, reply[r] = "none", reply'[r] # "none"
    PROVE  \E b \in Versions \cup {NoKey} :
             /\ reply'[r] = Verdict(token'[r], b, now)
             /\ \/ settings.bastion # "url"
                \/ b = NoKey
                \/ Usable /\ b = cache.key /\ cache' = cache
                \/ /\ stage[r] = "answered" /\ b = got[r]
                   /\ began' = began /\ cache' = [at |-> began[r], key |-> got[r]]
<1> USE DEF IInv
<1>1. ASSUME NEW s \in Requests, NEW t \in Tokens \cup {NoToken}, Arrive(s, t)
      PROVE  s = r /\ token'[r] = t /\ cache' = cache
             /\ \E b \in Versions \cup {NoKey} : ArriveDecided(s, t, b)
  BY <1>1 DEF Arrive, ArriveDecided, ArriveFetching, TypeOK
<1>2. ASSUME NEW t \in Tokens \cup {NoToken}, NEW b \in Versions \cup {NoKey}, ArriveDecided(r, t, b)
      PROVE  /\ reply'[r] = Verdict(t, b, now)
             /\ \/ settings.bastion # "url"
                \/ Usable /\ b = cache.key
  <2>1. reply'[r] = Verdict(t, b, now)
    BY <1>2 DEF ArriveDecided, TypeOK
  <2>2. CASE settings.bastion = "url"
    BY <1>2, <2>2 DEF ArriveDecided
  <2> QED BY <2>1, <2>2
<1>3. ASSUME NEW s \in Requests, FetchFails(s)
      PROVE  s = r /\ token'[r] = token[r] /\ reply'[r] = Verdict(token[r], NoKey, now)
  BY <1>3 DEF FetchFails, Resume, TypeOK
<1>4. ASSUME NEW s \in Requests, KeyArrives(s)
      PROVE  /\ s = r /\ stage[r] = "answered" /\ began' = began
             /\ cache' = [at |-> began[r], key |-> got[r]]
             /\ token'[r] = token[r] /\ reply'[r] = Verdict(token[r], got[r], now)
             /\ got[r] \in Versions \cup {NoKey}
  BY <1>4 DEF KeyArrives, Resume, TypeOK
<1>5. ASSUME NEW s \in Requests, BastionAnswers(s) \/ Leave(s)
      PROVE  FALSE
  BY <1>5 DEF BastionAnswers, Leave, TypeOK
<1>6. ~(Tick \/ Rotate \/ Restart)
  BY DEF Tick, Rotate, Restart
<1>7. CASE \E s \in Requests, t \in Tokens \cup {NoToken} : Arrive(s, t)
  BY <1>1, <1>2, <1>7
<1>8. CASE \E s \in Requests : FetchFails(s)
  BY <1>3, <1>8
<1>9. CASE \E s \in Requests : KeyArrives(s)
  BY <1>4, <1>9
<1> QED BY <1>5, <1>6, <1>7, <1>8, <1>9 DEF Next

\* What PublishedSince says of an earlier time, it says of a later one's past.
LEMMA PublishedSinceEarlier ==
    ASSUME TypeOK, NEW k \in Versions, NEW s \in Int, NEW t \in Int, t <= s, PublishedSince(k, s)
    PROVE  PublishedSince(k, t)
<1>1. retired[k] \in Int
  BY DEF TypeOK
<1> QED BY <1>1 DEF PublishedSince

LEMMA StepReplacedKeysExpire ==
    ASSUME IInv, Next, NEW r \in Requests,
           reply[r] = "none", reply'[r] = "authenticated",
           settings.bastion = "url", token'[r].signer # FrontendKey
    PROVE  \/ PublishedSince(token'[r].signer, now - TTL + 1)
           \/ PublishedSince(token'[r].signer, began'[r])
<1> USE DEF IInv
<1>1. PICK b \in Versions \cup {NoKey} :
        /\ Verdict(token'[r], b, now) = "authenticated"
        /\ \/ b = NoKey
           \/ Usable /\ b = cache.key
           \/ stage[r] = "answered" /\ b = got[r] /\ began' = began
  BY WhoIsAnswered
<1>2. token'[r].signer = b /\ b # NoKey
  BY <1>1, AuthenticatedMeans
<1>3. CASE Usable /\ b = cache.key
  <2>1. PublishedSince(b, cache.at)
    BY <1>3 DEF HeldKeysAreDated, Usable
  <2>2. cache.at \in Int /\ now \in Int /\ TTL \in Int /\ now - TTL + 1 <= cache.at
    BY <1>3, ClockAssumption DEF TypeOK, Usable
  <2>3. b \in Versions
    BY <1>2
  <2> QED BY <1>2, <2>1, <2>2, <2>3, PublishedSinceEarlier
<1>4. CASE stage[r] = "answered" /\ b = got[r] /\ began' = began
  BY <1>2, <1>4 DEF HeldKeysAreDated
<1> QED BY <1>1, <1>2, <1>3, <1>4

\* A key that bastion has replaced admits nobody TTL later.
THEOREM ReplacedKeysAreForgotten == Spec => ReplacedKeysExpire
<1>1. IInv /\ [Next]_vars
        => [\A r \in Requests :
              /\ reply[r] = "none" /\ reply'[r] = "authenticated"
              /\ settings.bastion = "url" /\ token'[r].signer # FrontendKey
              => \/ PublishedSince(token'[r].signer, now - TTL + 1)
                 \/ PublishedSince(token'[r].signer, began'[r])]_vars
  BY StepReplacedKeysExpire
<1> QED BY <1>1, IInvariant, PTL DEF Spec, ReplacedKeysExpire

\* Without a key the only answer is 503: a URL alone, and no fetched key that
\* is less than TTL old, closes the service, whatever DEMO_MODE says.
THEOREM ClosedWithoutAKey == Spec => FailsClosed
<1>1. ASSUME IInv, Next, NEW r \in Requests,
             reply[r] = "none", reply'[r] \notin {"none", "unconfigured"},
             settings.bastion = "url", ~settings.frontend, ~settings.test
      PROVE  /\ cache'.key # NoKey
             /\ now - cache'.at < TTL \/ cache'.at = began'[r]
  <2>1. PICK b \in Versions \cup {NoKey} :
          /\ Verdict(token'[r], b, now) # "unconfigured"
          /\ \/ b = NoKey
             \/ Usable /\ b = cache.key /\ cache' = cache
             \/ /\ b = got[r] /\ began' = began
                /\ cache' = [at |-> began[r], key |-> got[r]]
    BY <1>1, WhoIsAnswered
  <2>2. b # NoKey
    BY <1>1, <2>1 DEF Verdict, Trusted
  <2> QED BY <2>1, <2>2 DEF Usable
<1>2. IInv /\ [Next]_vars
        => [\A r \in Requests :
              /\ reply[r] = "none" /\ reply'[r] \notin {"none", "unconfigured"}
              /\ settings.bastion = "url" /\ ~settings.frontend /\ ~settings.test
              => /\ cache'.key # NoKey
                 /\ now - cache'.at < TTL \/ cache'.at = began'[r]]_vars
  BY <1>1
<1> QED BY <1>2, IInvariant, PTL DEF Spec, FailsClosed

-----------------------------------------------------------------------------
(* Tokens in time.                                                         *)

\* A valid token in whole seconds: its window, and the window's width.
LEMMA ValidMeans ==
    ASSUME NEW claims, NEW i, NEW t \in Int, Valid(claims, i, t)
    PROVE  \E exp \in Int, iat \in Int :
             /\ exp = claims.exp /\ iat = claims.iat
             /\ t < exp + LEEWAY_S /\ iat <= t + LEEWAY_S /\ exp <= iat + MAX_LIFETIME_S
<1>1. claims.exp \in Int /\ claims.iat \in Int
  BY DEF Valid
<1>2. PICK exp \in Int, iat \in Int : exp = claims.exp /\ iat = claims.iat
  BY <1>1
<1>3. exp + LEEWAY_S > t /\ iat - LEEWAY_S <= t /\ exp - iat <= MAX_LIFETIME_S
  BY <1>2 DEF Valid
<1> QED BY <1>2, <1>3, ClockAssumption

\* Two moments at which a token is valid are less than MAX_LIFETIME_S and
\* twice the leeway apart, whatever its claims say and whoever signed it.
THEOREM ValidityIsBounded ==
    ASSUME NEW claims, NEW i \in Issuers, NEW j \in Issuers, NEW s \in Int, NEW t \in Int,
           Valid(claims, i, s), Valid(claims, j, t)
    PROVE  t - s < MAX_LIFETIME_S + 2 * LEEWAY_S
<1>1. PICK exp \in Int, iat \in Int :
        /\ exp = claims.exp /\ iat = claims.iat
        /\ s < exp + LEEWAY_S /\ iat <= s + LEEWAY_S /\ exp <= iat + MAX_LIFETIME_S
  BY ValidMeans
<1>2. t < exp + LEEWAY_S
  BY <1>1, ValidMeans
<1> QED BY <1>1, <1>2, ClockAssumption

\* A token is admitted only while it is alive.
THEOREM AdmissionsAreAlive == Spec => AdmittedAlive
<1>1. ASSUME IInv, Next, NEW r \in Requests,
             reply[r] = "none", reply'[r] = "authenticated"
      PROVE  /\ now < token'[r].exp + LEEWAY_S
             /\ now >= token'[r].iat - LEEWAY_S
             /\ now < token'[r].iat + MAX_LIFETIME_S + LEEWAY_S
  <2>1. Valid(token'[r], FRONTEND_ISS, now) \/ Valid(token'[r], BASTION_ISS, now)
    BY <1>1, WhoIsAnswered, AuthenticatedMeans
  <2>2. now \in Int
    BY <1>1 DEF IInv, TypeOK
  <2>3. PICK exp \in Int, iat \in Int :
          /\ exp = token'[r].exp /\ iat = token'[r].iat
          /\ now < exp + LEEWAY_S /\ iat <= now + LEEWAY_S /\ exp <= iat + MAX_LIFETIME_S
    BY <2>1, <2>2, ValidMeans
  <2>4. /\ now < exp + LEEWAY_S
        /\ now >= iat - LEEWAY_S
        /\ now < iat + MAX_LIFETIME_S + LEEWAY_S
    BY <2>2, <2>3, ClockAssumption
  <2> QED BY <2>3, <2>4
<1>2. IInv /\ [Next]_vars
        => [\A r \in Requests :
              reply[r] = "none" /\ reply'[r] = "authenticated"
                => /\ now < token'[r].exp + LEEWAY_S
                   /\ now >= token'[r].iat - LEEWAY_S
                   /\ now < token'[r].iat + MAX_LIFETIME_S + LEEWAY_S]_vars
  BY <1>1
<1> QED BY <1>2, IInvariant, PTL DEF Spec, AdmittedAlive
=============================================================================
