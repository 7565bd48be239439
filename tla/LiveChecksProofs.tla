-------------------------- MODULE LiveChecksProofs --------------------------
(* LiveChecks, for any settings, timeouts, thresholds and lengths.           *)
(* Its bounds, upwards for any number of waits that a request may take: the  *)
(* probes outlast their delays and a task its requests, by no more than      *)
(* their waits.  Both count what the clock shows together with what is left  *)
(* of the timer and of the waits, so that neither a tick nor the end of a    *)
(* wait changes them.                                                        *)
(* Its exit code: the figures are those of the tasks that ran, and what the  *)
(* percentile says of its samples holds of the tasks that ended.             *)
EXTENDS LiveChecks, FiniteSetTheorems, SequenceTheorems, WellFoundedInduction, TLAPS

TypeOK ==
    /\ attempts \in Nat \ {0} /\ delay \in Nat /\ attempt \in Nat
    /\ timer \in Nat /\ waits \in Nat /\ now \in Nat
    /\ left \in Nat /\ began \in Nat
    /\ job \in {"smoke", "traffic"}
    /\ step \in {"start", "wake", "unhealthy", "prefetch", "loop", "task", "over"}

\* A product, by what Product says of it.
Times(n, d) == n * d

\* The n-th probe does not begin before (n - 1) * delay.
Paced ==
    /\ step = "start" => attempt = 0 /\ ~asking /\ timer = 0 /\ now = 0
    /\ step = "wake" /\ asking => attempt \in 1 .. attempts /\ now >= Times(attempt - 1, delay)
    /\ step = "wake" /\ ~asking => attempt < attempts /\ now + timer >= Times(attempt, delay)

SeenUnfit ==
    /\ step = "wake" /\ ~Fit => unfitAt = now
    /\ step = "unhealthy" => unfitAt \in Nat /\ unfitAt >= Times(attempts - 1, delay)

Most == IF Burst > 2 THEN Burst ELSE 2
PerRequest == Times(Waits, RequestTimeout)
PerProbe == Times(Waits, ProbeTimeout)
Longest == Times(Most, PerRequest)

\* The time since t, and what is left of the request under way, is no more
\* than the waits of the requests made so far.
Within(t, requests) ==
    /\ left \in 1 .. requests
    /\ asking => now - t + timer + Times(waits, RequestTimeout) <= Times(requests - left + 1, PerRequest)
    /\ ~asking => timer = 0 /\ now - t <= Times(requests - left, PerRequest)

DrivesInTime ==
    /\ step = "prefetch" => Within(0, 2)
    /\ step = "loop" => ~asking /\ now + timer < Duration + Longest + Pause
    /\ step = "task" =>
         /\ task \in DOMAIN Requests
         /\ began < Duration
         /\ Within(began, Requests[task])

IInv == TypeOK /\ Paced /\ SeenUnfit /\ DrivesInTime

-----------------------------------------------------------------------------
LEMMA Product ==
    ASSUME NEW n \in Int, NEW d \in Nat
    PROVE  /\ Times(n, d) \in Int
           /\ Times(n - 1, d) + d = Times(n, d)
           /\ Times(0, d) = 0
           /\ n >= 0 => Times(n, d) \in Nat
  BY DEF Times

LEMMA Monotone ==
    ASSUME NEW m \in Int, NEW n \in Int, NEW d \in Nat, m <= n
    PROVE  Times(m, d) <= Times(n, d)
<1>1. n * d - m * d = (n - m) * d /\ (n - m) * d >= 0 /\ m * d \in Int /\ n * d \in Int
  OBVIOUS
<1> QED BY <1>1 DEF Times

\* A wait less, and its timeout, is what there was.
LEMMA OneWait ==
    ASSUME NEW n \in Nat \ {0}, NEW d \in Nat
    PROVE  Times(n - 1, d) \in Nat /\ d + Times(n - 1, d) = Times(n, d)
<1>1. n \in Int /\ n - 1 \in Int /\ n - 1 >= 0
  OBVIOUS
<1> QED BY <1>1, Product

LEMMA RequestsBounded ==
    ASSUME NEW t \in DOMAIN Requests
    PROVE  Requests[t] \in 1 .. Most /\ Burst \in Nat \ {0} /\ RequestTimeout \in Nat \ {0}
  BY TimesAssumption DEF Requests, Most

LEMMA Constants ==
    /\ ProbeTimeout \in Nat \ {0} /\ Pause \in Nat \ {0} /\ RequestTimeout \in Nat \ {0}
    /\ Waits \in Nat \ {0} /\ PerRequest \in Nat /\ PerProbe \in Nat
    /\ Duration \in Nat /\ Most \in Nat /\ Most >= 2 /\ Longest \in Nat
    /\ Times(2, PerRequest) <= Longest
<1>1. /\ ProbeTimeout \in Nat \ {0} /\ Pause \in Nat \ {0} /\ RequestTimeout \in Nat \ {0}
      /\ Waits \in Nat \ {0}
      /\ Duration \in Nat /\ Most \in Nat /\ Most >= 2
  BY TimesAssumption DEF Most
<1>2. PerRequest \in Nat /\ PerProbe \in Nat
  BY <1>1, Product DEF PerRequest, PerProbe
<1>3. Times(2, PerRequest) <= Times(Most, PerRequest) /\ Times(Most, PerRequest) \in Nat
  BY <1>1, <1>2, Monotone, Product
<1> QED BY <1>1, <1>2, <1>3 DEF Longest

(* A task or prefetch keeps to the bound of its requests, hence of the most. *)
LEMMA WithinBound ==
    ASSUME TypeOK, NEW t \in Nat, NEW n \in 1 .. Most, Within(t, n)
    PROVE  /\ asking => now - t + timer <= Times(n - left + 1, PerRequest)
           /\ asking => now - t <= Times(n - left + 1, PerRequest)
           /\ now - t + timer <= Longest
<1>1. n - left + 1 \in Int /\ n - left + 1 <= Most /\ n - left \in Int /\ n - left <= Most
  BY Constants DEF Within, TypeOK
<1>2. /\ Times(n - left + 1, PerRequest) \in Int /\ Times(n - left, PerRequest) \in Int
      /\ Times(waits, RequestTimeout) \in Nat
  <2>1. waits \in Int /\ waits >= 0
    BY DEF TypeOK
  <2> QED BY <1>1, <2>1, Constants, Product
<1>3. /\ Times(n - left + 1, PerRequest) <= Longest
      /\ Times(n - left, PerRequest) <= Longest
  BY <1>1, Constants, Monotone DEF Longest
<1>4. /\ asking => now - t + timer + Times(waits, RequestTimeout) <= Times(n - left + 1, PerRequest)
      /\ ~asking => timer = 0 /\ now - t <= Times(n - left, PerRequest)
  BY DEF Within
<1> QED BY <1>2, <1>3, <1>4, Constants DEF TypeOK

LEMMA InitInv == Init => IInv
<1> SUFFICES ASSUME Init PROVE IInv
  OBVIOUS
<1>1. TypeOK
  BY TimesAssumption DEF Init, TypeOK, _positive_int, _non_negative_float
<1>2. Paced /\ SeenUnfit /\ DrivesInTime
  BY DEF Init, Paced, SeenUnfit, DrivesInTime
<1> QED BY <1>1, <1>2 DEF IInv

-----------------------------------------------------------------------------
(* The probes.                                                               *)
LEMMA ProbedStep ==
    ASSUME IInv, Observed, step = "wake", asking,
           NEW verdict, Probed(verdict), verdict = Healthy \/ ~Fit
    PROVE  IInv'
<1> USE DEF IInv, TypeOK
<1>1. CASE verdict = Healthy
  <2>1. /\ step' \in {"over", "prefetch"} /\ now' = 0 /\ left' = 2 /\ ~asking' /\ timer' = 0 /\ waits' = 0
        /\ UNCHANGED <<job, attempts, delay, attempt, began>>
    BY <1>1 DEF Probed, Rest, prober
  <2>2. TypeOK' /\ Paced' /\ SeenUnfit'
    BY <2>1 DEF Paced, SeenUnfit
  <2>3. 2 \in 1 .. 2 /\ 0 - 0 <= Times(2 - 2, PerRequest)
    BY Constants, Product
  <2>4. DrivesInTime'
    BY <2>1, <2>3 DEF DrivesInTime, Within
  <2> QED BY <2>2, <2>4
<1>2. CASE verdict # Healthy
  <2>1. UNCHANGED <<host, job, attempts, delay, attempt, now, left, began, task>>
    BY <1>2 DEF Probed, prober
  <2>2. unfitAt = now /\ now >= Times(attempt - 1, delay) /\ attempt \in 1 .. attempts
    BY <1>2 DEF SeenUnfit, Paced
  <2>3. CASE attempt < attempts
    <3>1. ~asking' /\ timer' = delay /\ waits' = 0 /\ step' = "wake"
      BY <1>2, <2>3 DEF Probed, Rest
    <3>2. now + delay >= Times(attempt, delay)
      <4>1. Times(attempt - 1, delay) + delay = Times(attempt, delay)
        BY Product
      <4>2. Times(attempt - 1, delay) \in Int /\ Times(attempt, delay) \in Int
        BY <2>2, Product
      <4> QED BY <2>2, <4>1, <4>2
    <3>3. Paced' /\ TypeOK' /\ DrivesInTime'
      BY <2>1, <2>3, <3>1, <3>2 DEF Paced, DrivesInTime
    <3>4. SeenUnfit'
      BY <2>1, <3>1 DEF Observed, SeenUnfit
    <3> QED BY <3>3, <3>4
  <2>4. CASE ~(attempt < attempts)
    <3>1. ~asking' /\ timer' = 0 /\ waits' = 0 /\ step' = "unhealthy" /\ attempt = attempts
      BY <1>2, <2>2, <2>4 DEF Probed, Rest
    <3>2. unfitAt' = now
      BY <2>2, <3>1 DEF Observed
    <3>3. SeenUnfit'
      BY <2>1, <2>2, <3>1, <3>2 DEF SeenUnfit
    <3>4. Paced' /\ TypeOK' /\ DrivesInTime'
      BY <2>1, <3>1 DEF Paced, DrivesInTime
    <3> QED BY <3>3, <3>4
  <2> QED BY <2>3, <2>4
<1> QED BY <1>1, <1>2

LEMMA ProbeOnceStep == ASSUME IInv, Observed, _probe_once PROVE IInv'
<1>1. CASE TransportError /\ Probed(Degraded)
  BY <1>1, ProbedStep DEF _probe_once, TransportError
<1>2. CASE asking /\ instance = "up" /\ Probed(health_verdict(_health))
  <2>1. health_verdict(_health) = Healthy \/ ~Fit
    BY DEF health_verdict, _health, Fit, Healthy, Degraded, Malformed
  <2> QED BY <1>2, <2>1, ProbedStep DEF _probe_once
<1>3. ASSUME NEW response \in HostPages, HostPage(response), Probed(health_verdict(response))
      PROVE  IInv'
  BY <1>3, ProbedStep DEF _probe_once, HostPage, Fit
<1> QED BY <1>1, <1>2, <1>3 DEF _probe_once

LEMMA ProbeStep == ASSUME IInv, Observed, Probe PROVE IInv'
<1> USE DEF IInv, TypeOK
<1>1. /\ step = "wake" /\ step' = "wake" /\ asking' /\ ~asking /\ timer = 0
      /\ attempt' = attempt + 1 /\ timer' = ProbeTimeout /\ waits' = Waits - 1
      /\ UNCHANGED <<job, attempts, delay, now, left, began, task>>
  BY DEF Probe, Send, driver
<1>2. TypeOK'
  BY <1>1, Constants, TimesAssumption
<1>3. Paced'
  <2>1. now >= Times(attempt, delay) /\ attempt < attempts /\ (attempt + 1) - 1 = attempt
    BY <1>1 DEF Paced
  <2> QED BY <1>1, <2>1 DEF Paced
<1>4. SeenUnfit' /\ DrivesInTime'
  BY <1>1 DEF Observed, SeenUnfit, DrivesInTime
<1> QED BY <1>2, <1>3, <1>4

-----------------------------------------------------------------------------
(* The driver.                                                               *)
LEMMA AskStep == ASSUME IInv, Observed, Ask PROVE IInv'
<1> USE DEF IInv, TypeOK
<1>1. /\ step \in {"prefetch", "task"} /\ step' = step /\ ~asking /\ asking'
      /\ timer' = RequestTimeout /\ waits' = Waits - 1
      /\ UNCHANGED <<job, attempts, delay, attempt, now, left, began, task>>
  BY DEF Ask, Send, prober, driver
<1>2. TypeOK'
  BY <1>1, Constants
<1>3. Paced' /\ SeenUnfit'
  BY <1>1 DEF Paced, SeenUnfit
<1>4. ASSUME NEW t \in Nat, NEW n \in Nat, Within(t, n)
      PROVE  /\ left' \in 1 .. n
             /\ now' - t + timer' + Times(waits', RequestTimeout) <= Times(n - left' + 1, PerRequest)
  <2>1. Times((n - left + 1) - 1, PerRequest) + PerRequest = Times(n - left + 1, PerRequest)
    BY Constants, Product
  <2>2. (n - left + 1) - 1 = n - left
    OBVIOUS
  <2>3. now - t <= Times(n - left, PerRequest) /\ Times(n - left, PerRequest) \in Int
    BY <1>1, <1>4, Constants, Product DEF Within
  <2>4. now - t + PerRequest <= Times(n - left + 1, PerRequest)
    BY <2>1, <2>2, <2>3, Constants
  <2>5. timer' + Times(waits', RequestTimeout) = PerRequest /\ Times(waits', RequestTimeout) \in Nat
    BY <1>1, Constants, OneWait DEF PerRequest
  <2> QED BY <1>1, <1>4, <2>4, <2>5, Constants DEF Within
<1>5. DrivesInTime'
  <2>1. CASE step = "prefetch"
    BY <1>1, <1>4, <2>1 DEF DrivesInTime, Within
  <2>2. CASE step = "task"
    <3>1. Requests[task] \in Nat /\ Within(began, Requests[task])
      BY <2>2, RequestsBounded, Constants DEF DrivesInTime
    <3> QED BY <1>1, <1>4, <2>2, <3>1 DEF DrivesInTime, Within
  <2> QED BY <1>1, <2>1, <2>2
<1> QED BY <1>2, <1>3, <1>5

LEMMA LoopStep == ASSUME IInv, Observed, Loop PROVE IInv'
<1> USE DEF IInv, TypeOK
<1>1. /\ UNCHANGED <<job, attempts, delay, attempt, now, asking, timer, waits>>
      /\ timer = 0 /\ step = "loop" /\ ~asking
  BY DEF Loop, prober, wait, DrivesInTime
<1>2. CASE now < Duration
  <2>1. PICK t \in DOMAIN Requests :
          step' = "task" /\ task' = t /\ left' = Requests[t] /\ began' = now
    BY <1>2 DEF Loop
  <2>2. Requests[t] \in 1 .. Most
    BY RequestsBounded
  <2>3. TypeOK' /\ Paced' /\ SeenUnfit'
    BY <1>1, <2>1, <2>2, Constants DEF Paced, SeenUnfit
  <2>4. now - now <= Times(Requests[t] - Requests[t], PerRequest)
    BY <2>2, Constants, Product
  <2> QED BY <1>1, <1>2, <2>1, <2>2, <2>3, <2>4, Constants DEF DrivesInTime, Within
<1>3. CASE ~(now < Duration)
  <2>1. step' = "over" /\ UNCHANGED <<left, began>>
    BY <1>3 DEF Loop
  <2> QED BY <1>1, <2>1 DEF Paced, SeenUnfit, DrivesInTime
<1> QED BY <1>2, <1>3

(* A request has been answered, or has failed.                               *)
LEMMA DriverStep == ASSUME IInv, Observed, _run_driver PROVE IInv'
<1> USE DEF IInv, TypeOK
<1>1. /\ step \in {"prefetch", "task"} /\ asking
      /\ UNCHANGED <<job, attempts, delay, attempt, now>>
  BY DEF _run_driver, HostPage, TransportError, prober
<1>2. Answered \/ Failed \/ Died
  BY DEF _run_driver
<1> DEFINE t == IF step = "prefetch" THEN 0 ELSE began
           n == IF step = "prefetch" THEN 2 ELSE Requests[task]
<1>3. /\ Within(t, n) /\ t \in Nat /\ n \in 1 .. Most
      /\ step = "task" => task \in DOMAIN Requests /\ began < Duration
  BY <1>1, Constants, RequestsBounded DEF DrivesInTime
<1>4. now - t <= Times(n - left + 1, PerRequest) /\ now - t <= Longest
  <2>1. now - t + timer <= Longest
    BY <1>3, WithinBound
  <2> QED BY <1>1, <1>3, <2>1, WithinBound, Constants
<1>5. CASE /\ left > 1 /\ left' = left - 1 /\ ~asking' /\ timer' = 0 /\ waits' = 0
           /\ UNCHANGED <<step, task, began>>
  <2>1. TypeOK' /\ Paced' /\ SeenUnfit'
    BY <1>1, <1>5 DEF Paced, SeenUnfit
  <2>2. n - left' = n - left + 1
    BY <1>3, <1>5, Constants DEF Within
  <2>3. left' \in 1 .. n /\ now - t <= Times(n - left', PerRequest)
    BY <1>3, <1>4, <1>5, <2>2, Constants DEF Within
  <2>4. DrivesInTime'
    BY <1>1, <1>3, <1>5, <2>3 DEF DrivesInTime, Within
  <2> QED BY <2>1, <2>4
<1>6. CASE PrefetchEnds /\ step = "prefetch"
  <2>1. step' = "loop" /\ ~asking' /\ timer' = 0 /\ waits' = 0 /\ left' = 0 /\ began' = began
    BY <1>6 DEF PrefetchEnds, Rest
  <2>2. now' + timer' < Duration + Longest + Pause
    BY <1>1, <1>4, <1>6, <2>1, Constants
  <2> QED BY <1>1, <2>1, <2>2 DEF Paced, SeenUnfit, DrivesInTime
<1>7. ASSUME NEW outcome, TaskEnds(outcome), step = "task"
      PROVE  IInv'
  <2>1. step' = "loop" /\ ~asking' /\ timer' = Pause /\ waits' = 0 /\ left' = 0 /\ began' = 0
    BY <1>7 DEF TaskEnds, Rest
  <2>2. now' + timer' < Duration + Longest + Pause
    BY <1>1, <1>3, <1>4, <1>7, <2>1, Constants
  <2> QED BY <1>1, <2>1, <2>2, Constants DEF Paced, SeenUnfit, DrivesInTime
<1>8. CASE Died
  <2>1. step' = "over" /\ ~asking' /\ timer' = 0 /\ waits' = 0 /\ left' = left /\ began' = began
    BY <1>8 DEF Died, Rest
  <2> QED BY <1>1, <2>1 DEF Paced, SeenUnfit, DrivesInTime
<1>9. CASE Answered
  BY <1>1, <1>5, <1>6, <1>7, <1>9 DEF Answered, Rest
<1>10. CASE Failed
  BY <1>1, <1>6, <1>7, <1>10 DEF Failed
<1> QED BY <1>2, <1>8, <1>9, <1>10

-----------------------------------------------------------------------------
LEMMA TickStep == ASSUME IInv, Observed, Tick PROVE IInv'
<1> USE DEF IInv, TypeOK
<1>1. /\ timer > 0 /\ timer' = timer - 1 /\ now' = now + 1 /\ step \in {"wake", "prefetch", "loop", "task"}
      /\ UNCHANGED <<instance, trouble, job, step, attempts, delay, attempt, asking, waits, left, began, task>>
  BY DEF Tick, Running, prober, driver
<1>2. TypeOK' /\ now' + timer' = now + timer
  BY <1>1
<1>3. Paced'
  <2>1. CASE step = "wake" /\ asking
    <3>1. Times(attempt - 1, delay) \in Int /\ now >= Times(attempt - 1, delay) /\ attempt \in 1 .. attempts
      BY <2>1, Product DEF Paced
    <3> QED BY <1>1, <2>1, <3>1 DEF Paced
  <2>2. CASE step = "wake" /\ ~asking
    BY <1>1, <1>2, <2>2 DEF Paced
  <2>3. CASE step # "wake"
    BY <1>1, <2>3 DEF Paced
  <2> QED BY <2>1, <2>2, <2>3
<1>4. SeenUnfit'
  BY <1>1 DEF Observed, SeenUnfit
<1>5. ASSUME NEW t \in Nat, NEW n \in Nat, Within(t, n) PROVE Within(t, n)'
  <2>1. asking /\ Times(waits, RequestTimeout) \in Int
    BY <1>1, <1>5, Constants, Product DEF Within
  <2>2. now' - t + timer' = now - t + timer
    BY <1>1, <1>5
  <2> QED BY <1>1, <1>5, <2>1, <2>2 DEF Within
<1>6. DrivesInTime'
  <2>1. CASE step = "prefetch"
    BY <1>1, <1>5, <2>1 DEF DrivesInTime
  <2>2. CASE step = "task"
    <3>1. Requests[task] \in Nat /\ Within(began, Requests[task])
      BY <2>2, RequestsBounded, Constants DEF DrivesInTime
    <3> QED BY <1>1, <1>5, <2>2, <3>1 DEF DrivesInTime
  <2>3. CASE step \in {"wake", "loop"}
    BY <1>1, <1>2, <2>3 DEF DrivesInTime
  <2> QED BY <1>1, <2>1, <2>2, <2>3
<1> QED BY <1>2, <1>3, <1>4, <1>6

(* A wait less, with its timeout.                                            *)
LEMMA WaitsOnStep == ASSUME IInv, Observed, WaitsOn PROVE IInv'
<1> USE DEF IInv, TypeOK
<1>1. /\ asking /\ waits \in Nat \ {0} /\ waits' = waits - 1
      /\ timer' = IF step = "wake" THEN ProbeTimeout ELSE RequestTimeout
      /\ UNCHANGED <<instance, trouble, job, step, attempts, delay, attempt, asking, now, left, began, task>>
  BY DEF WaitsOn, host, prober, driver
<1>2. TypeOK' /\ Paced'
  BY <1>1, Constants DEF Paced
<1>3. SeenUnfit'
  BY <1>1 DEF Observed, SeenUnfit, Fit
<1>4. ASSUME NEW t \in Nat, NEW n \in Nat, step # "wake", Within(t, n) PROVE Within(t, n)'
  <2>1. timer' + Times(waits', RequestTimeout) = Times(waits, RequestTimeout)
    BY <1>1, <1>4, Constants, OneWait
  <2>2. /\ Times(waits, RequestTimeout) \in Int /\ Times(waits', RequestTimeout) \in Int
        /\ Times(n - left + 1, PerRequest) \in Int
    <3>1. waits \in Int /\ waits' \in Int /\ n - left + 1 \in Int
      BY <1>1
    <3> QED BY <3>1, Constants, Product
  <2>3. now' - t + timer' + Times(waits', RequestTimeout) <= Times(n - left + 1, PerRequest)
    BY <1>1, <1>2, <1>4, <2>1, <2>2 DEF Within
  <2> QED BY <1>1, <1>4, <2>3 DEF Within
<1>5. DrivesInTime'
  <2>1. CASE step = "prefetch"
    BY <1>1, <1>4, <2>1 DEF DrivesInTime
  <2>2. CASE step = "task"
    <3>1. Requests[task] \in Nat /\ Within(began, Requests[task])
      BY <2>2, RequestsBounded, Constants DEF DrivesInTime
    <3> QED BY <1>1, <1>4, <2>2, <3>1 DEF DrivesInTime
  <2>3. CASE step \notin {"prefetch", "task"}
    BY <1>1, <2>3 DEF DrivesInTime
  <2> QED BY <2>1, <2>2, <2>3
<1> QED BY <1>2, <1>3, <1>5

LEMMA NextInv == IInv /\ [Next]_vars => IInv'
<1> SUFFICES ASSUME IInv, [Next]_vars PROVE IInv'
  OBVIOUS
<1>1. CASE Skip /\ Observed
  BY <1>1 DEF Skip, prober, wait, driver, IInv, TypeOK, Paced, SeenUnfit, DrivesInTime
<1>2. CASE Start /\ Observed
  <2>1. /\ step = "start" /\ step' = "wake" /\ attempt = 0 /\ ~asking /\ timer = 0 /\ now = 0
        /\ UNCHANGED <<job, attempts, delay, attempt, asking, timer, waits, now, left, began>>
    BY <1>2 DEF Start, prober, wait, driver, IInv, Paced
  <2>2. 0 + 0 >= Times(0, delay) /\ delay \in Nat
    BY Product DEF IInv, TypeOK
  <2> QED BY <1>2, <2>1, <2>2
          DEF Observed, IInv, TypeOK, Paced, SeenUnfit, DrivesInTime
<1>3. CASE (Probe \/ _probe_once \/ Ask \/ Loop \/ _run_driver \/ WaitsOn \/ Tick) /\ Observed
  BY <1>3, ProbeStep, ProbeOnceStep, AskStep, LoopStep, DriverStep, WaitsOnStep, TickStep
<1>4. CASE Outside /\ Observed
  <2>1. /\ UNCHANGED <<job, step, attempts, delay, attempt, asking, timer, waits, now, left, began, task>>
        /\ step \in {"start", "unhealthy", "over"} => FALSE
    BY <1>4 DEF Outside, Running, prober, wait, driver
  <2> QED BY <1>4, <2>1
          DEF Observed, IInv, TypeOK, Paced, SeenUnfit, DrivesInTime, Within
<1>5. CASE UNCHANGED vars
  BY <1>5 DEF vars, host, prober, wait, driver, Fit,
              IInv, TypeOK, Paced, SeenUnfit, DrivesInTime, Within
<1> QED BY <1>1, <1>2, <1>3, <1>4, <1>5 DEF Next, Job

\* No service is given up that was fit from (attempts - 1) * delay on: main of
\* smoke_health.py waits between its probes and never after the last.
THEOREM OnlyTheUnfitAreGivenUp == Spec => []GivesUpOnTheUnfit
<1>1. IInv => GivesUpOnTheUnfit
  BY DEF IInv, SeenUnfit, GivesUpOnTheUnfit, Times
<1> QED BY InitInv, NextInv, <1>1, PTL DEF Spec

\* The driver overruns its deadline by no more than the waits of its longest
\* task and a pause (_run_driver of traffic_generator.py), however many waits a
\* request takes.
LEMMA TheDriverStops == Spec => []OverrunsByATask
<1>1. IInv => OverrunsByATask
  <2> SUFFICES ASSUME IInv, step \in {"loop", "task"} PROVE now < Duration + Longest + Pause
    BY DEF OverrunsByATask, Allowance, Longest, PerRequest, Most, Times
  <2>1. CASE step = "loop"
    BY <2>1, Constants DEF IInv, TypeOK, DrivesInTime
  <2>2. CASE step = "task"
    <3>1. began < Duration /\ Requests[task] \in 1 .. Most /\ Within(began, Requests[task])
      BY <2>2, RequestsBounded DEF IInv, DrivesInTime
    <3>2. now - began + timer <= Longest
      BY <3>1, WithinBound DEF IInv, TypeOK
    <3> QED BY <3>1, <3>2, Constants DEF IInv, TypeOK
  <2> QED BY <2>1, <2>2
<1> QED BY InitInv, NextInv, <1>1, PTL DEF Spec

-----------------------------------------------------------------------------
(* How long the probes go on.                                                *)

\* The waits of the probes so far, and the delays after `rests` of them.
Spent(rests) == Times(attempt, PerProbe) + Times(rests, delay)

\* What the clock shows, and what is left of the timer and of the waits, has
\* been paid for.
ProbesInTime ==
    /\ step = "wake" /\ asking => now + timer + Times(waits, ProbeTimeout) <= Spent(attempt - 1)
    /\ step = "wake" /\ ~asking => now + timer <= Spent(attempt)
    /\ step = "unhealthy" => attempt = attempts /\ ~asking /\ now + timer <= Spent(attempt - 1)

PInv == IInv /\ ProbesInTime

LEMMA InitPInv == Init => PInv
  BY InitInv DEF Init, PInv, ProbesInTime

LEMMA SpentType ==
    ASSUME TypeOK, NEW rests \in Int
    PROVE  Spent(rests) \in Int /\ Spent(rests - 1) + delay = Spent(rests)
<1>1. /\ attempt \in Int /\ PerProbe \in Nat /\ delay \in Nat
  BY Constants DEF TypeOK
<1>2. /\ Times(attempt, PerProbe) \in Int /\ Times(rests, delay) \in Int
      /\ Times(rests - 1, delay) \in Int
      /\ Times(rests - 1, delay) + delay = Times(rests, delay)
  <2>1. rests - 1 \in Int
    OBVIOUS
  <2> QED BY <1>1, <2>1, Product
<1> QED BY <1>1, <1>2 DEF Spent

\* A probe that has been answered, or has failed, leaves the loop or waits.
LEMMA ProbedInTime ==
    ASSUME PInv, step = "wake", asking, NEW verdict, Probed(verdict)
    PROVE  ProbesInTime'
<1>1. TypeOK /\ attempt \in 1 .. attempts /\ now + timer + Times(waits, ProbeTimeout) <= Spent(attempt - 1)
  BY DEF PInv, IInv, Paced, ProbesInTime
<1>2. UNCHANGED <<attempts, delay, attempt>>
  BY DEF Probed, prober
<1>3. /\ Spent(attempt) \in Int /\ Spent(attempt - 1) \in Int
      /\ Spent(attempt - 1) + delay = Spent(attempt)
  <2>1. attempt \in Int /\ attempt - 1 \in Int
    BY <1>1 DEF TypeOK
  <2> QED BY <1>1, <2>1, SpentType
<1>4. now \in Nat /\ timer \in Nat /\ delay \in Nat /\ Times(waits, ProbeTimeout) \in Nat
  BY <1>1, Constants, Product DEF TypeOK
<1>5. now <= Spent(attempt - 1) /\ now + delay <= Spent(attempt)
  BY <1>1, <1>3, <1>4
<1>7. Spent(attempt)' = Spent(attempt) /\ Spent(attempt - 1)' = Spent(attempt - 1)
  BY <1>2 DEF Spent
<1>8. CASE verdict = Healthy
  BY <1>8 DEF Probed, ProbesInTime
<1>9. CASE verdict # Healthy /\ attempt < attempts
  <2>1. ~asking' /\ timer' = delay /\ step' = "wake" /\ now' = now
    BY <1>9 DEF Probed, Rest
  <2> QED BY <1>5, <1>7, <2>1 DEF ProbesInTime
<1>10. CASE verdict # Healthy /\ ~(attempt < attempts)
  <2>1. step' = "unhealthy" /\ now' = now /\ ~asking' /\ timer' = 0
    BY <1>10 DEF Probed, Rest
  <2>2. attempt' = attempts'
    BY <1>1, <1>2, <1>10 DEF TypeOK
  <2> QED BY <1>4, <1>5, <1>7, <2>1, <2>2 DEF ProbesInTime
<1> QED BY <1>8, <1>9, <1>10

LEMMA NextPInv == PInv /\ [Next]_vars => PInv'
<1> SUFFICES ASSUME PInv, [Next]_vars PROVE ProbesInTime'
  BY NextInv DEF PInv
<1>1. TypeOK /\ IInv
  BY DEF PInv, IInv
<1>2. CASE Start
  <2>1. /\ attempt' = 0 /\ ~asking' /\ timer' = 0 /\ now' = 0 /\ step' = "wake"
        /\ delay' \in Nat
    BY <1>1, <1>2 DEF Start, IInv, Paced, TypeOK, prober, wait
  <2>2. Times(0, PerProbe) = 0 /\ Times(0, delay') = 0
    BY <2>1, Constants, Product
  <2>3. Spent(attempt)' = 0
    BY <2>1, <2>2 DEF Spent
  <2> QED BY <2>1, <2>3 DEF ProbesInTime
<1>3. CASE Probe
  <2>1. /\ step = "wake" /\ step' = "wake" /\ ~asking /\ asking' /\ timer = 0
        /\ attempt' = attempt + 1 /\ timer' = ProbeTimeout /\ waits' = Waits - 1 /\ now' = now
        /\ delay' = delay /\ attempt \in Nat /\ now \in Nat /\ delay \in Nat
    BY <1>1, <1>3 DEF Probe, Send, driver, TypeOK
  <2>2. now <= Times(attempt, PerProbe) + Times(attempt, delay)
    BY <2>1 DEF PInv, ProbesInTime, Spent
  <2>3. /\ Times(attempt, PerProbe) \in Int /\ Times(attempt, delay) \in Int
        /\ Times(attempt + 1, PerProbe) = Times(attempt, PerProbe) + PerProbe
        /\ Times(attempt + 1, PerProbe) \in Int
    <3>1. attempt \in Int /\ attempt + 1 \in Int /\ (attempt + 1) - 1 = attempt
      BY <2>1
    <3> QED BY <2>1, <3>1, Constants, Product
  <2>4. now + PerProbe <= Times(attempt + 1, PerProbe) + Times(attempt, delay)
    BY <2>1, <2>2, <2>3, Constants
  <2>5. Spent(attempt - 1)' = Times(attempt + 1, PerProbe) + Times(attempt, delay)
    <3>1. attempt' - 1 = attempt
      BY <2>1
    <3> QED BY <2>1, <3>1 DEF Spent
  <2>6. timer' + Times(waits', ProbeTimeout) = PerProbe /\ Times(waits', ProbeTimeout) \in Nat
    BY <2>1, Constants, OneWait DEF PerProbe
  <2>7. now' + timer' + Times(waits', ProbeTimeout) = now + PerProbe
    BY <2>1, <2>6, Constants
  <2> QED BY <2>1, <2>4, <2>5, <2>7 DEF ProbesInTime
<1>4. CASE _probe_once
  <2>1. /\ step = "wake" /\ asking
        /\ \E verdict : Probed(verdict)
    BY <1>4 DEF _probe_once, TransportError, HostPage
  <2> QED BY <2>1, ProbedInTime
<1>5. CASE Tick
  <2>1. /\ now' + timer' = now + timer /\ step' = step /\ step # "unhealthy"
        /\ UNCHANGED <<attempts, delay, attempt, asking, waits>>
    BY <1>1, <1>5 DEF Tick, Running, prober, TypeOK
  <2>3. Spent(attempt)' = Spent(attempt) /\ Spent(attempt - 1)' = Spent(attempt - 1)
    BY <2>1 DEF Spent
  <2> QED BY <2>1, <2>3 DEF PInv, ProbesInTime
<1>8. CASE WaitsOn
  <2>1. /\ asking /\ waits \in Nat \ {0} /\ waits' = waits - 1
        /\ step = "wake" => timer' = ProbeTimeout
        /\ UNCHANGED <<step, attempts, delay, attempt, asking, now>>
    BY <1>1, <1>8 DEF WaitsOn, prober, TypeOK
  <2>2. Spent(attempt)' = Spent(attempt) /\ Spent(attempt - 1)' = Spent(attempt - 1)
    BY <2>1 DEF Spent
  <2>3. CASE step = "wake"
    <3>1. timer' + Times(waits', ProbeTimeout) = Times(waits, ProbeTimeout)
      BY <2>1, <2>3, Constants, OneWait
    <3>2. Times(waits, ProbeTimeout) \in Int /\ Times(waits', ProbeTimeout) \in Int
      <4>1. waits \in Int /\ waits' \in Int
        BY <2>1
      <4> QED BY <4>1, Constants, Product
    <3>3. /\ now \in Nat /\ timer \in Nat /\ timer' \in Nat
          /\ attempt - 1 \in Int /\ Spent(attempt - 1) \in Int
      <4>1. attempt - 1 \in Int
        BY <1>1 DEF TypeOK
      <4> QED BY <1>1, <2>1, <2>3, <4>1, SpentType, Constants DEF TypeOK
    <3>4. now + timer + Times(waits, ProbeTimeout) <= Spent(attempt - 1)
      BY <2>1, <2>3 DEF PInv, ProbesInTime
    <3>5. now' + timer' + Times(waits', ProbeTimeout) <= Spent(attempt - 1)
      BY <2>1, <3>1, <3>2, <3>3, <3>4
    <3> QED BY <2>1, <2>2, <2>3, <3>5 DEF ProbesInTime
  <2>4. CASE step # "wake"
    BY <2>1, <2>4 DEF PInv, ProbesInTime
  <2> QED BY <2>3, <2>4
<1>6. CASE Skip \/ Ask \/ Loop \/ _run_driver
  <2>1. step' \notin {"wake", "unhealthy"}
    BY <1>6 DEF Skip, Ask, Loop, _run_driver, Answered, Failed, PrefetchEnds, TaskEnds, Died
  <2> QED BY <2>1 DEF ProbesInTime
<1>7. CASE Outside \/ UNCHANGED vars
  <2>1. UNCHANGED <<step, attempts, delay, attempt, asking, timer, waits, now>>
    BY <1>7 DEF Outside, vars, prober, wait
  <2>2. Spent(attempt)' = Spent(attempt) /\ Spent(attempt - 1)' = Spent(attempt - 1)
    BY <2>1 DEF Spent
  <2> QED BY <2>1, <2>2 DEF PInv, ProbesInTime
<1> QED BY <1>2, <1>3, <1>4, <1>5, <1>6, <1>7, <1>8 DEF Next, Job

\* What the probes still have to wait has been paid for with all of them.
LEMMA PaidFor ==
    ASSUME PInv
    PROVE  /\ step = "wake" =>
                now + timer <= Times(attempts, PerProbe) + Times(attempts - 1, delay)
           /\ step = "unhealthy" =>
                now + timer <= Times(attempts, PerProbe) + Times(attempts - 1, delay)
<1>1. /\ TypeOK /\ attempts \in Int /\ attempt \in Int /\ delay \in Nat /\ PerProbe \in Nat
      /\ now \in Nat /\ timer \in Nat /\ attempts - 1 \in Int /\ attempt - 1 \in Int
  BY Constants DEF PInv, IInv, TypeOK
<1>2. ASSUME NEW rests \in Int, rests <= attempts - 1, attempt <= attempts
      PROVE  /\ Spent(rests) <= Times(attempts, PerProbe) + Times(attempts - 1, delay)
             /\ Spent(rests) \in Int
             /\ Times(attempts, PerProbe) + Times(attempts - 1, delay) \in Int
  <2>1. /\ Times(attempt, PerProbe) \in Int /\ Times(rests, delay) \in Int
        /\ Times(attempts, PerProbe) \in Int /\ Times(attempts - 1, delay) \in Int
    BY <1>1, Product
  <2>2. /\ Times(attempt, PerProbe) <= Times(attempts, PerProbe)
        /\ Times(rests, delay) <= Times(attempts - 1, delay)
    BY <1>1, <1>2, Monotone
  <2> QED BY <2>1, <2>2 DEF Spent
<1>3. CASE step = "wake" /\ asking
  <2>1. attempt <= attempts /\ attempt - 1 <= attempts - 1
    BY <1>1, <1>3 DEF PInv, IInv, Paced
  <2>2. now + timer + Times(waits, ProbeTimeout) <= Spent(attempt - 1)
    BY <1>3 DEF PInv, ProbesInTime
  <2>3. Times(waits, ProbeTimeout) \in Nat
    <3>1. waits \in Int /\ waits >= 0
      BY <1>1 DEF TypeOK
    <3> QED BY <3>1, Constants, Product
  <2> QED BY <1>1, <1>2, <1>3, <2>1, <2>2, <2>3
<1>4. CASE step = "wake" /\ ~asking
  <2>1. attempt <= attempts /\ attempt <= attempts - 1
    BY <1>1, <1>4 DEF PInv, IInv, Paced
  <2>2. now + timer <= Spent(attempt)
    BY <1>4 DEF PInv, ProbesInTime
  <2> QED BY <1>1, <1>2, <1>4, <2>1, <2>2
<1>5. CASE step = "unhealthy"
  <2>1. attempt = attempts /\ now + timer <= Spent(attempt - 1)
    BY <1>5 DEF PInv, ProbesInTime
  <2>2. attempt <= attempts /\ attempt - 1 <= attempts - 1
    BY <1>1, <2>1
  <2> QED BY <1>1, <1>2, <1>5, <2>1, <2>2
<1> QED BY <1>3, <1>4, <1>5

\* The smoke test is over within the waits of its probes and the delays between
\* them, for any settings: main of smoke_health.py makes no probe and no sleep
\* after the last.
LEMMA TheSmokeTestStops == Spec => []GivesUpInTime
<1>1. PInv => GivesUpInTime
  BY PaidFor DEF GivesUpInTime, Allowance, PerProbe, Times
<1> QED BY InitPInv, NextPInv, <1>1, PTL DEF Spec

\* Both scripts end within their budget and what was under way when it ran out,
\* for any number of waits a request takes: main of smoke_health.py and
\* _run_driver of traffic_generator.py bound their requests and delays, and
\* httpx bounds each wait of a request.  The code bounds no number of waits.
THEOREM TheScriptsStop == Spec => []StopsInTime
<1>1. GivesUpInTime /\ OverrunsByATask => StopsInTime
  BY DEF StopsInTime
<1> QED BY TheSmokeTestStops, TheDriverStops, <1>1, PTL

\* The bound of the model stops no job: the clock goes on while a timer runs, if
\* it is set beyond what the settings allow a job to take.
HorizonIsBeyond ==
    /\ attempts * Allowance(ProbeTimeout) + (attempts - 1) * delay <= Horizon
    /\ Duration + (IF Burst > 2 THEN Burst ELSE 2) * Allowance(RequestTimeout) + Pause <= Horizon

ClockGoesOn == HorizonIsBeyond /\ Running /\ timer > 0 => now < Horizon

\* A wait or sleep under way always comes to its end, in a job of any
\* settings: with the timeouts of both scripts nothing else holds a
\* job up that makes finitely many waits.
THEOREM TheClockGoesOn == Spec => []ClockGoesOn
<1>1. PInv => ClockGoesOn
  <2> SUFFICES ASSUME PInv, HorizonIsBeyond, Running, timer > 0 PROVE now < Horizon
    BY DEF ClockGoesOn
  <2>1. /\ TypeOK /\ step \in {"wake", "prefetch", "loop", "task"}
        /\ now \in Nat /\ timer \in Nat /\ Horizon \in Nat
    BY TimesAssumption DEF PInv, IInv, TypeOK, Running
  <2>2. Duration + Longest + Pause <= Horizon /\ Longest \in Nat
    BY Constants DEF HorizonIsBeyond, Allowance, Longest, PerRequest, Most, Times
  <2>3. CASE step = "wake"
    <3>1. now + timer <= Times(attempts, PerProbe) + Times(attempts - 1, delay)
      BY <2>3, PaidFor
    <3>2. Times(attempts, PerProbe) + Times(attempts - 1, delay) <= Horizon
      BY DEF HorizonIsBeyond, Allowance, PerProbe, Times
    <3>3. Times(attempts, PerProbe) \in Int /\ Times(attempts - 1, delay) \in Int
      <4>1. attempts \in Int /\ attempts - 1 \in Int /\ delay \in Nat /\ PerProbe \in Nat
        BY <2>1, Constants DEF TypeOK
      <4> QED BY <4>1, Product
    <3> QED BY <2>1, <3>1, <3>2, <3>3
  <2>4. CASE step = "loop"
    BY <2>1, <2>2, <2>4, Constants DEF PInv, IInv, DrivesInTime
  <2>5. ASSUME NEW t \in Nat, NEW n \in 1 .. Most, Within(t, n), t <= Duration
        PROVE  now < Horizon
    <3>1. now - t + timer <= Longest
      BY <2>1, <2>5, WithinBound
    <3> QED BY <2>1, <2>2, <2>5, <3>1, Constants
  <2>6. CASE step = "prefetch"
    <3>1. Within(0, 2) /\ 2 \in 1 .. Most /\ 0 <= Duration
      BY <2>6, Constants DEF PInv, IInv, DrivesInTime
    <3> QED BY <2>5, <3>1
  <2>7. CASE step = "task"
    <3>1. Requests[task] \in 1 .. Most /\ Within(began, Requests[task]) /\ began <= Duration
          /\ began \in Nat
      BY <2>1, <2>7, RequestsBounded, Constants DEF PInv, IInv, TypeOK, DrivesInTime
    <3> QED BY <2>5, <3>1
  <2> QED BY <2>1, <2>3, <2>4, <2>6, <2>7
<1> QED BY InitPInv, NextPInv, <1>1, PTL DEF Spec

-----------------------------------------------------------------------------
(* What the driver counts, and the samples of its percentile.                *)

\* Where s has a value of T, and how many times.
Places(s, T) == {i \in DOMAIN s : s[i] \in T}
Many(s, T) == Cardinality(Places(s, T))

SlowOnes == {v \in Int : v > SlowLimit}
Outcomes == Nat \cup {Failure}

\* The driver's figures are those of the tasks it ran.
CountsTheRuns ==
    /\ ran \in Seq(Outcomes) /\ latencies \in Seq(Nat)
    /\ total = Len(ran)
    /\ failures = Many(ran, {Failure})
    /\ Len(latencies) = Len(ran) - failures
    /\ Many(latencies, SlowOnes) = Many(ran, SlowOnes)

\* The exit code is computed from the last figures, unless an exception is.
ExitsByTheCounts ==
    /\ step = "task" => began <= now
    /\ died \in BOOLEAN /\ (died => step = "over")
    /\ step = "over" /\ job = "traffic" => exit = IF died THEN 1 ELSE exit_code_for_stats

Tally == IInv /\ CountsTheRuns /\ ExitsByTheCounts

-----------------------------------------------------------------------------
(* The sorted samples.                                                       *)

LEMMA Least ==
    ASSUME NEW S, S \subseteq Nat, S # {}
    PROVE  \E m \in S : \A k \in S : m <= k
<1>1. PICK m \in S : \A k \in S : ~ (<<k, m>> \in OpToRel(<, Nat))
  <2>1. IsWellFoundedOn(OpToRel(<, Nat), Nat)
    BY NatLessThanWellFounded
  <2> QED BY <2>1, WFMin
<1>2. \A k \in S : ~ (k < m)
  BY <1>1 DEF OpToRel
<1> QED BY <1>2

Below(s, v) == {i \in DOMAIN s : s[i] < v}
UpTo(s, v) == {i \in DOMAIN s : s[i] <= v}

LEMMA Positions ==
    ASSUME NEW s \in Seq(Int)
    PROVE  /\ DOMAIN s = 1 .. Len(s) /\ Len(s) \in Nat
           /\ \A i \in DOMAIN s : s[i] \in Int
           /\ IsFiniteSet(DOMAIN s) /\ Cardinality(DOMAIN s) = Len(s)
<1>1. DOMAIN s = 1 .. Len(s) /\ Len(s) \in Nat /\ \A i \in DOMAIN s : s[i] \in Int
  BY LenProperties
<1>2. /\ IsFiniteSet(1 .. Len(s))
      /\ Cardinality(1 .. Len(s)) = IF 1 > Len(s) THEN 0 ELSE Len(s) - 1 + 1
  <2>1. Len(s) \in Int
    BY <1>1
  <2> QED BY <2>1, FS_Interval
<1> QED BY <1>1, <1>2

\* The positions below and up to a value are finitely many, the more of them
\* the greater the value.
LEMMA Ranks ==
    ASSUME NEW s \in Seq(Nat), NEW v \in Nat
    PROVE  /\ IsFiniteSet(Below(s, v)) /\ Cardinality(Below(s, v)) \in 0 .. Len(s)
           /\ IsFiniteSet(UpTo(s, v)) /\ Cardinality(UpTo(s, v)) \in 0 .. Len(s)
           /\ \A w \in Nat : w < v => Cardinality(UpTo(s, w)) <= Cardinality(Below(s, v))
           /\ \A w \in Nat : v <= w => Cardinality(UpTo(s, v)) <= Cardinality(UpTo(s, w))
<1>1. /\ DOMAIN s = 1 .. Len(s) /\ Len(s) \in Nat /\ \A i \in DOMAIN s : s[i] \in Nat
  BY LenProperties
<1>2. IsFiniteSet(DOMAIN s) /\ Cardinality(DOMAIN s) = Len(s)
  BY Positions
<1>3. ASSUME NEW T, T \subseteq DOMAIN s
      PROVE  /\ IsFiniteSet(T) /\ Cardinality(T) \in 0 .. Len(s)
             /\ \A R : R \subseteq T => Cardinality(R) <= Cardinality(T)
  BY <1>1, <1>2, <1>3, FS_Subset, FS_CardinalityType
<1>4. Below(s, v) \subseteq DOMAIN s /\ \A w : UpTo(s, w) \subseteq DOMAIN s
  BY DEF Below, UpTo
<1>5. \A w \in Nat : w < v => UpTo(s, w) \subseteq Below(s, v)
  BY <1>1 DEF Below, UpTo
<1>6. \A w \in Nat : v <= w => UpTo(s, v) \subseteq UpTo(s, w)
  BY <1>1 DEF UpTo
<1> QED BY <1>3, <1>4, <1>5, <1>6

\* Of some positions of a sequence of naturals, one has the greatest value.
LEMMA Greatest ==
    ASSUME NEW s \in Seq(Nat), NEW T \in SUBSET DOMAIN s, T # {}
    PROVE  \E j \in T : \A i \in T : s[i] <= s[j]
<1>1. \A i \in DOMAIN s : s[i] \in Nat /\ Cardinality(UpTo(s, s[i])) \in 0 .. Len(s)
  BY Ranks, LenProperties
<1>2. Len(s) \in Nat
  BY LenProperties
<1> DEFINE rest(i) == Len(s) - Cardinality(UpTo(s, s[i]))
           R == {rest(i) : i \in T}
<1>3. R \subseteq Nat /\ R # {}
  BY <1>1, <1>2
<1>4. PICK j \in T : \A i \in T : rest(j) <= rest(i)
  <2> HIDE DEF rest
  <2>1. PICK m \in R : \A k \in R : m <= k
    BY <1>3, Least
  <2> QED BY <2>1
<1>5. ASSUME NEW i \in T, ~(s[i] <= s[j])
      PROVE  FALSE
  <2>1. s[j] \in Nat /\ s[i] \in Nat /\ s[j] < s[i] /\ i \in DOMAIN s
    BY <1>1, <1>5
  <2>2. UpTo(s, s[j]) \subseteq UpTo(s, s[i]) /\ i \in UpTo(s, s[i]) /\ i \notin UpTo(s, s[j])
    BY <1>1, <2>1 DEF UpTo
  <2>3. IsFiniteSet(UpTo(s, s[i]))
    BY <2>1, Ranks
  <2>4. /\ Cardinality(UpTo(s, s[j])) <= Cardinality(UpTo(s, s[i]))
        /\ Cardinality(UpTo(s, s[j])) # Cardinality(UpTo(s, s[i]))
    BY <2>2, <2>3, FS_Subset
  <2> QED BY <1>1, <1>2, <1>4, <2>1, <2>4
<1> QED BY <1>5

\* The sorted samples are where Sorted says, for any samples.
LEMMA SortedIsRanked ==
    ASSUME NEW s \in Seq(Nat), NEW k \in 1 .. Len(s)
    PROVE  /\ Sorted(s)[k] \in Nat
           /\ Cardinality(Below(s, Sorted(s)[k])) < k
           /\ k <= Cardinality(UpTo(s, Sorted(s)[k]))
<1>1. /\ DOMAIN s = 1 .. Len(s) /\ Len(s) \in Nat /\ \A i \in DOMAIN s : s[i] \in Nat
  BY LenProperties
<1> DEFINE V == {s[i] : i \in DOMAIN s}
           S == {v \in V : k <= Cardinality(UpTo(s, v))}
           ranked(v) == Cardinality(Below(s, v)) < k /\ k <= Cardinality(UpTo(s, v))
<1>2. S # {}
  <2>1. PICK j \in DOMAIN s : \A i \in DOMAIN s : s[i] <= s[j]
    BY <1>1, Greatest
  <2>2. UpTo(s, s[j]) = DOMAIN s
    BY <2>1 DEF UpTo
  <2>3. Cardinality(DOMAIN s) = Len(s)
    BY Positions
  <2> QED BY <1>1, <2>2, <2>3
<1>3. PICK v \in S : \A w \in S : v <= w
  <2>1. S \subseteq Nat
    BY <1>1
  <2> HIDE DEF S
  <2> QED BY <1>2, <2>1, Least
<1>4. v \in Nat /\ v \in V /\ k <= Cardinality(UpTo(s, v))
  BY <1>1, <1>3
<1>5. Cardinality(Below(s, v)) < k
  <2> SUFFICES ASSUME Cardinality(Below(s, v)) >= k PROVE FALSE
    BY <1>4, Ranks
  <2>1. Below(s, v) # {} /\ Below(s, v) \in SUBSET DOMAIN s
    <3>1. Cardinality({}) = 0
      BY FS_EmptySet
    <3>2. Below(s, v) # {}
      <4>1. Cardinality(Below(s, v)) # 0
        BY <1>1
      <4> QED BY <3>1, <4>1
    <3>3. Below(s, v) \subseteq DOMAIN s
      BY DEF Below
    <3> QED BY <3>2, <3>3
  <2>2. PICK j \in Below(s, v) : \A i \in Below(s, v) : s[i] <= s[j]
    BY <2>1, Greatest
  <2>3. s[j] \in Nat /\ s[j] < v /\ j \in DOMAIN s
    BY <1>1, <2>2 DEF Below
  <2>4. Below(s, v) \subseteq UpTo(s, s[j])
    BY <2>2 DEF Below, UpTo
  <2>5. /\ Cardinality(Below(s, v)) <= Cardinality(UpTo(s, s[j]))
        /\ Cardinality(Below(s, v)) \in Nat /\ Cardinality(UpTo(s, s[j])) \in Nat
    <3>1. IsFiniteSet(UpTo(s, s[j]))
      BY <2>3, Ranks
    <3>2. Cardinality(Below(s, v)) <= Cardinality(UpTo(s, s[j]))
      BY <2>4, <3>1, FS_Subset
    <3>3. Cardinality(Below(s, v)) \in Nat /\ Cardinality(UpTo(s, s[j])) \in Nat
      BY <1>4, <2>3, Ranks
    <3> QED BY <3>2, <3>3
  <2>6. s[j] \in S
    BY <2>3, <2>5
  <2> QED BY <1>3, <1>4, <2>3, <2>6
<1>6. Sorted(s)[k] = CHOOSE u \in V : ranked(u)
  BY <1>1 DEF Sorted, Below, UpTo
<1>7. Sorted(s)[k] \in V /\ ranked(Sorted(s)[k])
  <2>1. \E u \in V : ranked(u)
    BY <1>4, <1>5
  <2> HIDE DEF V, ranked
  <2> QED BY <1>6, <2>1
<1> QED BY <1>1, <1>7

\* The percentile is above the limit exactly when too many samples are.
LEMMA PercentileTells ==
    ASSUME latencies \in Seq(Nat), NEW n \in Nat \ {0}, n = Len(latencies),
           NEW slow, slow = Many(latencies, SlowOnes)
    PROVE  p95 > SlowLimit <=> 100 * slow >= (100 - Percentile) * n
<1>1. SlowLimit \in Nat /\ Percentile \in 0 .. 99
  BY TimesAssumption
<1> DEFINE idx == (Percentile * n) \div 100
           s == latencies
           v == Sorted(s)[1 + idx]
<1>2. idx \in 0 .. n - 1 /\ Percentile * n \in Nat /\ 100 * idx <= Percentile * n /\ Percentile * n < 100 * idx + 100
  <2>1. Times(Percentile, n) <= Times(99, n) /\ Times(Percentile, n) \in Nat
    <3>1. Percentile \in Int /\ Percentile >= 0 /\ 99 \in Int /\ Percentile <= 99 /\ n \in Nat
      BY <1>1
    <3> QED BY <3>1, Monotone, Product
  <2>2. Percentile * n \in Nat /\ Percentile * n <= 99 * n
    BY <2>1 DEF Times
  <2> HIDE DEF idx
  <2>3. ASSUME NEW x \in Nat PROVE 100 * (x \div 100) <= x /\ x < 100 * (x \div 100) + 100 /\ x \div 100 \in Nat
    OBVIOUS
  <2>4. idx \in Nat /\ 100 * idx <= Percentile * n /\ Percentile * n < 100 * idx + 100
    BY <2>2, <2>3 DEF idx
  <2> QED BY <2>2, <2>4
<1>3. p95 = v
  <2>1. n # 0 /\ idx \in Int /\ n \in Int /\ idx <= n - 1
    BY <1>2
  <2>2. p95 = IF n = 0 THEN 0 ELSE Sorted(s)[1 + IF idx < n - 1 THEN idx ELSE n - 1]
    BY n = Len(latencies), Zenon DEF p95
  <2>3. (IF idx < n - 1 THEN idx ELSE n - 1) = idx
    BY ONLY <2>1
  <2> QED BY <2>1, <2>2, <2>3, Zenon
<1> HIDE DEF idx
<1>4. v \in Nat /\ Cardinality(Below(s, v)) < 1 + idx /\ 1 + idx <= Cardinality(UpTo(s, v))
  <2>1. 1 + idx \in 1 .. Len(s)
    BY <1>2
  <2> QED BY <2>1, SortedIsRanked
<1> HIDE DEF v
<1>5. Cardinality(UpTo(s, SlowLimit)) + slow = n /\ slow \in Nat
  <2>1. /\ DOMAIN s = 1 .. n /\ \A i \in DOMAIN s : s[i] \in Int
        /\ IsFiniteSet(DOMAIN s) /\ Cardinality(DOMAIN s) = n
    BY Positions
  <2>2. Places(s, SlowOnes) \subseteq DOMAIN s /\ DOMAIN s \ Places(s, SlowOnes) = UpTo(s, SlowLimit)
    BY <1>1, <2>1 DEF Places, SlowOnes, UpTo
  <2>3. Places(s, SlowOnes) = DOMAIN s \cap Places(s, SlowOnes)
    BY <2>2
  <2>4. Cardinality(DOMAIN s \ Places(s, SlowOnes))
          = Cardinality(DOMAIN s) - Cardinality(DOMAIN s \cap Places(s, SlowOnes))
    BY <2>1, FS_Difference
  <2>5. Cardinality(Places(s, SlowOnes)) \in Nat
    BY <2>1, <2>2, FS_Subset, FS_CardinalityType
  <2>6. Cardinality(UpTo(s, SlowLimit)) = n - Cardinality(Places(s, SlowOnes))
    BY <2>1, <2>2, <2>3, <2>4
  <2> QED BY <2>5, <2>6 DEF Many
<1>6. /\ Cardinality(Below(s, v)) \in Nat /\ Cardinality(UpTo(s, v)) \in Nat
      /\ Cardinality(UpTo(s, SlowLimit)) \in Nat
  <2>1. /\ Cardinality(Below(s, v)) \in 0 .. n /\ Cardinality(UpTo(s, v)) \in 0 .. n
    BY <1>4, Ranks
  <2>2. Cardinality(UpTo(s, SlowLimit)) \in 0 .. n
    BY <1>1, Ranks
  <2> QED BY <2>1, <2>2
<1>7. v > SlowLimit <=> Cardinality(UpTo(s, SlowLimit)) <= idx
  <2>1. CASE v > SlowLimit
    <3>1. Cardinality(UpTo(s, SlowLimit)) <= Cardinality(Below(s, v))
      BY <1>1, <1>4, <2>1, Ranks
    <3> QED BY <1>2, <1>4, <1>6, <2>1, <3>1
  <2>2. CASE v <= SlowLimit
    <3>1. Cardinality(UpTo(s, v)) <= Cardinality(UpTo(s, SlowLimit))
      BY <1>1, <1>4, <2>2, Ranks
    <3> QED BY <1>1, <1>2, <1>4, <1>6, <2>2, <3>1
  <2> QED BY <1>1, <1>4, <2>1, <2>2
<1>8. (100 - Percentile) * n = 100 * n - Percentile * n
  BY <1>1
<1>9. n - slow <= idx <=> 100 * slow >= 100 * n - Percentile * n
  <2>1. ASSUME NEW x \in Nat, NEW i \in Nat, NEW k \in Nat, NEW l \in Nat,
               100 * i <= x, x < 100 * i + 100
        PROVE  k - l <= i <=> 100 * l >= 100 * k - x
    BY ONLY <2>1
  <2>2. Percentile * n \in Nat /\ idx \in Nat /\ n \in Nat /\ slow \in Nat
    BY <1>2, <1>5
  <2>3. 100 * idx <= Percentile * n /\ Percentile * n < 100 * idx + 100
    BY <1>2
  <2> QED BY ONLY <2>1, <2>2, <2>3, Zenon
<1>10. Cardinality(UpTo(s, SlowLimit)) = n - slow
  BY <1>5, <1>6
<1>11. p95 > SlowLimit <=> n - slow <= idx
  BY <1>3, <1>7, <1>10
<1> QED BY <1>8, <1>9, <1>11

\* One more value is one more place, if it is of T.
LEMMA OneMore ==
    ASSUME NEW s \in Seq(Int), NEW e \in Int, NEW T
    PROVE  /\ Many(s, T) \in 0 .. Len(s)
           /\ Many(Append(s, e), T) = Many(s, T) + (IF e \in T THEN 1 ELSE 0)
<1> DEFINE t == Append(s, e)
<1>1. /\ DOMAIN s = 1 .. Len(s) /\ Len(s) \in Nat
      /\ IsFiniteSet(DOMAIN s) /\ Cardinality(DOMAIN s) = Len(s)
  BY Positions
<1>2. /\ t \in Seq(Int) /\ Len(t) = Len(s) + 1
      /\ \A i \in 1 .. Len(s) : t[i] = s[i]
      /\ t[Len(s) + 1] = e
  BY AppendProperties
<1>3. DOMAIN t = 1 .. Len(s) + 1
  BY <1>2, LenProperties
<1>4. Places(s, T) \subseteq DOMAIN s
  BY DEF Places
<1>5. /\ IsFiniteSet(Places(s, T)) /\ Cardinality(Places(s, T)) <= Len(s)
      /\ Cardinality(Places(s, T)) \in Nat
  BY <1>1, <1>4, FS_Subset, FS_CardinalityType
<1> HIDE DEF t
<1>6. Places(t, T) = IF e \in T THEN Places(s, T) \cup {Len(s) + 1} ELSE Places(s, T)
  BY <1>1, <1>2, <1>3 DEF Places
<1>7. Len(s) + 1 \notin Places(s, T)
  BY <1>1, <1>4
<1>8. Cardinality(Places(s, T) \cup {Len(s) + 1}) = Cardinality(Places(s, T)) + 1
  BY <1>5, <1>7, FS_AddElement
<1> QED BY <1>1, <1>5, <1>6, <1>8 DEF Many, t

-----------------------------------------------------------------------------
(* The figures, step by step.                                                *)

LEMMA InitTally == Init => Tally
<1> SUFFICES ASSUME Init PROVE Tally
  OBVIOUS
<1>1. ran = <<>> /\ latencies = <<>> /\ total = 0 /\ failures = 0 /\ ~died /\ step = "start"
      /\ died \in BOOLEAN
  BY DEF Init
<1>2. \A T : Many(<<>>, T) = 0
  <2>1. \A T : Places(<<>>, T) = {}
    BY DEF Places
  <2> QED BY <2>1, FS_EmptySet DEF Many
<1>3. CountsTheRuns
  BY <1>1, <1>2 DEF CountsTheRuns
<1> QED BY <1>1, <1>3, InitInv DEF Tally, ExitsByTheCounts

\* The end of a task adds the same to the runs and to the figures.
LEMMA TaskEndsTally ==
    ASSUME CountsTheRuns, NEW outcome \in Outcomes, TaskEnds(outcome)
    PROVE  CountsTheRuns'
<1> USE DEF CountsTheRuns
<1>1. /\ ran' = Append(ran, outcome) /\ total' = total + 1
      /\ outcome = Failure => failures' = failures + 1 /\ latencies' = latencies
      /\ outcome # Failure => failures' = failures /\ latencies' = Append(latencies, outcome)
  BY DEF TaskEnds
<1>2. outcome \in Int /\ ran \in Seq(Int) /\ latencies \in Seq(Int) /\ Failure \notin Nat
  BY DEF Outcomes, Failure
<1>3. ran' \in Seq(Outcomes) /\ Len(ran') = Len(ran) + 1 /\ Len(ran) \in Nat
  BY <1>1, AppendProperties, LenProperties
<1>4. /\ \A T : Many(ran, T) \in 0 .. Len(ran)
      /\ \A T : Many(ran', T) = Many(ran, T) + (IF outcome \in T THEN 1 ELSE 0)
  BY <1>1, <1>2, OneMore
<1>5. Many(ran', {Failure}) = Many(ran, {Failure}) + (IF outcome = Failure THEN 1 ELSE 0)
  BY <1>4
<1>6. Many(ran', SlowOnes) = Many(ran, SlowOnes) + (IF outcome \in SlowOnes THEN 1 ELSE 0)
  BY <1>4
<1>7. CASE outcome = Failure
  <2>1. outcome \notin SlowOnes
    BY <1>7, TimesAssumption DEF SlowOnes, Failure
  <2>2. Many(ran, {Failure}) \in Nat /\ Many(ran, SlowOnes) \in Nat
    BY <1>3, <1>4
  <2> QED BY <1>1, <1>3, <1>5, <1>6, <1>7, <2>1, <2>2
<1>8. CASE outcome # Failure
  <2>1. outcome \in Nat
    BY <1>8 DEF Outcomes
  <2>2. latencies' \in Seq(Nat) /\ Len(latencies') = Len(latencies) + 1
    <3>1. latencies' = Append(latencies, outcome) /\ latencies \in Seq(Nat)
      BY <1>1, <1>8
    <3> QED BY <2>1, <3>1, AppendProperties
  <2>3. Many(latencies', SlowOnes) = Many(latencies, SlowOnes) + (IF outcome \in SlowOnes THEN 1 ELSE 0)
    <3>1. latencies' = Append(latencies, outcome)
      BY <1>1, <1>8
    <3> QED BY <1>2, <3>1, OneMore
  <2>4. Many(ran, {Failure}) \in Nat
    BY <1>3, <1>4
  <2> QED BY <1>1, <1>3, <1>5, <1>6, <1>8, <2>2, <2>3, <2>4
<1> QED BY <1>7, <1>8

LEMMA DriverTally ==
    ASSUME Tally, _run_driver
    PROVE  CountsTheRuns' /\ ExitsByTheCounts'
<1> USE DEF Tally, IInv, TypeOK
<1>1. /\ step \in {"prefetch", "task"} /\ ~died
      /\ UNCHANGED <<job, now>>
  BY DEF _run_driver, ExitsByTheCounts, prober
<1>2. CASE Died
  <2>1. step' = "over" /\ exit' = 1 /\ died' = TRUE
        /\ UNCHANGED <<total, failures, latencies, ran>>
    BY <1>2 DEF Died, stats
  <2> QED BY <2>1 DEF CountsTheRuns, ExitsByTheCounts
<1>3. CASE (Answered \/ Failed) /\ UNCHANGED <<exit, died>>
  <2>1. CASE step' = step /\ began' = began /\ UNCHANGED <<total, failures, latencies, ran>>
    BY <1>1, <1>3, <2>1 DEF CountsTheRuns, ExitsByTheCounts
  <2>2. CASE PrefetchEnds
    BY <1>1, <1>3, <2>2 DEF PrefetchEnds, stats, CountsTheRuns, ExitsByTheCounts
  <2>3. ASSUME NEW outcome \in Outcomes, TaskEnds(outcome)
        PROVE  CountsTheRuns' /\ ExitsByTheCounts'
    <3>1. step' = "loop"
      BY <2>3 DEF TaskEnds
    <3>2. CountsTheRuns'
      BY <2>3, TaskEndsTally
    <3> QED BY <1>1, <1>3, <3>1, <3>2 DEF ExitsByTheCounts
  <2>4. step # "prefetch" => now - began \in Outcomes
    BY <1>1 DEF ExitsByTheCounts, Outcomes
  <2>5. CASE Answered
    BY <2>1, <2>2, <2>3, <2>4, <2>5 DEF Answered, stats
  <2>6. CASE Failed
    BY <2>2, <2>3, <2>6 DEF Failed, Outcomes
  <2> QED BY <1>3, <2>5, <2>6
<1> QED BY <1>2, <1>3 DEF _run_driver

LEMMA NextTally == Tally /\ [Next]_vars => Tally'
<1> SUFFICES ASSUME Tally, [Next]_vars PROVE Tally'
  OBVIOUS
<1>1. IInv'
  BY NextInv DEF Tally
<1> USE DEF Tally, IInv, TypeOK
<1>2. ASSUME UNCHANGED <<total, failures, latencies, ran>> PROVE CountsTheRuns'
  BY <1>2 DEF CountsTheRuns
<1>3. CASE Loop
  <2>1. UNCHANGED <<total, failures, latencies, ran, job, now, died>> /\ step = "loop"
    BY <1>3 DEF Loop, stats
  <2>2. CASE now < Duration
    <3>1. step' = "task" /\ began' = now
      BY <1>3, <2>2 DEF Loop
    <3> QED BY <1>1, <1>2, <2>1, <3>1 DEF ExitsByTheCounts
  <2>3. CASE ~(now < Duration)
    <3>1. step' = "over" /\ exit' = exit_code_for_stats /\ ~died
      BY <1>3, <2>1, <2>3 DEF Loop, ExitsByTheCounts
    <3>2. exit_code_for_stats' = exit_code_for_stats
      BY <2>1 DEF exit_code_for_stats, p95
    <3> QED BY <1>1, <1>2, <2>1, <3>1, <3>2 DEF ExitsByTheCounts
  <2> QED BY <2>2, <2>3
<1>4. CASE _run_driver
  BY <1>1, <1>4, DriverTally
<1>5. CASE _probe_once
  <2>1. PICK verdict : Probed(verdict)
    BY <1>5 DEF _probe_once
  <2>2. step = "wake" /\ UNCHANGED <<total, failures, latencies, ran, job, died, began>>
    BY <1>5, <2>1 DEF _probe_once, Probed, stats
  <2>3. step' \in {"wake", "prefetch", "unhealthy"} \/ (step' = "over" /\ job = "smoke")
    BY <2>1, <2>2 DEF Probed
  <2> QED BY <1>1, <1>2, <2>2, <2>3 DEF ExitsByTheCounts
<1>6. CASE Skip \/ Start \/ Probe \/ Ask \/ WaitsOn \/ Outside \/ Tick \/ UNCHANGED vars
  <2>1. UNCHANGED <<total, failures, latencies, ran, job, exit, died, began>>
    BY <1>6 DEF Skip, Start, Probe, Ask, WaitsOn, Outside, Tick, vars, driver, stats
  <2>2. exit_code_for_stats' = exit_code_for_stats
    BY <2>1 DEF exit_code_for_stats, p95
  <2>3. /\ now' = now \/ now' = now + 1
        /\ step' = step \/ (step = "start" /\ (step' = "wake" \/ (step' = "over" /\ job = "smoke")))
    BY <1>6 DEF Skip, Start, Probe, Ask, WaitsOn, Outside, Tick, vars, driver
  <2> QED BY <1>1, <1>2, <2>1, <2>2, <2>3 DEF ExitsByTheCounts
<1> QED BY <1>3, <1>4, <1>5, <1>6 DEF Next, Job

\* The exit code of the driver tells of its tasks, for any mix and number of
\* them and any thresholds: exit_code_for_stats of traffic_generator.py sees
\* the failures, and the percentile of the others.
THEOREM ExitTellsOfEveryTask == Spec => []ExitCodeTellsTheRuns
<1> DEFINE failed == Many(ran, {Failure})
           slow == Many(ran, SlowOnes)
<1>1. ASSUME Tally, step = "over", job = "traffic", ~died
      PROVE  exit = 0 <=>
               /\ Len(ran) > 0
               /\ 100 * failed <= FailurePercent * Len(ran)
               /\ slow > 0 => 100 * slow < (100 - Percentile) * (Len(ran) - failed)
  <2>1. /\ exit = exit_code_for_stats
        /\ total = Len(ran) /\ failures = failed
        /\ latencies \in Seq(Nat) /\ Len(latencies) = Len(ran) - failed
        /\ Many(latencies, SlowOnes) = slow
    BY <1>1 DEF Tally, CountsTheRuns, ExitsByTheCounts
  <2>2. Len(ran) \in Nat /\ failed \in 0 .. Len(ran) /\ slow \in 0 .. Len(latencies)
    <3>1. ran \in Seq(Int) /\ latencies \in Seq(Int)
      BY <1>1 DEF Tally, CountsTheRuns, Outcomes, Failure
    <3>2. Many(ran, {Failure}) \in 0 .. Len(ran) /\ Many(latencies, SlowOnes) \in 0 .. Len(latencies)
      <4>1. 0 \in Int
        OBVIOUS
      <4> QED BY <3>1, <4>1, OneMore
    <3>3. Len(ran) \in Nat
      BY <3>1, LenProperties
    <3> QED BY <2>1, <3>2, <3>3
  <2> HIDE DEF failed, slow
  <2>3. exit = 0 <=>
          /\ Len(ran) # 0
          /\ ~(100 * failed > FailurePercent * Len(ran))
          /\ ~(p95 > SlowLimit)
    BY <2>1 DEF exit_code_for_stats
  <2>4. /\ 100 * failed \in Int /\ FailurePercent * Len(ran) \in Int
        /\ 100 * slow \in Int /\ (100 - Percentile) * (Len(ran) - failed) \in Int
    BY <2>2, TimesAssumption
  <2>5. ~(p95 > SlowLimit) <=>
          (slow > 0 => 100 * slow < (100 - Percentile) * (Len(ran) - failed))
    <3>1. CASE Len(latencies) = 0
      <4>1. p95 = 0 /\ SlowLimit \in Nat
        BY <3>1, TimesAssumption DEF p95
      <4> QED BY <2>2, <3>1, <4>1
    <3>2. CASE Len(latencies) # 0
      <4>1. Len(latencies) \in Nat \ {0}
        BY <2>1, <2>2, <3>2
      <4>2. p95 > SlowLimit <=> 100 * slow >= (100 - Percentile) * Len(latencies)
        BY <2>1, <4>1, PercentileTells
      <4>3. slow = 0 => 100 * slow < (100 - Percentile) * Len(latencies)
        <5>1. Percentile \in Int /\ 100 - Percentile > 0 /\ 100 - Percentile \in Int
          BY TimesAssumption
        <5>2. \A a, b \in Int : a > 0 /\ b > 0 => a * b > 0
          OBVIOUS
        <5> QED BY <4>1, <5>1, <5>2
      <4>4. (100 - Percentile) * Len(latencies) = (100 - Percentile) * (Len(ran) - failed)
        BY <2>1
      <4> QED BY <2>2, <2>4, <4>2, <4>3, <4>4
    <3> QED BY <3>1, <3>2
  <2> QED BY <2>2, <2>3, <2>4, <2>5
<1>2. Tally => ExitCodeTellsTheRuns
  <2> DEFINE Failing == {i \in DOMAIN ran : ran[i] = Failure}
             Slow == {i \in DOMAIN ran \ Failing : ran[i] > SlowLimit}
  <2> SUFFICES ASSUME Tally, step = "over", job = "traffic"
               PROVE  IF died THEN exit = 1
                      ELSE exit = 0 <=>
                             /\ Len(ran) > 0
                             /\ 100 * Cardinality(Failing) <= FailurePercent * Len(ran)
                             /\ Cardinality(Slow) > 0 =>
                                  100 * Cardinality(Slow)
                                    < (100 - Percentile) * (Len(ran) - Cardinality(Failing))
    BY DEF ExitCodeTellsTheRuns
  <2>1. Failing = Places(ran, {Failure})
    BY DEF Places
  <2>2. Slow = Places(ran, SlowOnes)
    <3>1. SlowLimit \in Nat /\ Failure = -1
      BY TimesAssumption DEF Failure
    <3>2. \A i \in DOMAIN ran : ran[i] \in Int
      BY LenProperties DEF Tally, CountsTheRuns, Outcomes, Failure
    <3> QED BY <3>1, <3>2 DEF Places, SlowOnes
  <2>3. Cardinality(Failing) = failed /\ Cardinality(Slow) = slow
    BY <2>1, <2>2 DEF Many
  <2>4. died => exit = 1
    BY DEF Tally, ExitsByTheCounts
  <2> HIDE DEF Failing, Slow, failed, slow
  <2>5. CASE died
    BY <2>4, <2>5
  <2>6. CASE ~died
    <3>1. exit = 0 <=>
            /\ Len(ran) > 0
            /\ 100 * failed <= FailurePercent * Len(ran)
            /\ slow > 0 => 100 * slow < (100 - Percentile) * (Len(ran) - failed)
      BY <1>1, <2>6
    <3> QED BY <2>3, <2>6, <3>1
  <2> QED BY <2>5, <2>6
<1> QED BY InitTally, NextTally, <1>2, PTL DEF Spec
=============================================================================
