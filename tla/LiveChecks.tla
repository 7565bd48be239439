----------------------------- MODULE LiveChecks -----------------------------
(***************************************************************************)
(* The jobs that look at the deployed service from outside:                *)
(*   - "smoke", of ci.yml: scripts/smoke_health.py polls /health after a   *)
(*     push;                                                               *)
(*   - "traffic", of traffic.yml: the same script wakes the sleeping       *)
(*     instance, and scripts/traffic_generator.py then drives it.          *)
(*                                                                         *)
(* Time is counted in ticks.  A sleep under way has a timer, and so has    *)
(* each wait of a request: to connect, to send, for a part of the answer.  *)
(* The timeout of httpx is one of each wait and not of the request.  A     *)
(* tick passes only while no timer and no boot has run out.                *)
(***************************************************************************)
EXTENDS Integers, Sequences, FiniteSets

CONSTANTS
    AttemptsGiven,     \* what SMOKE_ATTEMPTS may hold: integers, or garbage
    DelaysGiven,       \* what SMOKE_DELAY_S may hold, in ticks
    DefaultAttempts,   \* DEFAULT_ATTEMPTS
    DefaultDelay,      \* DEFAULT_DELAY_S
    ProbeTimeout,      \* _REQUEST_TIMEOUT_S, of each wait
    BootTime,          \* the longest boot of the container
    Duration,          \* --duration
    Pause,             \* 1 / users
    RequestTimeout,    \* timeout of the driver's client, of each wait
    Waits,             \* bound: the waits of one request; the code has none
    Burst,             \* requests of one n_plus_one_burst
    Percentile,        \* 95
    SlowLimit,         \* _P95_FAIL_THRESHOLD_MS
    FailurePercent,    \* 100 * _FAILURE_RATE_THRESHOLD
    Horizon            \* bound: the clock stops there; no job gets that far

Garbage == -1     \* stands for what int() or float() refuses, too
Failure == -1     \* in place of the duration of a task that failed

ASSUME TimesAssumption ==
    /\ AttemptsGiven \cup DelaysGiven \subseteq Int
    /\ {DefaultDelay, BootTime, Duration, SlowLimit, Horizon} \subseteq Nat
    /\ {DefaultAttempts, ProbeTimeout, Pause, RequestTimeout, Waits, Burst} \subseteq Nat \ {0}
    /\ Percentile \in 0..99 /\ FailurePercent \in 0..100

VARIABLES
    instance,    \* "asleep", "booting" or "up"
    booted,      \* ticks the boot under way has taken
    trouble,     \* the branch's database or the network is out
    job,         \* "smoke" or "traffic"
    step,        \* "start", "wake", "unhealthy", "prefetch", "loop", "task" or "over"
    exit,        \* the exit code of a job that is over
    attempts, delay, attempt,
    timer,       \* what is left of the wait or sleep under way
    asking,      \* a request is under way
    waits,       \* how many waits it may still have after the one under way
    now,         \* ticks since the current script started
    task,        \* the task under way
    left,        \* requests left of the prefetch or task
    began,       \* when the task began
    total, failures, latencies,   \* TrafficStats, and the samples of its p95
    unfitAt,     \* history: when the service last was not fit, by now
    ran,         \* history: what became of each task: its duration, or Failure
    died         \* history: an exception ended the driver

host == <<instance, booted, trouble>>
prober == <<attempts, delay, attempt>>
stats == <<total, failures, latencies>>
driver == <<task, left, began, stats, ran>>
wait == <<asking, timer, waits>>
vars == <<host, job, step, exit, prober, wait, now, driver, unfitAt, died>>

-----------------------------------------------------------------------------
(* The environment's settings, and the verdicts.                           *)

_positive_int(raw, default) == IF raw > 0 THEN raw ELSE default
_non_negative_float(raw, default) == IF raw >= 0 THEN raw ELSE default

Healthy == "healthy"
Degraded == "degraded"
Malformed == "malformed"

\* A body is what its "db" says, or "page" when it is not a JSON object.
health_verdict(response) ==
    IF response.body = "page" THEN Malformed
    ELSE IF response.status \in 200..299 /\ response.body = "ok" THEN Healthy
    ELSE Degraded

\* /health of the application.
_health == IF trouble THEN [status |-> 503, body |-> "down"] ELSE [status |-> 200, body |-> "ok"]

\* What stands before the container may answer in its place, with a page.
HostPages == {[status |-> s, body |-> "page"] : s \in {200, 502}}

Fit == instance = "up" /\ ~trouble

-----------------------------------------------------------------------------
(* Requests.  The first one to reach a sleeping instance makes it boot.    *)

Send(timeout) ==
    /\ asking' = TRUE
    /\ timer' = timeout
    /\ waits' = Waits - 1
    /\ instance' = IF instance = "asleep" THEN "booting" ELSE instance
    /\ UNCHANGED <<booted, trouble>>

Rest(time) ==
    /\ asking' = FALSE
    /\ timer' = time
    /\ waits' = 0

\* A wait of the request is over and the next begins, with a whole timeout.
WaitsOn ==
    /\ asking /\ waits > 0
    /\ waits' = waits - 1
    /\ timer' = IF step = "wake" THEN ProbeTimeout ELSE RequestTimeout
    /\ UNCHANGED <<host, job, step, exit, prober, asking, now, driver, died>>

\* A connection is refused or lost, or nobody answers until the timeout.
TransportError == asking /\ ~Fit

\* A page of the host's, in place of an answer of the application.
HostPage(response) == asking /\ instance # "up" /\ response \in HostPages

-----------------------------------------------------------------------------
(* smoke_health.main.                                                      *)

Init ==
    /\ instance \in {"asleep", "booting", "up"}
    /\ booted = 0
    /\ trouble \in BOOLEAN
    /\ job \in {"smoke", "traffic"}
    /\ step = "start"
    /\ exit = 0
    /\ \E raw \in AttemptsGiven : attempts = _positive_int(raw, DefaultAttempts)
    /\ \E raw \in DelaysGiven : delay = _non_negative_float(raw, DefaultDelay)
    /\ attempt = 0
    /\ asking = FALSE /\ timer = 0 /\ waits = 0
    /\ now = 0
    /\ task = "none" /\ left = 0 /\ began = 0
    /\ total = 0 /\ failures = 0 /\ latencies = <<>> /\ ran = <<>> /\ died = FALSE
    /\ unfitAt = IF Fit THEN -1 ELSE 0

\* The URL is unset or blank, as it may be for the smoke job: no request.
Skip ==
    /\ step = "start" /\ job = "smoke"
    /\ step' = "over"
    /\ UNCHANGED <<host, job, exit, prober, wait, now, driver, died>>

Start ==
    /\ step = "start"
    /\ step' = "wake"
    /\ UNCHANGED <<host, job, exit, prober, wait, now, driver, died>>

\* Mutant: the attempts are not counted.
ProbeForever ==
    /\ step = "wake" /\ ~asking /\ timer = 0
    /\ Send(ProbeTimeout)
    /\ UNCHANGED <<job, step, exit, prober, now, driver, died>>

Probe ==
    /\ step = "wake" /\ ~asking /\ timer = 0
    /\ attempt' = attempt + 1
    /\ Send(ProbeTimeout)
    /\ UNCHANGED <<job, step, exit, attempts, delay, now, driver, died>>

\* Mutant: the loop ends one attempt early.
ProbedInShort(verdict) ==
    /\ IF verdict = Healthy
         THEN /\ step' = IF job = "smoke" THEN "over" ELSE "prefetch"
              /\ now' = 0
              /\ left' = 2
              /\ exit' = 0
              /\ Rest(0)
         ELSE /\ UNCHANGED <<now, left>>
              /\ IF attempt < attempts - 1
                   THEN Rest(delay) /\ UNCHANGED <<step, exit>>
                   ELSE Rest(0) /\ step' = "unhealthy" /\ exit' = 1
    /\ UNCHANGED <<host, job, prober, task, began, stats, ran, died>>

\* Mutant: it sleeps after the last attempt too.
ProbedThenRests(verdict) ==
    /\ IF verdict = Healthy
         THEN /\ step' = IF job = "smoke" THEN "over" ELSE "prefetch"
              /\ now' = 0
              /\ left' = 2
              /\ exit' = 0
              /\ Rest(0)
         ELSE /\ Rest(delay)
              /\ UNCHANGED <<now, left>>
              /\ IF attempt < attempts
                   THEN UNCHANGED <<step, exit>>
                   ELSE step' = "unhealthy" /\ exit' = 1
    /\ UNCHANGED <<host, job, prober, task, began, stats, ran, died>>

\* Healthy: the smoke job is done, and the traffic job drives.  Otherwise the
\* next attempt comes after the delay, and none after the last.
Probed(verdict) ==
    /\ IF verdict = Healthy
         THEN /\ step' = IF job = "smoke" THEN "over" ELSE "prefetch"
              /\ now' = 0
              /\ left' = 2
              /\ exit' = 0
              /\ Rest(0)
         ELSE /\ UNCHANGED <<now, left>>
              /\ IF attempt < attempts
                   THEN Rest(delay) /\ UNCHANGED <<step, exit>>
                   ELSE Rest(0) /\ step' = "unhealthy" /\ exit' = 1
    /\ UNCHANGED <<host, job, prober, task, began, stats, ran, died>>

_probe_once ==
    /\ step = "wake"
    /\ \/ TransportError /\ Probed(Degraded)
       \/ asking /\ instance = "up" /\ Probed(health_verdict(_health))
       \/ \E response \in HostPages : HostPage(response) /\ Probed(health_verdict(response))

-----------------------------------------------------------------------------
(* traffic_generator.                                                      *)

\* Requests of a task: the five that send one are one here.
Requests == [simple |-> 1, order_with_items |-> 2, n_plus_one_burst |-> Burst]

\* Mutant: the samples are not sorted.
UnsortedP95 ==
    LET n == Len(latencies)
        idx == (Percentile * n) \div 100
    IN  IF n = 0 THEN 0 ELSE latencies[1 + IF idx < n - 1 THEN idx ELSE n - 1]

\* The k-th of the sorted samples is one with fewer than k below it, and k or
\* more up to it.
Sorted(samples) ==
    LET Below(v) == {i \in DOMAIN samples : samples[i] < v}
        UpTo(v) == {i \in DOMAIN samples : samples[i] <= v}
    IN  [k \in DOMAIN samples |->
           CHOOSE v \in {samples[i] : i \in DOMAIN samples} :
             Cardinality(Below(v)) < k /\ k <= Cardinality(UpTo(v))]

\* int(0.95 * n) of the sorted samples, counted from 0.
p95 ==
    LET n == Len(latencies)
        idx == (Percentile * n) \div 100
    IN  IF n = 0 THEN 0 ELSE Sorted(latencies)[1 + IF idx < n - 1 THEN idx ELSE n - 1]

exit_code_for_stats ==
    IF total = 0 \/ 100 * failures > FailurePercent * total \/ p95 > SlowLimit THEN 1 ELSE 0

\* The next request of the prefetch or of the task.
Ask ==
    /\ step \in {"prefetch", "task"} /\ ~asking
    /\ Send(RequestTimeout)
    /\ UNCHANGED <<job, step, exit, prober, now, driver, died>>

\* The while loop: another task, or the exit code.
Loop ==
    /\ step = "loop" /\ timer = 0
    /\ IF now < Duration
         THEN \E t \in DOMAIN Requests :
                /\ step' = "task"
                /\ task' = t
                /\ left' = Requests[t]
                /\ began' = now
                /\ UNCHANGED exit
         ELSE /\ step' = "over"
              /\ exit' = exit_code_for_stats
              /\ UNCHANGED <<task, left, began>>
    /\ UNCHANGED <<host, job, prober, wait, now, stats, ran, died>>

\* A task is over, and the driver pauses.
TaskEnds(outcome) ==
    /\ step' = "loop"
    /\ Rest(Pause)
    /\ total' = total + 1
    /\ IF outcome = Failure
         THEN failures' = failures + 1 /\ UNCHANGED latencies
         ELSE latencies' = Append(latencies, outcome) /\ UNCHANGED failures
    /\ ran' = Append(ran, outcome)
    /\ task' = "none" /\ left' = 0 /\ began' = 0

PrefetchEnds ==
    /\ step' = "loop"
    /\ Rest(0)
    /\ left' = 0
    /\ UNCHANGED <<task, began, stats, ran>>

\* Any answer will do, whatever its status; a list of orders that is empty or
\* not there spares the second request of order_with_items.
Answered ==
    \/ /\ left > 1
       /\ left' = left - 1
       /\ Rest(0)
       /\ UNCHANGED <<step, task, began, stats, ran>>
    \/ /\ left = 1 \/ task = "order_with_items"
       /\ IF step = "prefetch" THEN PrefetchEnds ELSE TaskEnds(now - began)

\* httpx.RequestError: ends the prefetch, fails the task.
Failed == IF step = "prefetch" THEN PrefetchEnds ELSE TaskEnds(Failure)

\* response.json() raises what nothing catches, for a 200 that is no JSON.
ReadsTheAnswer == step = "prefetch" \/ (task = "order_with_items" /\ left = 2)

Died ==
    /\ step' = "over"
    /\ exit' = 1
    /\ Rest(0)
    /\ died' = TRUE
    /\ UNCHANGED <<task, left, began, stats, ran>>

_run_driver ==
    /\ step \in {"prefetch", "task"}
    /\ \/ /\ \/ asking /\ instance = "up" /\ Answered
             \/ \E response \in HostPages :
                  /\ HostPage(response)
                  /\ response.status = 200 => ~ReadsTheAnswer
                  /\ Answered
             \/ (TransportError \/ (asking /\ timer = 0)) /\ Failed
          /\ UNCHANGED <<exit, died>>
       \/ /\ ReadsTheAnswer
          /\ \E response \in HostPages : HostPage(response) /\ response.status = 200
          /\ Died
    /\ UNCHANGED <<host, job, prober, now>>

-----------------------------------------------------------------------------
(* The host, the database, the clock.                                      *)

Running == step \notin {"start", "unhealthy", "over"}

Boots ==
    /\ instance = "booting"
    /\ instance' = "up"
    /\ booted' = 0
    /\ UNCHANGED trouble

Restarts ==
    /\ instance = "up"
    /\ instance' = "booting"
    /\ UNCHANGED <<booted, trouble>>

Trouble ==
    /\ trouble' = ~trouble
    /\ UNCHANGED <<instance, booted>>

Outside ==
    /\ Running
    /\ Boots \/ Restarts \/ Trouble
    /\ UNCHANGED <<job, step, exit, prober, wait, now, driver, died>>

Tick ==
    /\ Running /\ timer > 0 /\ now < Horizon
    /\ instance = "booting" => booted < BootTime
    /\ timer' = timer - 1
    /\ now' = now + 1
    /\ booted' = IF instance = "booting" THEN booted + 1 ELSE booted
    /\ UNCHANGED <<instance, trouble, job, step, exit, prober, asking, waits, driver, died>>

Job == Skip \/ Start \/ Probe \/ _probe_once \/ Ask \/ Loop \/ _run_driver

\* History of the probes; a driver has none.
Observed ==
    unfitAt' = IF step' = "wake" /\ ~Fit' THEN now'
               ELSE IF step' \in {"start", "wake", "unhealthy"} THEN unfitAt ELSE -1

Next == (Job \/ WaitsOn \/ Outside \/ Tick) /\ Observed

\* The scripts go on, time passes, and a container boots in BootTime.
Spec ==
    /\ Init /\ [][Next]_vars
    /\ WF_vars(Job /\ Observed)
    /\ WF_vars(Tick /\ Observed)
    /\ WF_vars(Running /\ Boots /\ Outside /\ Observed)

-----------------------------------------------------------------------------
(* Properties.                                                             *)

\* A service that is fit from the last sleep's end on is never given up: the
\* probes cover (attempts - 1) * delay, however fast each of them fails, and
\* the last may still be answered.
GivesUpOnTheUnfit ==
    step = "unhealthy" => unfitAt >= (attempts - 1) * delay

\* The exit code of the driver says what happened to its tasks: one ran, at
\* most FailurePercent of them failed, and of those that ended fewer than one
\* in twenty (100 - Percentile in a hundred) took longer than the limit.
ExitCodeTellsTheRuns ==
    LET Failing == {i \in DOMAIN ran : ran[i] = Failure}
        Slow == {i \in DOMAIN ran \ Failing : ran[i] > SlowLimit}
        failed == Cardinality(Failing)
        slow == Cardinality(Slow)
    IN  step = "over" /\ job = "traffic" =>
          IF died THEN exit = 1
          ELSE exit = 0 <=>
                 /\ Len(ran) > 0
                 /\ 100 * failed <= FailurePercent * Len(ran)
                 /\ slow > 0 => 100 * slow < (100 - Percentile) * (Len(ran) - failed)

\* A request is over after its waits, each of which has its timeout.
Allowance(timeout) == Waits * timeout

\* The smoke test has its answer in the time of its probes and of the delays
\* between them: what it still waits for, after the last probe nothing, is paid
\* for by the attempts.
GivesUpInTime ==
    step \in {"wake", "unhealthy"} =>
      now + timer <= attempts * Allowance(ProbeTimeout) + (attempts - 1) * delay

\* The driver stops at its deadline, but for the task under way: the longest is
\* a burst each of whose requests takes its time.
OverrunsByATask ==
    LET Longest == (IF Burst > 2 THEN Burst ELSE 2) * Allowance(RequestTimeout)
    IN  step \in {"loop", "task"} =>
          now < Duration + Longest + Pause

\* Both scripts look at their budget between requests and tasks only: however
\* their waits fall out, they overrun it by no more than what is under way.
\* Both bounds grow with Waits, the number of waits of a request, which the
\* code does not bound: a service that answers byte by byte outlasts any time.
\* Per wait there is a bound, and it is this one (spec 07, invariant 2, has the
\* driver stop after its duration; smoke_health.py speaks of a budget).
StopsInTime == GivesUpInTime /\ OverrunsByATask

\* Every job ends, whatever state the service is in, so long as each request
\* has an end: no more than Waits waits.
JobEnds == <>(step \in {"over", "unhealthy"})
=============================================================================
