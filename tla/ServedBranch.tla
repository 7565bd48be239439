---------------------------- MODULE ServedBranch ----------------------------
(***************************************************************************)
(* What requests get while the branch is switched under them: BranchSwitch *)
(* composed with the two engines of core/database.py, the requests and     *)
(* health probes that use their connections, and the library's ring buffer *)
(* that the switch clears.                                                 *)
(*                                                                         *)
(* An engine owns one connection pool at a time; disposing the engine      *)
(* closes the pool's idle connections one await after the other and then   *)
(* puts a new, empty pool in its place.  `pool[e]` numbers them.  A        *)
(* connection belongs to the pool that opened it and is returned to it,    *)
(* also when that pool has been replaced.  Which branch it reaches was     *)
(* decided when it was dialled.                                            *)
(***************************************************************************)
EXTENDS BranchSwitch, FiniteSets

CONSTANTS
    Requests,    \* requests on the commerce engine (get_db)
    Probes,      \* GET /health requests, on the health engine
    PoolSize,    \* PoolSize[e]: connections a pool keeps open when idle
    Capacity,    \* Capacity[e]: pool_size + max_overflow
    MaxPools     \* bound: pools an engine goes through before it stops switching

Engines == {"commerce", "health"}
Users == Requests \cup Probes

ASSUME PoolAssumption ==
    /\ Requests \cap Probes = {}
    /\ \A e \in Engines : PoolSize[e] \in Nat /\ Capacity[e] \in Nat \ {0}
    /\ MaxPools \in Nat \ {0}

Pools == 0..MaxPools
Stages == {"off", "waiting", "pinging", "dialing", "running"}
Holding == {"pinging", "dialing", "running"}

VARIABLES
    pool,        \* pool[e]: the engine's current pool
    idle,        \* idle[e][p][b]: idle connections of pool p that reach b
    stage,       \* stage[u]: how far request u is
    from,        \* from[u]: the pool u got, or waits for, its connection from
    on,          \* on[u]: the branch u's connection reaches
    buffer,      \* ring buffer: the branches its samples were measured on,
                 \* each with whether its request began before the last clear
    early,       \* history: request u began before the last clear of the buffer
    seen         \* history: values url and active have had since u began

poolVars == <<pool, idle>>
useVars == <<stage, from, on, early>>
served == <<vars, poolVars, useVars, buffer, seen>>

Engine(u) == IF u \in Requests THEN "commerce" ELSE "health"

NoIdle == [p \in Pools |-> [b \in Branch |-> 0]]

BootEngines ==
    /\ pool = [e \in Engines |-> 0]
    /\ idle = [e \in Engines |-> NoIdle]
    /\ stage = [u \in Users |-> "off"]
    /\ from = [u \in Users |-> 0]
    /\ on = [u \in Users |-> "slow"]
    /\ buffer = {}
    /\ early = [u \in Users |-> FALSE]

ServedInit ==
    /\ Init
    /\ BootEngines
    /\ seen = [u \in Users |-> {}]

-----------------------------------------------------------------------------
(* The pools (SQLAlchemy's, as build_branch_engine sets them up).          *)

Idle(e, p) == idle[e][p]["slow"] + idle[e][p]["fast"]

Occupants(e, p) == {u \in Users : Engine(u) = e /\ from[u] = p /\ stage[u] \in Holding}

\* A replaced pool has its overflow count reset, so it always has room.
Room(e, p) == p # pool[e] \/ Idle(e, p) + Cardinality(Occupants(e, p)) < Capacity[e]

Take(e, p, b) == idle' = [idle EXCEPT ![e][p][b] = @ - 1]

\* Mutant: the URL is captured when the engine is built.
DialBooted(u, p) ==
    /\ stage' = [stage EXCEPT ![u] = "dialing"]
    /\ from' = [from EXCEPT ![u] = p]
    /\ on' = [on EXCEPT ![u] = branch_current]

\* Mutant: the connector reads the state file, whatever it holds.
DialFile(u, p) ==
    /\ stage' = [stage EXCEPT ![u] = "dialing"]
    /\ from' = [from EXCEPT ![u] = p]
    /\ on' = [on EXCEPT ![u] = file]

\* The connector reads the target's URL when it is called, not earlier.
Dial(u, p) ==
    /\ stage' = [stage EXCEPT ![u] = "dialing"]
    /\ from' = [from EXCEPT ![u] = p]
    /\ on' = [on EXCEPT ![u] = url]

Reuse(u, p, b) ==
    /\ idle[Engine(u)][p][b] > 0
    /\ Take(Engine(u), p, b)
    /\ stage' = [stage EXCEPT ![u] = "pinging"]
    /\ from' = [from EXCEPT ![u] = p]
    /\ on' = [on EXCEPT ![u] = b]

\* The request is over, answered or failed.
Leave(u) ==
    /\ stage' = [stage EXCEPT ![u] = "off"]
    /\ from' = [from EXCEPT ![u] = 0]
    /\ on' = [on EXCEPT ![u] = "slow"]
    /\ early' = [early EXCEPT ![u] = FALSE]

-----------------------------------------------------------------------------
(* A request or probe.  The first query checks a connection out; the       *)
(* session holds it until the request ends.                                *)

Begin(u) ==
    LET e == Engine(u)
        p == pool[e]
    IN  /\ stage[u] = "off"
        /\ early' = [early EXCEPT ![u] = FALSE]
        /\ \/ \E b \in Branch : Reuse(u, p, b)
           \/ /\ Idle(e, p) = 0 /\ Room(e, p)
              /\ Dial(u, p)
              /\ UNCHANGED idle
           \/ /\ Idle(e, p) = 0 /\ ~Room(e, p)
              /\ stage' = [stage EXCEPT ![u] = "waiting"]
              /\ from' = [from EXCEPT ![u] = p]
              /\ UNCHANGED <<on, idle>>
        /\ UNCHANGED <<pool, early, buffer>>

\* A connection came back to the pool the request waits at.
WaitServed(u) ==
    /\ stage[u] = "waiting"
    /\ \E b \in Branch : Reuse(u, from[u], b)
    /\ UNCHANGED <<pool, early, buffer>>

\* Mutant: no pool_timeout.
WaitOn(u) ==
    /\ stage[u] = "waiting"
    /\ Room(Engine(u), from[u])
    /\ Dial(u, from[u])
    /\ UNCHANGED <<poolVars, early, buffer>>

\* pool_timeout: the request dials after all if there is room, else fails.
WaitExpires(u) ==
    /\ stage[u] = "waiting"
    /\ Idle(Engine(u), from[u]) = 0
    /\ IF Room(Engine(u), from[u]) THEN Dial(u, from[u]) /\ UNCHANGED early
                                   ELSE Leave(u)
    /\ UNCHANGED <<poolVars, buffer>>

PingAnswers(u) ==
    /\ stage[u] = "pinging"
    /\ stage' = [stage EXCEPT ![u] = "running"]
    /\ UNCHANGED <<poolVars, from, on, early, buffer>>

\* pool_pre_ping found the connection dead, or pool_recycle too old.
PingFails(u) ==
    /\ stage[u] = "pinging"
    /\ Dial(u, from[u])
    /\ UNCHANGED <<poolVars, early, buffer>>

Connected(u) ==
    /\ stage[u] = "dialing"
    /\ stage' = [stage EXCEPT ![u] = "running"]
    /\ UNCHANGED <<poolVars, from, on, early, buffer>>

DialFails(u) ==
    /\ stage[u] = "dialing"
    /\ Leave(u)
    /\ UNCHANGED <<poolVars, buffer>>

\* A query ends: the library records a sample.  The health engine has no hooks.
Query(u) ==
    /\ stage[u] = "running"
    /\ u \in Requests
    /\ buffer' = buffer \cup {<<on[u], early[u]>>}
    /\ UNCHANGED <<poolVars, useVars>>

\* A replaced pool that nobody waits at any more is garbage.
Reachable(e, p) ==
    p = pool[e] \/ \E u \in Users : Engine(u) = e /\ stage[u] = "waiting" /\ from[u] = p

\* The session closes and returns its connection; beyond pool_size it is closed.
Finish(u) ==
    LET e == Engine(u) p == from[u] IN
    /\ stage[u] = "running"
    /\ Leave(u)
    /\ IF Reachable(e, p) /\ Idle(e, p) < PoolSize[e]
         THEN idle' = [idle EXCEPT ![e][p][on[u]] = @ + 1]
         ELSE UNCHANGED idle
    /\ UNCHANGED <<pool, buffer>>

\* The connection is lost in a query, or the probe's SELECT 1 times out.
Break(u) ==
    /\ stage[u] = "running"
    /\ Leave(u)
    /\ UNCHANGED <<poolVars, buffer>>

Use(u) ==
    \/ Begin(u)
    \/ WaitServed(u)
    \/ WaitExpires(u)
    \/ PingAnswers(u)
    \/ PingFails(u)
    \/ Connected(u)
    \/ DialFails(u)
    \/ Query(u)
    \/ Finish(u)
    \/ Break(u)

-----------------------------------------------------------------------------
(* The switch, with what it does to the engines.                           *)

\* QueuePool.dispose: the next idle connection is taken out and closed.
CloseIdle(c) ==
    /\ phase[c] \in Engines
    /\ LET e == phase[c] IN
         \E b \in Branch : idle[e][pool[e]][b] > 0 /\ Take(e, pool[e], b)
    /\ UNCHANGED <<vars, pool, useVars, buffer>>

\* Mutant: the pool is never replaced, only drained.
Drained(e) ==
    /\ Idle(e, pool[e]) = 0
    /\ UNCHANGED poolVars

\* Engine.dispose: no idle connection is left, and a new pool takes over.
Repool(e) ==
    /\ Idle(e, pool[e]) = 0
    /\ pool' = [pool EXCEPT ![e] = @ + 1]
    /\ UNCHANGED idle

\* Mutant: the hook does nothing.
BufferKept == UNCHANGED <<buffer, early>>

\* The post-switch hook.
ClearBuffer ==
    /\ buffer' = {}
    /\ early' = [u \in Users |-> u \in Requests /\ stage[u] # "off"]

Switching(c) ==
    \/ /\ \/ \E t \in Branch : Request(c, t)
          \/ Refuse(c)
          \/ StartCheck(c)
          \/ \E code \in {409, 500} : CheckRaises(c, code)
          \/ CheckPasses(c) /\ pool["commerce"] < MaxPools
       /\ UNCHANGED <<poolVars, useVars, buffer>>
    \/ CloseIdle(c)
    \/ CommerceDisposed(c) /\ Repool("commerce") /\ UNCHANGED <<useVars, buffer>>
    \/ /\ Complete(c) \/ \E f \in Contents : SaveRaises(c, f)
       /\ Repool("health")
       /\ ClearBuffer
       /\ UNCHANGED <<stage, from, on>>

\* The process dies with every connection, request and sample in it.
Die ==
    /\ \/ Crash
       \/ \E c \in Clients : CrashInSave(c) /\ Idle("health", pool["health"]) = 0
    /\ pool' = [e \in Engines |-> 0]
    /\ idle' = [e \in Engines |-> NoIdle]
    /\ stage' = [u \in Users |-> "off"]
    /\ from' = [u \in Users |-> 0]
    /\ on' = [u \in Users |-> "slow"]
    /\ buffer' = {}
    /\ early' = [u \in Users |-> FALSE]

\* History: what a request could rightly be served by, url and active from
\* the moment it began.
Witnessed ==
    seen' = [u \in Users |->
               IF stage'[u] = "off" THEN {}
               ELSE IF stage[u] = "off" THEN {url, active}
               ELSE seen[u] \cup {url', active'}]

ServedNext ==
    /\ \/ \E u \in Users : Use(u) /\ UNCHANGED vars
       \/ \E c \in Clients : Switching(c)
       \/ Die
    /\ Witnessed

ServedSpec == ServedInit /\ [][ServedNext]_served

\* Pings, dials, queries and pool_timeout of a request all end.
Progress(u) ==
    WaitServed(u) \/ WaitExpires(u) \/ PingAnswers(u) \/ PingFails(u)
      \/ Connected(u) \/ DialFails(u) \/ Finish(u) \/ Break(u)

ServedFairSpec ==
    /\ ServedSpec
    /\ \A u \in Requests : WF_served(Progress(u) /\ UNCHANGED vars /\ Witnessed)

-----------------------------------------------------------------------------
(* Properties.                                                             *)

\* Type invariant; every connection reaches one of the two branches.
ServedTypeOK ==
    /\ TypeOK
    /\ pool \in [Engines -> Pools]
    /\ idle \in [Engines -> [Pools -> [Branch -> Nat]]]
    /\ stage \in [Users -> Stages]
    /\ from \in [Users -> Pools]
    /\ on \in [Users -> Branch]
    /\ buffer \subseteq Branch \X BOOLEAN
    /\ early \in [Users -> BOOLEAN]
    /\ seen \in [Users -> SUBSET Branch]

\* The current pool of e is still to be replaced by the switch under way.
AwaitsDisposal(e) ==
    \E c \in Clients : phase[c] = "commerce" \/ (phase[c] = "health" /\ e = "health")

\* Unless it is about to be disposed, an engine's current pool reaches only the
\* branch new connections dial: no idle connection in it, none that a request
\* pings, dials or runs queries on, leads to the other branch, whatever was in
\* flight when the URL flipped.
CurrentPoolOnTarget ==
    \A e \in Engines : AwaitsDisposal(e) \/
       /\ \A b \in Branch : idle[e][pool[e]][b] > 0 => b = url
       /\ \A u \in Users :
            Engine(u) = e /\ from[u] = pool[e] /\ stage[u] \in Holding => on[u] = url

\* A request runs on a branch that was the one dialled or the active one at
\* some moment since it began, also one that waited for a connection or had
\* its connection replaced: never on the branch of an earlier switch.
ServedByABranchOfItsTime ==
    \A u \in Users : stage[u] = "running" => on[u] \in seen[u]

\* Between switches, a sample of the inactive branch in the ring buffer can
\* only come from a request that was already under way when it was cleared.
StaleSamplesAreLate ==
    (\A c \in Clients : ~Disposing(c))
        => \A s \in buffer : s[1] = active \/ s[2] = TRUE

\* No request waits forever for a connection, however often the pools are
\* replaced: it is served, or pool_timeout fails it.
EveryUseEnds == \A u \in Requests : stage[u] # "off" ~> stage[u] = "off"
=============================================================================
