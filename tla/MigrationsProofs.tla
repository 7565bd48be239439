-------------------------- MODULE MigrationsProofs --------------------------
(***************************************************************************)
(* Theorems about Migrations, for any set of containers and databases, any *)
(* environments, any number of faults and suggestions.                     *)
(*                                                                         *)
(* The argument: a container at work stands at a target, with every name   *)
(* before it at head (OnItsWay); from the lock to the commit it is the     *)
(* holder of its database's table, so the duplicates it has deleted are    *)
(* the duplicates there are (Deleted), and a database gets the version     *)
(* 0002 together with the constraint and without a duplicate (Clean).      *)
(* From this, that the commit is SuggestionTables' one step, and that no   *)
(* lock outlives its transaction.                                          *)
(***************************************************************************)
EXTENDS Migrations, WellFoundedInduction, TLAPS

USE ConfigurationAssumption

Locking == {"locked", "deduplicated", "constrained"}
Working == {"connecting", "revising"} \cup Locking

AtHead(d) == version[d] = "0002" /\ unique[d]

\* d is at head after the step; d itself is not primed.
HeadNext(d) == version'[d] = "0002" /\ unique'[d]

Shape ==
    /\ env \in Configurations
    /\ version \in [Databases -> Versions]
    /\ DOMAIN unique = Databases
    /\ DOMAIN rows = Databases
    /\ serial \in [Databases -> 0 .. MaxId]
    /\ \A d \in Databases : DOMAIN rows[d] \subseteq 1 .. serial[d]
    /\ holder \in [Databases -> Containers \cup {Nobody}]
    /\ stage \in [Containers -> Stages]
    /\ at \in [Containers -> 1 .. 3]
    /\ DOMAIN seen = Containers
    /\ DOMAIN gone = Containers
    /\ DOMAIN adds = Containers

\* c stands at a target, and the names before it are done.
OnItsWay(c) ==
    /\ ~ConfigurationError
    /\ IsTarget(at[c])
    /\ \A i \in 1 .. at[c] - 1 : env[i] # Unset => AtHead(DatabaseOf[env[i]])

Ready ==
    /\ ~ConfigurationError
    /\ \A i \in 1 .. 3 : env[i] # Unset => AtHead(DatabaseOf[env[i]])

Deleted(c) == gone[c] = LaterTwins(rows[DatabaseAt(c)])

InOrder(c) ==
    /\ stage[c] \in Working => OnItsWay(c)
    /\ stage[c] \in Locking => holder[DatabaseAt(c)] = c
    /\ stage[c] \in {"deduplicated", "constrained"} => Deleted(c)
    /\ stage[c] = "constrained" => unique[DatabaseAt(c)] \/ adds[c]
    /\ stage[c] = "serving" => Ready

Clean(d) == version[d] = "0002" => unique[d] /\ Distinct(rows[d])

IInv ==
    /\ Shape
    /\ \A c \in Containers : InOrder(c)
    /\ \A d \in Databases : Clean(d)

-----------------------------------------------------------------------------
(* Tables and targets.                                                     *)

\* Every set of ids has a least one.
LEMMA LeastId ==
    ASSUME NEW S, S \subseteq Nat, S # {}
    PROVE  \E m \in S : \A k \in S : m <= k
<1>1. PICK m \in S : \A k \in S : ~ (<<k, m>> \in OpToRel(<, Nat))
    <2>1. IsWellFoundedOn(OpToRel(<, Nat), Nat)
        BY NatLessThanWellFounded
    <2> QED BY <2>1, WFMin
<1>2. \A k \in S : ~ (k < m)
    BY <1>1 DEF OpToRel
<1> QED BY <1>2

\* What 0002 leaves has no duplicate.
LEMMA LeftDistinct ==
    ASSUME NEW table, DOMAIN table \subseteq Nat
    PROVE  Distinct(Without(table, LaterTwins(table)))
BY DEF Distinct, Without, LaterTwins

\* A row that 0002 deletes has an earlier twin that stays.
LEMMA FirstStays ==
    ASSUME NEW table, DOMAIN table \subseteq Nat, NEW i \in LaterTwins(table)
    PROVE  \E j \in DOMAIN Without(table, LaterTwins(table)) :
             j < i /\ table[j] = table[i]
<1> DEFINE Twins == {k \in DOMAIN table : table[k] = table[i]}
<1>1. Twins \subseteq Nat /\ i \in Twins /\ \E k \in Twins : k < i
    BY DEF LaterTwins
<1>2. PICK m \in Twins : \A k \in Twins : m <= k
    BY <1>1, LeastId
<1>3. m \in DOMAIN table /\ table[m] = table[i] /\ m < i
    BY <1>1, <1>2
<1>4. m \notin LaterTwins(table)
    BY <1>2, <1>3 DEF LaterTwins
<1> QED BY <1>3, <1>4 DEF Without

LEMMA EnvNames ==
    ASSUME Shape, NEW i \in 1 .. 3
    PROVE  env[i] \in Urls \cup {Unset, Alien}
BY DEF Shape

\* A target is a database of the service.
LEMMA TargetReaches ==
    ASSUME Shape, NEW i \in 1 .. 3, IsTarget(i)
    PROVE  env[i] \in Urls /\ DatabaseOf[env[i]] \in Databases
BY EnvNames DEF IsTarget, Configured

\* With a usable environment the names before the first target after i are i,
\* the names before i and repetitions of them.
LEMMA FirstAfter ==
    ASSUME Shape, NEW i \in 0 .. 3, TargetsAfter(i) # {}
    PROVE  /\ First(TargetsAfter(i)) \in 1 .. 3
           /\ First(TargetsAfter(i)) > i
           /\ IsTarget(First(TargetsAfter(i)))
           /\ \A j \in 1 .. 3 : j > i /\ IsTarget(j) => First(TargetsAfter(i)) <= j
<1>1. TargetsAfter(i) \subseteq Nat
    BY DEF TargetsAfter
<1>2. \E m \in TargetsAfter(i) : \A k \in TargetsAfter(i) : m <= k
    BY <1>1, LeastId
<1>3. /\ First(TargetsAfter(i)) \in TargetsAfter(i)
      /\ \A k \in TargetsAfter(i) : First(TargetsAfter(i)) <= k
    BY <1>2 DEF First
<1> QED BY <1>3 DEF TargetsAfter

LEMMA FirstTarget ==
    ASSUME Shape, ~ConfigurationError
    PROVE  TargetsAfter(0) # {} /\ First(TargetsAfter(0)) = 1
<1>1. IsTarget(1)
    BY EnvNames DEF IsTarget, Configured, ConfigurationError
<1>2. 1 \in TargetsAfter(0)
    BY <1>1 DEF TargetsAfter
<1> QED BY <1>1, <1>2, FirstAfter

-----------------------------------------------------------------------------
(* The invariant.                                                          *)

LEMMA InitInOrder == Init => IInv
<1> SUFFICES ASSUME Init PROVE IInv
    OBVIOUS
<1>1. Shape
    <2>1. env \in Configurations /\ DOMAIN unique = Databases /\ DOMAIN rows = Databases
        BY DEF Init
    <2>2. version \in [Databases -> Versions]
        BY DEF Init, Versions
    <2>3. serial \in [Databases -> 0 .. MaxId] /\ \A d \in Databases : DOMAIN rows[d] \subseteq 1 .. serial[d]
        BY DEF Init
    <2>4. holder \in [Databases -> Containers \cup {Nobody}] /\ stage \in [Containers -> Stages]
        BY DEF Init, Stages
    <2>5. at \in [Containers -> 1 .. 3] /\ DOMAIN seen = Containers /\ DOMAIN gone = Containers
          /\ DOMAIN adds = Containers
        BY DEF Init
    <2> QED BY <2>1, <2>2, <2>3, <2>4, <2>5 DEF Shape
<1>2. \A c \in Containers : InOrder(c)
    BY DEF Init, InOrder, Working, Locking
<1>3. \A d \in Databases : Clean(d)
    BY DEF Init, Clean
<1> QED BY <1>1, <1>2, <1>3 DEF IInv

\* A container keeps its order while others act: databases only come to head,
\* and nobody changes a table that is locked by it.
LEMMA Frame ==
    ASSUME IInv, NEW c \in Containers, env' = env,
           stage'[c] = stage[c], at'[c] = at[c], gone'[c] = gone[c], adds'[c] = adds[c],
           \A d \in Databases : AtHead(d) => HeadNext(d),
           \A d \in Databases : unique[d] => unique'[d],
           \A d \in Databases : holder[d] = c => holder'[d] = c /\ rows'[d] = rows[d]
    PROVE  InOrder(c)'
<1> USE DEF IInv
<1>0. InOrder(c) /\ Shape /\ at[c] \in 1 .. 3
    BY DEF Shape
<1>1. ConfigurationError' = ConfigurationError /\ (IsTarget(at[c])' <=> IsTarget(at[c]))
    BY DEF ConfigurationError, IsTarget, Configured
<1>2. DatabaseAt(c)' = DatabaseAt(c)
    BY DEF DatabaseAt
<1>3. ASSUME ~ConfigurationError, NEW i \in 1 .. 3, env[i] # Unset
      PROVE  DatabaseOf[env[i]] \in Databases
    BY <1>0, <1>3, EnvNames DEF ConfigurationError
<1>4. OnItsWay(c) => OnItsWay(c)'
    BY <1>0, <1>1, <1>3 DEF OnItsWay, IsTarget, AtHead, HeadNext
<1>5. Ready => Ready'
    BY <1>1, <1>3 DEF Ready, AtHead, HeadNext
<1>6. stage[c] \in Working => DatabaseAt(c) \in Databases
    BY <1>0, TargetReaches DEF InOrder, OnItsWay, DatabaseAt
<1>7. stage[c] \in Locking => holder'[DatabaseAt(c)] = c /\ rows'[DatabaseAt(c)] = rows[DatabaseAt(c)]
    BY <1>0, <1>6 DEF InOrder, Working
<1>8. stage[c] \in {"deduplicated", "constrained"} => Deleted(c)'
    BY <1>0, <1>2, <1>7 DEF InOrder, Deleted, Locking
<1>9. stage[c] = "constrained" => unique'[DatabaseAt(c)] \/ adds[c]
    BY <1>0, <1>6 DEF InOrder, Working, Locking
<1> QED BY <1>0, <1>2, <1>4, <1>5, <1>7, <1>8, <1>9 DEF InOrder

\* What a step of container c may leave untouched.
Still == env' = env /\ version' = version /\ unique' = unique /\ rows' = rows /\ serial' = serial

LEMMA StillClean ==
    ASSUME IInv, Still
    PROVE  \A d \in Databases : Clean(d)' /\ (AtHead(d) => HeadNext(d))
BY DEF IInv, Still, Clean, AtHead, HeadNext

\* The others keep their order in a step of c that touches no table.
LEMMA OthersStay ==
    ASSUME IInv, Still, NEW c \in Containers,
           \A x \in Containers \ {c} :
             /\ stage'[x] = stage[x] /\ at'[x] = at[x]
             /\ gone'[x] = gone[x] /\ adds'[x] = adds[x],
           \A d \in Databases : holder[d] \notin {Nobody, c} => holder'[d] = holder[d]
    PROVE  \A x \in Containers \ {c} : InOrder(x)'
<1> SUFFICES ASSUME NEW x \in Containers \ {c} PROVE InOrder(x)'
    OBVIOUS
<1>1. \A d \in Databases : holder[d] = x => holder'[d] = x /\ rows'[d] = rows[d]
    BY DEF Still
<1> QED BY <1>1, StillClean, Frame DEF Still

\* Advance puts c at the next target, or lets it serve.
LEMMA AdvanceInOrder ==
    ASSUME IInv, NEW c \in Containers, stage[c] \in Working, Advance(c),
           Shape', env' = env,
           \A d \in Databases : AtHead(d) => HeadNext(d),
           HeadNext(DatabaseAt(c))
    PROVE  InOrder(c)'
<1>0. /\ Shape /\ OnItsWay(c) /\ at[c] \in 1 .. 3
      /\ stage \in [Containers -> Stages] /\ at \in [Containers -> 1 .. 3]
    BY DEF IInv, InOrder, Shape
<1>1. ~ConfigurationError /\ ~ConfigurationError'
    BY <1>0 DEF OnItsWay, ConfigurationError
<1>2. \A i \in 1 .. 3 : env[i] # Unset => DatabaseOf[env[i]] \in Databases
    BY <1>0, <1>1, EnvNames DEF ConfigurationError
<1>3. \A i \in 1 .. at[c] : env[i] # Unset => HeadNext(DatabaseOf[env[i]])
    BY <1>0, <1>2 DEF OnItsWay, DatabaseAt
<1>4. ASSUME NEW i \in at[c] + 1 .. 3, env[i] # Unset, ~IsTarget(i)
      PROVE  \E j \in 1 .. i - 1 : env[j] = env[i]
    BY <1>0, <1>1, <1>4 DEF IsTarget, Configured, ConfigurationError
<1>5. CASE TargetsAfter(at[c]) = {}
    <2>1. stage'[c] = "serving"
        BY <1>0, <1>5 DEF Advance
    <2>2. \A i \in at[c] + 1 .. 3 : ~IsTarget(i)
        BY <1>5 DEF TargetsAfter
    <2>3. \A i \in 1 .. 3 : env[i] # Unset => HeadNext(DatabaseOf[env[i]])
        <3>1. \A i \in 1 .. 3 : i <= at[c] + 1 /\ env[i] # Unset => HeadNext(DatabaseOf[env[i]])
            BY <1>0, <1>3, <1>4, <2>2
        <3>2. \A i \in 1 .. 3 : i <= at[c] + 2 /\ env[i] # Unset => HeadNext(DatabaseOf[env[i]])
            BY <1>0, <3>1, <1>4, <2>2
        <3> QED BY <1>0, <3>2
    <2>4. Ready'
        BY <1>1, <2>3 DEF Ready, AtHead, HeadNext
    <2> QED BY <2>1, <2>4 DEF InOrder, Working, Locking
<1>6. CASE TargetsAfter(at[c]) # {}
    <2> DEFINE t == First(TargetsAfter(at[c]))
    <2>1. stage'[c] = "connecting" /\ at'[c] = t
        BY <1>0, <1>6 DEF Advance
    <2>2. /\ t \in 1 .. 3 /\ t > at[c] /\ IsTarget(t)
          /\ \A j \in 1 .. 3 : j > at[c] /\ IsTarget(j) => t <= j
        BY <1>0, <1>6, FirstAfter
    <2> HIDE DEF t
    <2>3. \A i \in 1 .. t - 1 : env[i] # Unset => HeadNext(DatabaseOf[env[i]])
        <3>1. \A i \in 1 .. t - 1 : i <= at[c] \/ (i = at[c] + 1 /\ ~IsTarget(i))
            BY <1>0, <2>2
        <3> QED BY <1>0, <1>3, <1>4, <2>2, <3>1
    <2>4. IsTarget(at[c])'
        <3>1. at[c] \in Nat /\ env[t] \notin {Unset, Alien} /\ \A j \in 1 .. t - 1 : env[j] # env[t]
            BY <1>0, <2>2 DEF IsTarget, Configured
        <3> QED BY <2>1, <3>1 DEF IsTarget, Configured
    <2>5. OnItsWay(c)'
        BY <1>1, <2>1, <2>3, <2>4 DEF OnItsWay, AtHead, HeadNext
    <2> QED BY <2>1, <2>5 DEF InOrder, Working, Locking
<1> QED BY <1>5, <1>6

-----------------------------------------------------------------------------
(* Every step keeps the invariant.                                         *)

\* The part of Shape that a step of a container does not move.
LEMMA ShapeStays ==
    ASSUME IInv, Still,
           holder' \in [Databases -> Containers \cup {Nobody}],
           stage' \in [Containers -> Stages], at' \in [Containers -> 1 .. 3],
           DOMAIN seen' = Containers, DOMAIN gone' = Containers, DOMAIN adds' = Containers
    PROVE  Shape'
BY DEF IInv, Still, Shape

\* Giving up frees what c had locked and leaves c out of work.
LEMMA Leaves ==
    ASSUME IInv, Still, NEW c \in Containers, NEW s \in {"down", "off"},
           stage' = [stage EXCEPT ![c] = s], holder' = Released(c),
           NoTransaction(c), at' = at
    PROVE  IInv'
<1>1. Shape
    BY DEF IInv
<1>2. Shape'
    <2>1. holder' \in [Databases -> Containers \cup {Nobody}]
        BY <1>1 DEF Shape, Released
    <2>2. stage' \in [Containers -> Stages] /\ at' \in [Containers -> 1 .. 3]
        BY <1>1 DEF Shape, Stages
    <2>3. DOMAIN seen' = Containers /\ DOMAIN gone' = Containers /\ DOMAIN adds' = Containers
        BY <1>1 DEF Shape, NoTransaction
    <2> QED BY <2>1, <2>2, <2>3, ShapeStays
<1>3. InOrder(c)'
    BY <1>1 DEF Shape, InOrder, Working, Locking
<1>4. \A x \in Containers \ {c} : InOrder(x)'
    <2>1. \A x \in Containers \ {c} :
            stage'[x] = stage[x] /\ at'[x] = at[x] /\ gone'[x] = gone[x] /\ adds'[x] = adds[x]
        BY <1>1 DEF Shape, NoTransaction
    <2>2. \A d \in Databases : holder[d] \notin {Nobody, c} => holder'[d] = holder[d]
        BY DEF Released
    <2> QED BY <2>1, <2>2, OthersStay
<1> QED BY <1>2, <1>3, <1>4, StillClean DEF IInv

LEMMA GiveUpInOrder ==
    ASSUME IInv, Still, NEW c \in Containers, GiveUp(c)
    PROVE  IInv'
BY Leaves DEF GiveUp

LEMMA StartInOrder ==
    ASSUME IInv, NEW c \in Containers, Start(c)
    PROVE  IInv'
<1>0. Shape /\ Still /\ UNCHANGED <<holder, transaction, faults>>
    BY DEF IInv, Start, Still, database
<1>1. CASE ConfigurationError
    <2>1. stage' = [stage EXCEPT ![c] = "down"] /\ at' = at
        BY <1>1 DEF Start
    <2>2. InOrder(c)'
        BY <1>0, <2>1 DEF Shape, InOrder, Working, Locking
    <2>3. \A x \in Containers \ {c} : InOrder(x)'
        BY <1>0, <2>1, OthersStay DEF Shape, transaction
    <2>4. Shape'
        <3>1. stage' \in [Containers -> Stages]
            BY <1>0, <2>1 DEF Shape, Stages
        <3> QED BY <1>0, <2>1, <3>1 DEF Shape, Still, transaction
    <2> QED BY <1>0, <2>2, <2>3, <2>4, StillClean DEF IInv
<1>2. CASE ~ConfigurationError
    <2>1. stage' = [stage EXCEPT ![c] = "connecting"] /\ at' = [at EXCEPT ![c] = 1]
        BY <1>0, <1>2, FirstTarget DEF Start
    <2>2. IsTarget(1)' /\ ~ConfigurationError'
        BY <1>0, <1>2, EnvNames DEF IsTarget, Configured, ConfigurationError, Still
    <2>3. InOrder(c)'
        BY <1>0, <2>1, <2>2 DEF Shape, InOrder, OnItsWay, Working, Locking
    <2>4. \A x \in Containers \ {c} : InOrder(x)'
        BY <1>0, <2>1, OthersStay DEF Shape, transaction
    <2>5. Shape'
        <3>1. stage' \in [Containers -> Stages] /\ at' \in [Containers -> 1 .. 3]
            BY <1>0, <2>1 DEF Shape, Stages
        <3> QED BY <1>0, <3>1 DEF Shape, Still, transaction
    <2> QED BY <1>0, <2>3, <2>4, <2>5, StillClean DEF IInv
<1> QED BY <1>1, <1>2

\* A container at work stands at a database.
LEMMA StandsAt ==
    ASSUME IInv, NEW c \in Containers, stage[c] \in Working
    PROVE  DatabaseAt(c) \in Databases
<1>1. Shape /\ OnItsWay(c) /\ at[c] \in 1 .. 3
    BY DEF IInv, InOrder, Shape
<1> QED BY <1>1, TargetReaches DEF OnItsWay, DatabaseAt

LEMMA AdvanceShape ==
    ASSUME Shape, NEW c \in Containers, Advance(c)
    PROVE  /\ stage' \in [Containers -> Stages] /\ at' \in [Containers -> 1 .. 3]
           /\ \A x \in Containers \ {c} : stage'[x] = stage[x] /\ at'[x] = at[x]
<1>0. at[c] \in 0 .. 3 /\ at \in [Containers -> 1 .. 3] /\ stage \in [Containers -> Stages]
    BY DEF Shape
<1>1. CASE TargetsAfter(at[c]) = {}
    BY <1>0, <1>1 DEF Advance, Stages
<1>2. CASE TargetsAfter(at[c]) # {}
    <2>1. First(TargetsAfter(at[c])) \in 1 .. 3
        BY <1>0, <1>2, FirstAfter
    <2> QED BY <1>0, <1>2, <2>1 DEF Advance, Stages
<1> QED BY <1>1, <1>2

LEMMA ConnectInOrder ==
    ASSUME IInv, NEW c \in Containers, Connect(c)
    PROVE  IInv'
<1>0. Shape /\ Still /\ UNCHANGED <<holder, faults>> /\ stage[c] \in Working
    BY DEF IInv, Connect, Still, database, Working
<1>1. DatabaseAt(c) \in Databases
    BY <1>0, StandsAt
<1>2. CASE version[DatabaseAt(c)] = "0002"
    <2>1. Advance(c) /\ UNCHANGED transaction
        BY <1>2 DEF Connect
    <2>2. Shape'
        BY <1>0, <2>1, AdvanceShape, ShapeStays DEF transaction, Shape
    <2>3. HeadNext(DatabaseAt(c))
        BY <1>0, <1>1, <1>2 DEF IInv, Clean, AtHead, HeadNext, Still
    <2>4. InOrder(c)'
        BY <1>0, <2>1, <2>2, <2>3, StillClean, AdvanceInOrder DEF Still
    <2>5. \A x \in Containers \ {c} : InOrder(x)'
        BY <1>0, <2>1, AdvanceShape, OthersStay DEF transaction
    <2> QED BY <1>0, <2>2, <2>4, <2>5, StillClean DEF IInv
<1>3. CASE version[DatabaseAt(c)] # "0002"
    <2>1. /\ stage' = [stage EXCEPT ![c] = "revising"]
          /\ seen' = [seen EXCEPT ![c] = version[DatabaseAt(c)]]
          /\ UNCHANGED <<at, gone, adds>>
        BY <1>3 DEF Connect
    <2>2. Shape'
        <3>1. stage' \in [Containers -> Stages]
            BY <1>0, <2>1 DEF Shape, Stages
        <3> QED BY <1>0, <2>1, <3>1, ShapeStays DEF Shape
    <2>3. OnItsWay(c)'
        <3>1. OnItsWay(c) /\ at[c] \in 1 .. 3
            BY <1>0 DEF IInv, InOrder, Shape
        <3>2. \A i \in 1 .. 3 : env[i] # Unset => DatabaseOf[env[i]] \in Databases
            BY <1>0, <3>1, EnvNames DEF OnItsWay, ConfigurationError
        <3> QED BY <1>0, <2>1, <3>1, <3>2, StillClean
              DEF OnItsWay, ConfigurationError, IsTarget, Configured, Still, AtHead, HeadNext
    <2>4. InOrder(c)'
        BY <1>0, <2>1, <2>3 DEF Shape, InOrder, Working, Locking
    <2>5. \A x \in Containers \ {c} : InOrder(x)'
        BY <1>0, <2>1, OthersStay DEF Shape
    <2> QED BY <1>0, <2>2, <2>4, <2>5, StillClean DEF IInv
<1> QED BY <1>2, <1>3

\* A step of c that only moves its stage and its own transaction, at the
\* database it stands at.
LEMMA OwnStep ==
    ASSUME IInv, Still, NEW c \in Containers, stage[c] \in Working,
           NEW s \in Locking, stage' = [stage EXCEPT ![c] = s], at' = at,
           DOMAIN seen' = Containers, DOMAIN gone' = Containers, DOMAIN adds' = Containers,
           \A x \in Containers \ {c} : gone'[x] = gone[x] /\ adds'[x] = adds[x],
           holder[DatabaseAt(c)] \in {Nobody, c},
           holder' = [holder EXCEPT ![DatabaseAt(c)] = c],
           s # "locked" => Deleted(c)',
           s = "constrained" => unique[DatabaseAt(c)] \/ adds'[c]
    PROVE  IInv'
<1>0. /\ Shape /\ DatabaseAt(c) \in Databases /\ OnItsWay(c) /\ at[c] \in 1 .. 3
    BY StandsAt DEF IInv, InOrder, Shape
<1>1. Shape'
    <2>1. stage' \in [Containers -> Stages] /\ at' \in [Containers -> 1 .. 3]
        BY <1>0 DEF Shape, Stages, Locking
    <2>2. holder' \in [Databases -> Containers \cup {Nobody}]
        BY <1>0 DEF Shape
    <2> QED BY <2>1, <2>2, ShapeStays
<1>2. OnItsWay(c)'
    <2>1. \A i \in 1 .. 3 : env[i] # Unset => DatabaseOf[env[i]] \in Databases
        BY <1>0, EnvNames DEF OnItsWay, ConfigurationError
    <2> QED BY <1>0, <2>1, StillClean
          DEF OnItsWay, ConfigurationError, IsTarget, Configured, Still, AtHead, HeadNext
<1>3. DatabaseAt(c)' = DatabaseAt(c)
    BY DEF DatabaseAt, Still
<1>4. InOrder(c)'
    <2>1. stage'[c] = s /\ stage'[c] # "serving"
        BY <1>0 DEF Shape, Locking
    <2>2. holder'[DatabaseAt(c)] = c
        BY <1>0 DEF Shape
    <2>3. s \in {"deduplicated", "constrained"} => Deleted(c)'
        OBVIOUS
    <2>4. s = "constrained" => unique'[DatabaseAt(c)] \/ adds'[c]
        BY DEF Still
    <2> QED BY <1>2, <1>3, <2>1, <2>2, <2>3, <2>4 DEF InOrder
<1>5. \A x \in Containers \ {c} : InOrder(x)'
    <2>1. \A d \in Databases : holder[d] \notin {Nobody, c} => holder'[d] = holder[d]
        BY <1>0 DEF Shape
    <2>2. \A x \in Containers \ {c} : stage'[x] = stage[x] /\ at'[x] = at[x]
        BY <1>0 DEF Shape
    <2> QED BY <2>1, <2>2, OthersStay
<1> QED BY <1>1, <1>4, <1>5, StillClean DEF IInv

LEMMA LockInOrder ==
    ASSUME IInv, NEW c \in Containers, Lock(c)
    PROVE  IInv'
<1>1. Shape /\ Still /\ UNCHANGED <<at, seen, gone, adds>>
    BY DEF IInv, Lock, Still, database, transaction
<1>2. /\ stage[c] \in Working /\ holder[DatabaseAt(c)] \in {Nobody, c}
      /\ stage' = [stage EXCEPT ![c] = "locked"]
      /\ holder' = [holder EXCEPT ![DatabaseAt(c)] = c]
    BY DEF Lock, Working
<1> QED BY <1>1, <1>2, OwnStep DEF Shape, Locking

LEMMA CreateInOrder ==
    ASSUME IInv, NEW c \in Containers, Create(c)
    PROVE  IInv'
<1>1. Shape /\ Still /\ stage[c] \in Working
    BY DEF IInv, Create, Still, database, Working
<1>2. CASE version[DatabaseAt(c)] = "none"
    <2>1. /\ stage' = [stage EXCEPT ![c] = "locked"]
          /\ holder' = [holder EXCEPT ![DatabaseAt(c)] = c]
          /\ holder[DatabaseAt(c)] \in {Nobody, c}
          /\ adds' = [adds EXCEPT ![c] = TRUE] /\ UNCHANGED <<at, seen, gone>>
        BY <1>2 DEF Create
    <2>2. DOMAIN adds' = Containers /\ \A x \in Containers \ {c} : adds'[x] = adds[x]
        BY <1>1, <2>1 DEF Shape
    <2> QED BY <1>1, <2>1, <2>2, OwnStep DEF Shape, Locking
<1>3. CASE version[DatabaseAt(c)] # "none"
    BY <1>1, <1>3, GiveUpInOrder DEF Create
<1> QED BY <1>2, <1>3

LEMMA HoldsItsTable ==
    ASSUME IInv, NEW c \in Containers, stage[c] \in Locking
    PROVE  /\ stage[c] \in Working /\ DatabaseAt(c) \in Databases
           /\ holder[DatabaseAt(c)] = c
           /\ holder = [holder EXCEPT ![DatabaseAt(c)] = c]
<1>1. stage[c] \in Working
    BY DEF Working
<1>2. DatabaseAt(c) \in Databases
    BY <1>1, StandsAt
<1>3. holder[DatabaseAt(c)] = c
    BY DEF IInv, InOrder
<1>4. holder \in [Databases -> Containers \cup {Nobody}]
    BY DEF IInv, Shape
<1> QED BY <1>1, <1>2, <1>3, <1>4

LEMMA DeduplicateInOrder ==
    ASSUME IInv, NEW c \in Containers, Deduplicate(c)
    PROVE  IInv'
<1>1. Shape /\ Still /\ UNCHANGED <<holder, at, seen, adds>> /\ stage[c] \in Locking
    BY DEF IInv, Deduplicate, Still, database, Locking
<1>2. /\ stage' = [stage EXCEPT ![c] = "deduplicated"]
      /\ gone' = [gone EXCEPT ![c] = LaterTwins(rows[DatabaseAt(c)])]
    BY DEF Deduplicate
<1>3. Deleted(c)'
    BY <1>1, <1>2 DEF Shape, Deleted, DatabaseAt, Still
<1>4. DOMAIN gone' = Containers /\ \A x \in Containers \ {c} : gone'[x] = gone[x]
    BY <1>1, <1>2 DEF Shape
<1> QED BY <1>1, <1>2, <1>3, <1>4, HoldsItsTable, OwnStep DEF Shape, Locking

LEMMA ConstrainInOrder ==
    ASSUME IInv, NEW c \in Containers, Constrain(c)
    PROVE  IInv'
<1>1. Shape /\ Still /\ stage[c] \in Locking
    BY DEF IInv, Constrain, Still, database, Locking
<1>2. Deleted(c) /\ stage[c] = "deduplicated"
    BY DEF IInv, InOrder, Constrain
<1>3. CASE stage' = [stage EXCEPT ![c] = "constrained"]
    <2>1. UNCHANGED <<holder, at, seen, gone>>
        BY <1>1, <1>3 DEF Constrain, GiveUp, transaction, Shape
    <2>2. \/ UNCHANGED adds /\ (unique[DatabaseAt(c)] \/ adds[c])
          \/ adds' = [adds EXCEPT ![c] = TRUE]
        BY <1>1, <1>3 DEF Constrain, GiveUp, transaction, Shape
    <2>3. /\ DOMAIN adds' = Containers /\ \A x \in Containers \ {c} : adds'[x] = adds[x]
          /\ unique[DatabaseAt(c)] \/ adds'[c]
        BY <1>1, <2>2 DEF Shape
    <2>4. Deleted(c)'
        BY <1>1, <1>2, <2>1 DEF Deleted, DatabaseAt, Still
    <2> QED BY <1>1, <1>3, <2>1, <2>3, <2>4, HoldsItsTable, OwnStep DEF Shape, Locking
<1>4. CASE GiveUp(c)
    BY <1>1, <1>4, GiveUpInOrder
<1> QED BY <1>3, <1>4 DEF Constrain

\* The commit: the database comes to head, with the constraint and no twins.
LEMMA CommitInOrder ==
    ASSUME IInv, NEW c \in Containers, Commit(c), version[DatabaseAt(c)] = seen[c]
    PROVE  IInv'
<1> DEFINE d == DatabaseAt(c)
<1>0. /\ Shape /\ stage[c] = "constrained" /\ Deleted(c)
      /\ unique[d] \/ adds[c]
    BY DEF IInv, InOrder, Commit
<1>1. stage[c] \in Working /\ d \in Databases /\ holder[d] = c
    BY <1>0, HoldsItsTable DEF Locking
<1>2. /\ version' = [version EXCEPT ![d] = "0002"]
      /\ unique' = [unique EXCEPT ![d] = @ \/ adds[c]]
      /\ rows' = [rows EXCEPT ![d] = Without(@, gone[c])]
      /\ holder' = Released(c)
      /\ NoTransaction(c) /\ Advance(c)
      /\ UNCHANGED <<env, serial, faults>>
    BY DEF Commit
<1>3. rows'[d] = Without(rows[d], LaterTwins(rows[d])) /\ DOMAIN rows' = Databases
    BY <1>0, <1>1, <1>2 DEF Shape, Deleted
<1>4. version'[d] = "0002" /\ unique'[d]
    BY <1>0, <1>1, <1>2 DEF Shape
<1>5. \A b \in Databases \ {d} :
        version'[b] = version[b] /\ unique'[b] = unique[b] /\ rows'[b] = rows[b]
    BY <1>0, <1>2 DEF Shape
<1> HIDE DEF d
<1>6. \A b \in Databases : DOMAIN rows[b] \subseteq Nat /\ serial[b] \in Nat
    BY <1>0 DEF Shape
<1>7. \A b \in Databases : Clean(b)'
    <2>1. Distinct(rows'[d])
        BY <1>1, <1>3, <1>6, LeftDistinct
    <2> QED BY <1>4, <1>5, <2>1 DEF IInv, Clean
<1>8. /\ \A b \in Databases : AtHead(b) => HeadNext(b)
      /\ \A b \in Databases : unique[b] => unique'[b]
    BY <1>4, <1>5 DEF AtHead, HeadNext
<1>9. /\ stage' \in [Containers -> Stages] /\ at' \in [Containers -> 1 .. 3]
      /\ \A x \in Containers \ {c} : stage'[x] = stage[x] /\ at'[x] = at[x]
    BY <1>0, <1>2, AdvanceShape
<1>10. Shape'
    <2>1. \A b \in Databases : DOMAIN rows'[b] \subseteq 1 .. serial[b]
        BY <1>0, <1>3, <1>5 DEF Shape, Without
    <2>2. version' \in [Databases -> Versions] /\ DOMAIN unique' = Databases
        BY <1>0, <1>2 DEF Shape, Versions
    <2>3. holder' \in [Databases -> Containers \cup {Nobody}]
        BY <1>0, <1>2 DEF Shape, Released
    <2>4. DOMAIN seen' = Containers /\ DOMAIN gone' = Containers /\ DOMAIN adds' = Containers
        BY <1>0, <1>2 DEF Shape, NoTransaction
    <2> QED BY <1>0, <1>2, <1>3, <1>9, <2>1, <2>2, <2>3, <2>4 DEF Shape
<1>11. InOrder(c)'
    <2>1. HeadNext(d)
        BY <1>4 DEF AtHead, HeadNext
    <2> QED BY <1>1, <1>2, <1>8, <1>10, <2>1, AdvanceInOrder DEF d
<1>12. \A x \in Containers \ {c} : InOrder(x)'
    <2>1. \A x \in Containers \ {c} : gone'[x] = gone[x] /\ adds'[x] = adds[x]
        BY <1>0, <1>2 DEF Shape, NoTransaction
    <2>2. \A x \in Containers \ {c} : \A b \in Databases :
            holder[b] = x => holder'[b] = x /\ rows'[b] = rows[b]
        BY <1>0, <1>1, <1>2, <1>5 DEF Shape, Released
    <2> QED BY <1>2, <1>8, <1>9, <2>1, <2>2, Frame
<1> QED BY <1>7, <1>10, <1>11, <1>12 DEF IInv

\* The previous release inserts where no transaction has locked the table and,
\* once the constraint is there, no twin.
LEMMA InsertInOrder ==
    ASSUME IInv, NEW d \in Databases, NEW g \in Groups, Insert(d, g)
    PROVE  IInv'
<1>0. /\ Shape /\ holder[d] = Nobody
      /\ UNCHANGED <<env, version, unique, holder, stage, at, seen, gone, adds>>
    BY DEF IInv, Insert, transaction
<1>1. /\ serial' = [serial EXCEPT ![d] = @ + 1] /\ serial[d] < MaxId
      /\ rows' = [rows EXCEPT ![d] =
                   [i \in DOMAIN @ \cup {serial[d] + 1} |->
                      IF i = serial[d] + 1 THEN g ELSE @[i]]]
    BY DEF Insert
<1>2. /\ rows'[d] = [i \in DOMAIN rows[d] \cup {serial[d] + 1} |->
                       IF i = serial[d] + 1 THEN g ELSE rows[d][i]]
      /\ DOMAIN rows' = Databases
      /\ \A b \in Databases \ {d} : rows'[b] = rows[b]
    BY <1>0, <1>1 DEF Shape
<1>3. Shape'
    <2>1. serial' \in [Databases -> 0 .. MaxId]
        BY <1>0, <1>1 DEF Shape
    <2>2. \A b \in Databases : DOMAIN rows'[b] \subseteq 1 .. serial'[b]
        BY <1>0, <1>1, <1>2 DEF Shape
    <2> QED BY <1>0, <1>2, <2>1, <2>2 DEF Shape
<1>4. \A b \in Databases : Clean(b)'
    <2>1. serial[d] + 1 \notin DOMAIN rows[d]
        BY <1>0 DEF Shape
    <2>2. version[d] = "0002" => Distinct(rows[d]) /\ \A i \in DOMAIN rows[d] : rows[d][i] # g
        BY DEF IInv, Clean, Insert
    <2>3. version[d] = "0002" => Distinct(rows'[d])
        BY <1>2, <2>1, <2>2 DEF Distinct
    <2> QED BY <1>0, <1>2, <2>3 DEF IInv, Clean
<1>5. \A c \in Containers : InOrder(c)'
    <2>1. \A c \in Containers : \A b \in Databases : holder[b] = c => rows'[b] = rows[b]
        BY <1>0, <1>2
    <2> QED BY <1>0, <2>1, Frame DEF AtHead, HeadNext
<1> QED BY <1>3, <1>4, <1>5 DEF IInv

LEMMA StepInOrder == IInv /\ [Next]_vars => IInv'
<1> SUFFICES ASSUME IInv, [Next]_vars PROVE IInv'
    OBVIOUS
<1>1. ASSUME NEW c \in Containers, Start(c) PROVE IInv'
    BY <1>1, StartInOrder
<1>2. ASSUME NEW c \in Containers, Connect(c) PROVE IInv'
    BY <1>2, ConnectInOrder
<1>3. ASSUME NEW c \in Containers, Lock(c) PROVE IInv'
    BY <1>3, LockInOrder
<1>4. ASSUME NEW c \in Containers, Create(c) PROVE IInv'
    BY <1>4, CreateInOrder
<1>5. ASSUME NEW c \in Containers, Deduplicate(c) PROVE IInv'
    BY <1>5, DeduplicateInOrder
<1>6. ASSUME NEW c \in Containers, Constrain(c) PROVE IInv'
    BY <1>6, ConstrainInOrder
<1>7. ASSUME NEW c \in Containers, Commit(c) PROVE IInv'
    <2>1. CASE version[DatabaseAt(c)] = seen[c]
        BY <1>7, <2>1, CommitInOrder
    <2>2. CASE version[DatabaseAt(c)] # seen[c]
        BY <1>7, <2>2, GiveUpInOrder DEF Commit, Still
    <2> QED BY <2>1, <2>2
<1>8. ASSUME NEW c \in Containers, Redeploy(c) PROVE IInv'
    <2>1. Shape /\ Still /\ UNCHANGED <<holder, at, seen, gone, adds>>
        BY <1>8 DEF IInv, Redeploy, Still, database, transaction
    <2>2. stage' = [stage EXCEPT ![c] = "off"]
        BY <1>8 DEF Redeploy
    <2>3. Shape'
        <3>1. stage' \in [Containers -> Stages]
            BY <2>1, <2>2 DEF Shape, Stages
        <3> QED BY <2>1, <3>1, ShapeStays DEF Shape
    <2>4. InOrder(c)'
        BY <2>1, <2>2 DEF Shape, InOrder, Working, Locking
    <2>5. \A x \in Containers \ {c} : InOrder(x)'
        BY <2>1, <2>2, OthersStay DEF Shape
    <2> QED BY <2>1, <2>3, <2>4, <2>5, StillClean DEF IInv
<1>9. ASSUME NEW c \in Containers, Fail(c) PROVE IInv'
    BY <1>9, GiveUpInOrder DEF Fail, Still, database
<1>10. ASSUME NEW c \in Containers, Crash(c) PROVE IInv'
    BY <1>10, Leaves DEF Crash, Still, database
<1>11. ASSUME NEW d \in Databases, NEW g \in Groups, Insert(d, g) PROVE IInv'
    BY <1>11, InsertInOrder
<1>12. CASE UNCHANGED vars
    <2>1. Still /\ UNCHANGED <<holder, stage, at, seen, gone, adds>>
        BY <1>12 DEF vars, Still, database, transaction
    <2>2. Shape'
        BY <2>1 DEF IInv, Still, Shape
    <2>3. \A c \in Containers : InOrder(c)'
        BY <2>1, StillClean, Frame DEF Still
    <2> QED BY <2>1, <2>2, <2>3, StillClean DEF IInv
<1> QED BY <1>1, <1>2, <1>3, <1>4, <1>5, <1>6, <1>7, <1>8, <1>9, <1>10, <1>11, <1>12 DEF Next, Boot

LEMMA AlwaysInOrder == Spec => []IInv
BY InitInOrder, StepInOrder, PTL DEF Spec
-----------------------------------------------------------------------------
(* Theorems.                                                               *)

\* Whatever the order of failures, races and redeploys, a container that serves
\* finds every database of its environment at head and constrained (main and
\* migration_targets, migrate_all.py).
THEOREM TheServedIsMigrated == Spec => []ServesAtHead
<1>1. IInv => ServesAtHead
    BY DEF IInv, InOrder, Working, Locking, Ready, AtHead, ServesAtHead
<1> QED BY AlwaysInOrder, <1>1, PTL

\* A second run of 0002 on a database at head would delete nothing and add
\* nothing, although the previous release goes on inserting.
THEOREM HeadIsFinal == Spec => []RerunChangesNothing
<1>1. IInv => RerunChangesNothing
    BY DEF IInv, Clean, RerunChangesNothing
<1> QED BY AlwaysInOrder, <1>1, PTL

\* Between the delete and the end of 0002's transaction the table has no
\* duplicate but those it has deleted: the lock keeps the previous release and
\* every other container out.
THEOREM TheLockKeepsTwinsOut == Spec => []NoTwinSlipsIn
<1>1. IInv => NoTwinSlipsIn
    <2> SUFFICES ASSUME IInv, NEW c \in Containers, stage[c] \in {"deduplicated", "constrained"}
                 PROVE  Distinct(Without(rows[DatabaseAt(c)], gone[c]))
        BY DEF NoTwinSlipsIn
    <2>1. Shape /\ Deleted(c) /\ DatabaseAt(c) \in Databases
        BY HoldsItsTable DEF IInv, InOrder, Locking
    <2>2. DOMAIN rows[DatabaseAt(c)] \subseteq Nat
        BY <2>1 DEF Shape
    <2> QED BY <2>1, <2>2, LeftDistinct DEF Deleted
<1> QED BY AlwaysInOrder, <1>1, PTL

\* No step takes the first suggestion of a group away.
THEOREM FirstsStay == Spec => FirstsSurvive
<1> DEFINE Kept == \A d \in Databases : \A i \in DOMAIN rows[d] \ DOMAIN rows'[d] :
                     \E j \in DOMAIN rows'[d] : j < i /\ rows[d][j] = rows[d][i]
<1>1. IInv /\ [Next]_vars => Kept
    <2> SUFFICES ASSUME IInv, [Next]_vars, NEW d \in Databases,
                        NEW i \in DOMAIN rows[d] \ DOMAIN rows'[d]
                 PROVE  \E j \in DOMAIN rows'[d] : j < i /\ rows[d][j] = rows[d][i]
        OBVIOUS
    <2>1. rows'[d] # rows[d]
        OBVIOUS
    <2>2. ASSUME NEW e \in Databases, NEW g \in Groups, Insert(e, g)
          PROVE  DOMAIN rows[d] \subseteq DOMAIN rows'[d]
        BY <2>2 DEF IInv, Shape, Insert
    <2>3. PICK c \in Containers : Commit(c) /\ rows' # rows
        BY <2>1, <2>2 DEF Next, Boot, Start, Connect, Lock, Create, Deduplicate, Constrain,
           Redeploy, Fail, Crash, vars, database
    <2>4. stage[c] \in {"deduplicated", "constrained"} /\ stage[c] \in Locking
        BY <2>3 DEF Commit, Locking
    <2>5. Shape /\ Deleted(c) /\ DatabaseAt(c) \in Databases
        BY <2>4, HoldsItsTable DEF IInv, InOrder
    <2>6. rows' = [rows EXCEPT ![DatabaseAt(c)] = Without(@, gone[c])]
        BY <2>3 DEF Commit
    <2>7. d = DatabaseAt(c) /\ rows'[d] = Without(rows[d], LaterTwins(rows[d]))
        BY <2>1, <2>5, <2>6 DEF Shape, Deleted
    <2>8. i \in LaterTwins(rows[d]) /\ DOMAIN rows[d] \subseteq Nat
        BY <2>5, <2>7 DEF Without, Shape
    <2> QED BY <2>7, <2>8, FirstStays
<1> QED BY AlwaysInOrder, <1>1, PTL DEF Spec, FirstsSurvive

-----------------------------------------------------------------------------
(* Types.                                                                  *)

Sheets == UNION {[I -> Groups] : I \in SUBSET (1 .. MaxId)}

\* What TypeOK says beyond Shape.
Values ==
    /\ unique \in [Databases -> BOOLEAN]
    /\ rows \in [Databases -> Sheets]
    /\ seen \in [Containers -> Versions]
    /\ gone \in [Containers -> SUBSET (1 .. MaxId)]
    /\ adds \in [Containers -> BOOLEAN]
    /\ faults \in 0 .. MaxFaults

LEMMA SheetOf ==
    ASSUME NEW table \in Sheets
    PROVE  /\ DOMAIN table \subseteq 1 .. MaxId /\ table \in [DOMAIN table -> Groups]
           /\ LaterTwins(table) \subseteq 1 .. MaxId
BY DEF Sheets, LaterTwins

LEMMA SheetWithout ==
    ASSUME NEW table \in Sheets, NEW ids
    PROVE  Without(table, ids) \in Sheets
<1>1. /\ DOMAIN table \ ids \in SUBSET (1 .. MaxId)
      /\ Without(table, ids) \in [DOMAIN table \ ids -> Groups]
    BY SheetOf DEF Without
<1> QED BY <1>1 DEF Sheets

LEMMA TransactionEnds ==
    ASSUME Values, NEW c \in Containers, NoTransaction(c)
    PROVE  /\ seen' \in [Containers -> Versions] /\ adds' \in [Containers -> BOOLEAN]
           /\ gone' \in [Containers -> SUBSET (1 .. MaxId)]
BY DEF Values, NoTransaction, Versions

LEMMA InsertValues ==
    ASSUME IInv, Values, NEW d \in Databases, NEW g \in Groups, Insert(d, g)
    PROVE  Values'
<1> DEFINE new == [i \in DOMAIN rows[d] \cup {serial[d] + 1} |->
                     IF i = serial[d] + 1 THEN g ELSE rows[d][i]]
<1>1. rows[d] \in Sheets /\ serial[d] \in 0 .. MaxId /\ serial[d] < MaxId
    BY DEF IInv, Shape, Values, Insert
<1>2. /\ DOMAIN rows[d] \cup {serial[d] + 1} \in SUBSET (1 .. MaxId)
      /\ new \in [DOMAIN rows[d] \cup {serial[d] + 1} -> Groups]
    BY <1>1, SheetOf
<1>3. new \in Sheets
    BY <1>2 DEF Sheets
<1> HIDE DEF new
<1>4. rows' = [rows EXCEPT ![d] = new]
    BY DEF Insert, new
<1> QED BY <1>3, <1>4 DEF Values, Insert, transaction

LEMMA StepValues ==
    ASSUME IInv, Values, [Next]_vars
    PROVE  Values'
<1>1. ASSUME NEW c \in Containers, Start(c) \/ Lock(c) \/ Redeploy(c) PROVE Values'
    BY <1>1 DEF Values, Start, Lock, Redeploy, database, transaction
<1>2. ASSUME NEW c \in Containers, Connect(c) PROVE Values'
    <2>1. CASE UNCHANGED transaction
        BY <1>2, <2>1 DEF Values, Connect, database, transaction
    <2>2. CASE version[DatabaseAt(c)] # "0002"
        <3>1. DatabaseAt(c) \in Databases /\ version \in [Databases -> Versions]
            BY <1>2, StandsAt DEF IInv, Shape, Connect, Working
        <3>2. seen' = [seen EXCEPT ![c] = version[DatabaseAt(c)]] /\ UNCHANGED <<gone, adds>>
            BY <1>2, <2>2 DEF Connect
        <3> QED BY <1>2, <3>1, <3>2 DEF Values, Connect, database
    <2> QED BY <1>2, <2>1, <2>2 DEF Connect
<1>3. ASSUME NEW c \in Containers, NoTransaction(c), UNCHANGED <<unique, rows>>,
             faults' \in 0 .. MaxFaults
      PROVE  Values'
    BY <1>3, TransactionEnds DEF Values
<1>4. ASSUME NEW c \in Containers, Create(c) PROVE Values'
    <2>1. CASE GiveUp(c)
        BY <1>3, <1>4, <2>1 DEF Create, GiveUp, Values, database
    <2>2. CASE adds' = [adds EXCEPT ![c] = TRUE] /\ UNCHANGED <<seen, gone>>
        BY <1>4, <2>2 DEF Create, Values, database
    <2> QED BY <1>4, <2>1, <2>2 DEF Create
<1>5. ASSUME NEW c \in Containers, Deduplicate(c) PROVE Values'
    <2>1. DatabaseAt(c) \in Databases
        BY <1>5, StandsAt DEF Deduplicate, Working, Locking
    <2>2. LaterTwins(rows[DatabaseAt(c)]) \in SUBSET (1 .. MaxId)
        BY <2>1, SheetOf DEF Values
    <2> QED BY <1>5, <2>2 DEF Deduplicate, Values, database
<1>6. ASSUME NEW c \in Containers, Constrain(c) PROVE Values'
    <2>1. CASE GiveUp(c)
        BY <1>3, <1>6, <2>1 DEF Constrain, GiveUp, Values, database
    <2>2. CASE UNCHANGED transaction
        BY <1>6, <2>2 DEF Constrain, Values, database, transaction
    <2>3. CASE adds' = [adds EXCEPT ![c] = TRUE] /\ UNCHANGED <<seen, gone>>
        BY <1>6, <2>3 DEF Constrain, Values, database
    <2> QED BY <1>6, <2>1, <2>2, <2>3 DEF Constrain
<1>7. ASSUME NEW c \in Containers, Commit(c) PROVE Values'
    <2>1. CASE version[DatabaseAt(c)] # seen[c]
        BY <1>3, <1>7, <2>1 DEF Commit, GiveUp, Values
    <2>2. CASE version[DatabaseAt(c)] = seen[c]
        <3>1. /\ unique' = [unique EXCEPT ![DatabaseAt(c)] = @ \/ adds[c]]
              /\ rows' = [rows EXCEPT ![DatabaseAt(c)] = Without(@, gone[c])]
              /\ NoTransaction(c) /\ UNCHANGED faults
            BY <1>7, <2>2 DEF Commit
        <3>2. unique' \in [Databases -> BOOLEAN]
            BY <3>1 DEF Values
        <3>3. rows' \in [Databases -> Sheets]
            BY <3>1, SheetWithout DEF Values
        <3> QED BY <3>1, <3>2, <3>3, TransactionEnds DEF Values
    <2> QED BY <2>1, <2>2
<1>8. ASSUME NEW c \in Containers, Fail(c) \/ Crash(c) PROVE Values'
    <2>1. faults' \in 0 .. MaxFaults
        BY <1>8 DEF Fail, Crash, Values
    <2> QED BY <1>3, <1>8, <2>1 DEF Fail, Crash, GiveUp, database
<1>9. CASE UNCHANGED vars
    BY <1>9 DEF vars, database, transaction, Values
<1> QED BY <1>1, <1>2, <1>4, <1>5, <1>6, <1>7, <1>8, <1>9, InsertValues DEF Next, Boot

LEMMA AlwaysValues == Spec => []Values
<1>1. Init => Values
    <2> SUFFICES ASSUME Init PROVE Values
        OBVIOUS
    <2>1. Tables \subseteq Sheets
        BY DEF Tables, Sheets
    <2>2. unique \in [Databases -> BOOLEAN] /\ rows \in [Databases -> Sheets]
        BY <2>1 DEF Init
    <2>3. /\ seen \in [Containers -> Versions] /\ adds \in [Containers -> BOOLEAN]
          /\ gone \in [Containers -> SUBSET (1 .. MaxId)] /\ faults \in 0 .. MaxFaults
        BY DEF Init, Versions
    <2> QED BY <2>2, <2>3 DEF Values
<1>2. IInv /\ Values /\ [Next]_vars => Values'
    BY StepValues
<1> QED BY AlwaysInOrder, <1>1, <1>2, PTL DEF Spec

\* Every variable keeps its type, for any databases, containers and bounds.
THEOREM TypeCorrect == Spec => []TypeOK
<1>1. IInv /\ Values => TypeOK
    BY DEF IInv, Shape, Values, Sheets, TypeOK
<1> QED BY AlwaysInOrder, AlwaysValues, <1>1, PTL

-----------------------------------------------------------------------------
(* Seen from outside.                                                      *)

Promised == [AsPromised!Next]_(AsPromised!vars)

\* The databases at head; the expression SuggestionTables knows as head.
Heads == {d \in Databases : version[d] = "0002"}

\* What 0002 leaves are the firsts of each group.
LEMMA FirstsAreLeft ==
    ASSUME NEW table, DOMAIN table \subseteq Nat
    PROVE  Without(table, LaterTwins(table)) = [i \in AsPromised!Firsts(table) |-> table[i]]
<1>1. AsPromised!Firsts(table) = DOMAIN table \ LaterTwins(table)
    BY DEF AsPromised!Firsts, LaterTwins
<1> QED BY <1>1 DEF Without

\* Where no duplicate is left there is nothing to delete.
LEMMA NothingToDelete ==
    ASSUME NEW table \in Sheets, Distinct(table)
    PROVE  Without(table, LaterTwins(table)) = table
<1>1. LaterTwins(table) = {}
    BY SheetOf DEF LaterTwins, Distinct
<1> QED BY <1>1, SheetOf DEF Without

\* A commit brings one database to head, with the firsts of its table; where
\* another container has been first it changes nothing.
LEMMA CommitSeen ==
    ASSUME IInv, Values, NEW c \in Containers, Commit(c), version[DatabaseAt(c)] = seen[c]
    PROVE  Promised
<1>0. PICK d \in Databases : d = DatabaseAt(c)
    BY HoldsItsTable DEF Commit, Locking
<1>1. Shape /\ gone[c] = LaterTwins(rows[d])
    BY <1>0 DEF IInv, InOrder, Commit, Deleted
<1>2. /\ version' = [version EXCEPT ![d] = "0002"]
      /\ rows' = [rows EXCEPT ![d] = Without(@, LaterTwins(@))]
    BY <1>0, <1>1 DEF Commit, Shape
<1>3. rows[d] \in Sheets /\ DOMAIN rows[d] \subseteq Nat /\ rows \in [Databases -> Sheets]
    BY <1>1, SheetOf DEF Values, Shape
<1>4. Heads' = Heads \cup {d}
    BY <1>1, <1>2 DEF Heads, Shape
<1>5. CASE d \in Heads
    <2>1. Distinct(rows[d])
        BY <1>1, <1>5 DEF Heads, IInv, Clean
    <2>2. rows' = rows
        <3>1. Without(rows[d], LaterTwins(rows[d])) = rows[d]
            BY <1>3, <2>1, NothingToDelete
        <3> QED BY <1>2, <1>3, <3>1
    <2> QED BY <1>4, <1>5, <2>2 DEF Promised, Heads, AsPromised!vars
<1>6. CASE d \notin Heads
    <2>1. rows' = [rows EXCEPT ![d] = [i \in AsPromised!Firsts(@) |-> @[i]]]
        BY <1>2, <1>3, FirstsAreLeft
    <2>2. AsPromised!Upgrade(d)
        BY <1>4, <1>6, <2>1 DEF AsPromised!Upgrade, Heads
    <2> QED BY <2>2 DEF Promised, AsPromised!Next
<1> QED BY <1>5, <1>6

LEMMA InsertSeen ==
    ASSUME IInv, Values, NEW d \in Databases, NEW g \in Groups, Insert(d, g)
    PROVE  Promised
<1>1. Shape /\ version' = version /\ serial[d] \in 0 .. MaxId /\ serial[d] < MaxId
    BY DEF IInv, Shape, Insert
<1>2. /\ rows' = [rows EXCEPT ![d] = [j \in DOMAIN @ \cup {serial[d] + 1} |->
                                        IF j = serial[d] + 1 THEN g ELSE @[j]]]
      /\ unique[d] => \A i \in DOMAIN rows[d] : rows[d][i] # g
    BY <1>1 DEF Insert, Values
<1>3. \A j \in DOMAIN rows[d] : j < serial[d] + 1
    BY <1>1 DEF Shape
<1>4. d \in Heads => unique[d]
    BY DEF Heads, IInv, Clean
<1>5. AsPromised!Add(d, serial[d] + 1, g)
    BY <1>1, <1>2, <1>3, <1>4 DEF AsPromised!Add, Heads
<1>6. serial[d] + 1 \in 1 .. MaxId
    BY <1>1
<1> QED BY <1>5, <1>6 DEF Promised, AsPromised!Next

LEMMA StepSeen ==
    ASSUME IInv, Values, [Next]_vars
    PROVE  Promised
<1>1. ASSUME UNCHANGED <<version, rows>> PROVE Promised
    BY <1>1 DEF Promised, AsPromised!vars
<1>2. ASSUME NEW c \in Containers, Boot(c) PROVE Promised
    <2>1. CASE Commit(c) /\ version[DatabaseAt(c)] = seen[c]
        BY <2>1, CommitSeen
    <2>2. CASE Commit(c) /\ version[DatabaseAt(c)] # seen[c]
        BY <1>1, <2>2 DEF Commit
    <2>3. CASE ~Commit(c)
        BY <1>1, <1>2, <2>3 DEF Boot, Start, Connect, Lock, Create, Deduplicate, Constrain,
           Redeploy, database
    <2> QED BY <2>1, <2>2, <2>3
<1>3. ASSUME NEW c \in Containers, Fail(c) \/ Crash(c) PROVE Promised
    BY <1>1, <1>3 DEF Fail, Crash, database
<1>4. CASE UNCHANGED vars
    BY <1>1, <1>4 DEF vars, database
<1> QED BY <1>2, <1>3, <1>4, InsertSeen DEF Next

\* Whoever looks at the suggestions of a database finds 0002 not begun or
\* done, and done once, although two containers and the previous release are at
\* work on it (spec 13): Migrations implements SuggestionTables.
THEOREM ImplementsSuggestionTables == Spec => MigratesAtOnce
<1>1. Init => AsPromised!Init
    <2> SUFFICES ASSUME Init PROVE AsPromised!Init
        OBVIOUS
    <2>1. Heads = {}
        BY DEF Init, Heads
    <2>2. rows \in [Databases -> AsPromised!Tables]
        BY DEF Init, Tables, AsPromised!Tables
    <2> QED BY <2>1, <2>2 DEF AsPromised!Init, Heads
<1>2. IInv /\ Values /\ [Next]_vars => Promised
    BY StepSeen
<1> QED BY AlwaysInOrder, AlwaysValues, <1>1, <1>2, PTL
        DEF Spec, MigratesAtOnce, AsPromised!Spec, Promised

-----------------------------------------------------------------------------
(* Nobody waits for a lock in vain: what EveryContainerServes rests on       *)
(* besides fairness.                                                         *)

\* A table is locked by a container that is at work on it, so that it will be
\* released: what has given up or died holds nothing, and a container that
\* waits for a table holds no other.
LocksAreAtWork ==
    \A d \in Databases :
      holder[d] # Nobody => stage[holder[d]] \in Locking /\ DatabaseAt(holder[d]) = d

\* A step of c that takes or keeps only the table it is at work on.
LEMMA TakesItsOwn ==
    ASSUME IInv, LocksAreAtWork, NEW c \in Containers, UNCHANGED env,
           \A x \in Containers \ {c} : stage'[x] = stage[x] /\ at'[x] = at[x],
           \A d \in Databases : holder'[d] \in {holder[d], Nobody, c},
           \A d \in Databases :
             holder'[d] = c => stage'[c] \in Locking /\ DatabaseOf[env[at'[c]]] = d
    PROVE  LocksAreAtWork'
<1> SUFFICES ASSUME NEW d \in Databases, holder'[d] # Nobody
             PROVE  stage'[holder'[d]] \in Locking /\ DatabaseOf[env'[at'[holder'[d]]]] = d
    BY DEF LocksAreAtWork, DatabaseAt
<1>1. CASE holder'[d] = c
    BY <1>1
<1>2. CASE holder'[d] # c
    <2>1. holder'[d] = holder[d] /\ holder[d] \in Containers \ {c}
        BY <1>2 DEF IInv, Shape
    <2> QED BY <2>1 DEF LocksAreAtWork, DatabaseAt
<1> QED BY <1>1, <1>2

\* A step of c after which it holds nothing.
LEMMA HoldsNothing ==
    ASSUME IInv, LocksAreAtWork, NEW c \in Containers, UNCHANGED env,
           \A x \in Containers \ {c} : stage'[x] = stage[x] /\ at'[x] = at[x],
           holder' = Released(c)
    PROVE  LocksAreAtWork'
<1>1. \A d \in Databases : holder'[d] \in {holder[d], Nobody, c} /\ holder'[d] # c
    BY DEF Released
<1> QED BY <1>1, TakesItsOwn

LEMMA IdleHoldsNothing ==
    ASSUME IInv, LocksAreAtWork, NEW c \in Containers, stage[c] \notin Locking
    PROVE  \A d \in Databases : holder[d] # c
BY DEF LocksAreAtWork

LEMMA StepAtWork ==
    ASSUME IInv, LocksAreAtWork, [Next]_vars
    PROVE  LocksAreAtWork'
<1>0. Shape
    BY DEF IInv
<1>1. ASSUME NEW c \in Containers, Start(c) \/ Redeploy(c) PROVE LocksAreAtWork'
    <2>1. \A d \in Databases : holder'[d] = holder[d] /\ holder[d] # c
        BY <1>1, IdleHoldsNothing DEF Start, Redeploy, Locking
    <2>2. \A x \in Containers \ {c} : stage'[x] = stage[x] /\ at'[x] = at[x]
        BY <1>0, <1>1 DEF Start, Redeploy, Shape
    <2> QED BY <1>1, <2>1, <2>2, TakesItsOwn DEF Start, Redeploy
<1>2. ASSUME NEW c \in Containers, Connect(c) PROVE LocksAreAtWork'
    <2>1. \A d \in Databases : holder'[d] = holder[d] /\ holder[d] # c
        BY <1>2, IdleHoldsNothing DEF Connect, Locking
    <2>2. \A x \in Containers \ {c} : stage'[x] = stage[x] /\ at'[x] = at[x]
        BY <1>0, <1>2, AdvanceShape DEF Connect, Shape
    <2> QED BY <1>2, <2>1, <2>2, TakesItsOwn DEF Connect
<1>3. ASSUME NEW c \in Containers,
             stage[c] \notin Locking, UNCHANGED <<env, at>>,
             stage' = [stage EXCEPT ![c] = "locked"],
             holder' = [holder EXCEPT ![DatabaseAt(c)] = c]
      PROVE  LocksAreAtWork'
    <2>1. \A d \in Databases : /\ holder'[d] \in {holder[d], c}
                               /\ holder'[d] = c => d = DatabaseAt(c)
        BY <1>0, <1>3, IdleHoldsNothing DEF Shape
    <2>2. stage'[c] \in Locking
        BY <1>0, <1>3 DEF Shape, Locking
    <2> QED BY <1>0, <1>3, <2>1, <2>2, TakesItsOwn DEF DatabaseAt, Shape
<1>4. ASSUME NEW c \in Containers, GiveUp(c), UNCHANGED env PROVE LocksAreAtWork'
    BY <1>0, <1>4, HoldsNothing DEF GiveUp, Shape
<1>5. ASSUME NEW c \in Containers, Lock(c) PROVE LocksAreAtWork'
    BY <1>3, <1>5 DEF Lock, Locking
<1>6. ASSUME NEW c \in Containers, Create(c) PROVE LocksAreAtWork'
    BY <1>3, <1>4, <1>6 DEF Create, Locking
<1>7. ASSUME NEW c \in Containers, NEW s \in Locking, UNCHANGED <<env, holder, at>>,
             stage[c] \in Locking, stage' = [stage EXCEPT ![c] = s]
      PROVE  LocksAreAtWork'
    BY <1>0, <1>7, TakesItsOwn DEF LocksAreAtWork, DatabaseAt, Shape
<1>8. ASSUME NEW c \in Containers, Deduplicate(c) PROVE LocksAreAtWork'
    BY <1>7, <1>8 DEF Deduplicate, Locking
<1>9. ASSUME NEW c \in Containers, Constrain(c) PROVE LocksAreAtWork'
    BY <1>4, <1>7, <1>9 DEF Constrain, Locking
<1>10. ASSUME NEW c \in Containers, Commit(c) PROVE LocksAreAtWork'
    <2>1. CASE version[DatabaseAt(c)] # seen[c]
        BY <1>4, <1>10, <2>1 DEF Commit
    <2>2. CASE version[DatabaseAt(c)] = seen[c]
        <3>1. Advance(c) /\ holder' = Released(c) /\ UNCHANGED env
            BY <1>10, <2>2 DEF Commit
        <3> QED BY <1>0, <3>1, AdvanceShape, HoldsNothing
    <2> QED BY <2>1, <2>2
<1>11. ASSUME NEW c \in Containers, Fail(c) PROVE LocksAreAtWork'
    BY <1>4, <1>11 DEF Fail
<1>12. ASSUME NEW c \in Containers, Crash(c) PROVE LocksAreAtWork'
    BY <1>0, <1>12, HoldsNothing DEF Crash, Shape
<1>13. ASSUME UNCHANGED <<env, holder, stage, at>> PROVE LocksAreAtWork'
    BY <1>13 DEF LocksAreAtWork, DatabaseAt
<1> QED BY <1>1, <1>2, <1>5, <1>6, <1>8, <1>9, <1>10, <1>11, <1>12, <1>13
        DEF Next, Boot, Insert, vars

\* Whoever waits for a table waits for a container that is between the lock and
\* the commit of it, for any containers, databases, crashes and lost connections
\* (0002, LOCK TABLE; migrate_all, one database after the other).
THEOREM NobodyWaitsForTheDead == Spec => []LocksAreAtWork
<1>1. Init => LocksAreAtWork
    BY DEF Init, LocksAreAtWork
<1>2. IInv /\ LocksAreAtWork /\ [Next]_vars => LocksAreAtWork'
    BY StepAtWork
<1> QED BY AlwaysInOrder, <1>1, <1>2, PTL DEF Spec
=============================================================================
