----------------------------- MODULE Migrations -----------------------------
(***************************************************************************)
(* What a container does before it serves: docker-entrypoint.sh runs       *)
(* scripts/migrate_all.py, which runs `alembic upgrade head' on every      *)
(* database the service is configured with, one after the other, and the   *)
(* revision 0002, which removes the duplicate suggestions and adds the     *)
(* constraint that keeps them out.                                         *)
(*                                                                         *)
(* A database may be new, or stand at 0001 with the constraint or (the     *)
(* live ones) without it.  A release that serves already inserts           *)
(* suggestions meanwhile; containers may boot side by side, lose the       *)
(* connection, crash and boot again.  A revision runs in one transaction:  *)
(* what it has done so far is kept beside the database until it commits.   *)
(***************************************************************************)
EXTENDS Integers

CONSTANTS
    Containers,
    Databases,
    Groups,          \* the values of (fingerprint_id, kind, sql)
    NullGroups,      \* those whose sql is NULL
    Urls,            \* Postgres URLs, up to the spelling that _identity ignores
    DatabaseOf,      \* DatabaseOf[u]: the database u reaches
    Configurations,  \* the environments a container may be given
    Nobody,          \* no container
    MaxId,           \* bound: ids of suggestions
    MaxFaults        \* bound: crashes and lost connections

Names == <<"DATABASE_URL", "DATABASE_URL_FAST", "SLOWQUERY_STORE_URL">>
Unset == "unset"      \* missing, or blank once cleaned
Alien == "alien"      \* not a Postgres URL

ASSUME ConfigurationAssumption ==
    /\ DatabaseOf \in [Urls -> Databases]
    /\ Configurations \subseteq [1 .. 3 -> Urls \cup {Unset, Alien}]
    /\ Unset \notin Urls /\ Alien \notin Urls
    /\ NullGroups \subseteq Groups
    /\ Nobody \notin Containers
    /\ MaxId \in Nat /\ MaxFaults \in Nat

Versions == {"none", "0001", "0002"}
Stages == {"off", "connecting", "revising", "locked", "deduplicated",
           "constrained", "serving", "down"}

VARIABLES
    env,         \* the environment every container is given
    version,     \* version[d]: alembic_version
    unique,      \* unique[d]: uq_suggestions_fp_kind_sql exists
    rows,        \* rows[d]: the suggestions, id |-> group
    serial,      \* serial[d]: the last id given out
    holder,      \* holder[d]: whose transaction has locked suggestions
    stage,       \* stage[c]: how far container c has come
    at,          \* at[c]: the name whose database c is at
    seen,        \* seen[c]: the version its transaction has read
    gone,        \* gone[c]: the ids its transaction has deleted
    adds,        \* adds[c]: its transaction has created the constraint
    faults       \* crashes and lost connections so far

database == <<version, unique, rows, serial>>
transaction == <<seen, gone, adds>>
vars == <<env, database, holder, stage, at, transaction, faults>>

-----------------------------------------------------------------------------
(* migration_targets: the names in order, each database identity once.     *)

Configured(i) == env[i] \notin {Unset, Alien}

ConfigurationError == env[1] = Unset \/ \E i \in 1 .. 3 : env[i] = Alien

IsTarget(i) ==
    /\ Configured(i)
    /\ \A j \in 1 .. i - 1 : env[j] # env[i]

TargetsAfter(i) == {j \in i + 1 .. 3 : IsTarget(j)}

First(S) == CHOOSE i \in S : \A j \in S : i <= j

DatabaseAt(c) == DatabaseOf[env[at[c]]]

-----------------------------------------------------------------------------
(* Suggestions.                                                            *)

\* Mutant: `=' in the place of IS NOT DISTINCT FROM.
EqualTwins(table) ==
    {later \in DOMAIN table :
       \E earlier \in DOMAIN table :
         later > earlier /\ table[later] = table[earlier] /\ table[later] \notin NullGroups}

\* Mutant: the newest of a group is kept.
EarlierTwins(table) ==
    {earlier \in DOMAIN table :
       \E later \in DOMAIN table : later > earlier /\ table[later] = table[earlier]}

\* Mutant: nothing is deleted.
NoTwins(table) == {}

\* The rows 0002 deletes: those with a twin of a lower id, NULLs alike.
LaterTwins(table) ==
    {later \in DOMAIN table :
       \E earlier \in DOMAIN table : later > earlier /\ table[later] = table[earlier]}

Without(table, ids) == [i \in DOMAIN table \ ids |-> table[i]]

\* Whether UNIQUE (fingerprint_id, kind, sql) refuses the table; to it two
\* NULLs are distinct.
Refused(table) ==
    \E i, j \in DOMAIN table :
      i # j /\ table[i] = table[j] /\ table[i] \notin NullGroups

Distinct(table) == \A i, j \in DOMAIN table : table[i] = table[j] => i = j

\* The previous release stores a suggestion, unless the table is locked or the
\* constraint refuses the row.  It writes '' where there is no DDL, not NULL.
Insert(d, g) ==
    /\ version[d] # "none"
    /\ holder[d] = Nobody
    /\ serial[d] < MaxId
    /\ g \notin NullGroups
    /\ unique[d] => \A i \in DOMAIN rows[d] : rows[d][i] # g
    /\ serial' = [serial EXCEPT ![d] = @ + 1]
    /\ rows' = [rows EXCEPT ![d] =
                  [i \in DOMAIN @ \cup {serial[d] + 1} |->
                     IF i = serial[d] + 1 THEN g ELSE @[i]]]
    /\ UNCHANGED <<env, version, unique, holder, stage, at, transaction, faults>>

-----------------------------------------------------------------------------
(* The container.                                                          *)

NoTransaction(c) ==
    /\ seen' = [seen EXCEPT ![c] = "none"]
    /\ gone' = [gone EXCEPT ![c] = {}]
    /\ adds' = [adds EXCEPT ![c] = FALSE]

\* The entrypoint starts and migrate_all works out its targets.
Start(c) ==
    /\ stage[c] = "off"
    /\ IF ConfigurationError
       THEN /\ stage' = [stage EXCEPT ![c] = "down"]
            /\ UNCHANGED at
       ELSE /\ stage' = [stage EXCEPT ![c] = "connecting"]
            /\ at' = [at EXCEPT ![c] = First(TargetsAfter(0))]
    /\ UNCHANGED <<env, database, holder, transaction, faults>>

\* The target is at head: the next one, or the server after the last.
Advance(c) ==
    IF TargetsAfter(at[c]) = {}
    THEN /\ stage' = [stage EXCEPT ![c] = "serving"]
         /\ UNCHANGED at
    ELSE /\ stage' = [stage EXCEPT ![c] = "connecting"]
         /\ at' = [at EXCEPT ![c] = First(TargetsAfter(at[c]))]

\* alembic connects, begins and reads the version; at head it has nothing to do.
Connect(c) ==
    /\ stage[c] = "connecting"
    /\ IF version[DatabaseAt(c)] = "0002"
       THEN Advance(c) /\ UNCHANGED transaction
       ELSE /\ stage' = [stage EXCEPT ![c] = "revising"]
            /\ seen' = [seen EXCEPT ![c] = version[DatabaseAt(c)]]
            /\ UNCHANGED <<at, gone, adds>>
    /\ UNCHANGED <<env, database, holder, faults>>

Released(c) == [d \in Databases |-> IF holder[d] = c THEN Nobody ELSE holder[d]]

\* Mutant: migrate_all goes on to the next target after a failure.
GoOn(c) == Advance(c) /\ holder' = Released(c) /\ NoTransaction(c)

\* alembic exits with an error: its transaction is rolled back, migrate_all
\* and with it the entrypoint exit 1.
GiveUp(c) ==
    /\ stage' = [stage EXCEPT ![c] = "down"]
    /\ holder' = Released(c)
    /\ NoTransaction(c)
    /\ UNCHANGED at

\* Mutant: 0002 does not lock the table.
LockNothing(c) ==
    /\ stage[c] = "revising" /\ seen[c] = "0001"
    /\ stage' = [stage EXCEPT ![c] = "locked"]
    /\ UNCHANGED <<env, database, holder, at, transaction, faults>>

\* 0002 locks the table, once no other transaction has it.
Lock(c) ==
    /\ stage[c] = "revising" /\ seen[c] = "0001"
    /\ holder[DatabaseAt(c)] = Nobody
    /\ stage' = [stage EXCEPT ![c] = "locked"]
    /\ holder' = [holder EXCEPT ![DatabaseAt(c)] = c]
    /\ UNCHANGED <<env, database, at, transaction, faults>>

\* On a new database 0001 comes first and creates the tables, with the
\* constraint; two that create them at once wait for each other, and the
\* second fails if the first commits.
Create(c) ==
    /\ stage[c] = "revising" /\ seen[c] = "none"
    /\ holder[DatabaseAt(c)] = Nobody
    /\ IF version[DatabaseAt(c)] = "none"
       THEN /\ stage' = [stage EXCEPT ![c] = "locked"]
            /\ holder' = [holder EXCEPT ![DatabaseAt(c)] = c]
            /\ adds' = [adds EXCEPT ![c] = TRUE]
            /\ UNCHANGED <<at, seen, gone>>
       ELSE GiveUp(c)
    /\ UNCHANGED <<env, database, faults>>

Deduplicate(c) ==
    /\ stage[c] = "locked"
    /\ stage' = [stage EXCEPT ![c] = "deduplicated"]
    /\ gone' = [gone EXCEPT ![c] = LaterTwins(rows[DatabaseAt(c)])]
    /\ UNCHANGED <<env, database, holder, at, seen, adds, faults>>

\* The constraint is created only where it is missing.
Constrain(c) ==
    /\ stage[c] = "deduplicated"
    /\ LET d == DatabaseAt(c) IN
       IF unique[d] \/ adds[c]
       THEN /\ stage' = [stage EXCEPT ![c] = "constrained"]
            /\ UNCHANGED <<holder, at, transaction>>
       ELSE IF Refused(Without(rows[d], gone[c]))
       THEN GiveUp(c)
       ELSE /\ stage' = [stage EXCEPT ![c] = "constrained"]
            /\ adds' = [adds EXCEPT ![c] = TRUE]
            /\ UNCHANGED <<holder, at, seen, gone>>
    /\ UNCHANGED <<env, database, faults>>

\* alembic moves the version from the one it has read, which must be there
\* still, and commits.
Commit(c) ==
    /\ stage[c] = "constrained"
    /\ LET d == DatabaseAt(c) IN
       IF version[d] = seen[c]
       THEN /\ version' = [version EXCEPT ![d] = "0002"]
            /\ unique' = [unique EXCEPT ![d] = @ \/ adds[c]]
            /\ rows' = [rows EXCEPT ![d] = Without(@, gone[c])]
            /\ holder' = Released(c)
            /\ NoTransaction(c)
            /\ Advance(c)
       ELSE GiveUp(c) /\ UNCHANGED <<version, unique, rows>>
    /\ UNCHANGED <<env, serial, faults>>

\* The connection is lost, or a statement fails.
Fail(c) ==
    /\ stage[c] \in Stages \ {"off", "serving", "down"}
    /\ faults < MaxFaults
    /\ faults' = faults + 1
    /\ GiveUp(c)
    /\ UNCHANGED <<env, database>>

\* The container dies, or the free plan puts it to sleep.
Crash(c) ==
    /\ stage[c] \in Stages \ {"off", "down"}
    /\ faults < MaxFaults
    /\ faults' = faults + 1
    /\ stage' = [stage EXCEPT ![c] = "off"]
    /\ holder' = Released(c)
    /\ NoTransaction(c)
    /\ UNCHANGED <<env, database, at>>

\* A container that did not start is deployed again.
Redeploy(c) ==
    /\ stage[c] = "down"
    /\ stage' = [stage EXCEPT ![c] = "off"]
    /\ UNCHANGED <<env, database, holder, at, transaction, faults>>

-----------------------------------------------------------------------------
(* The databases a deploy can find, and the specification.                 *)

Tables == UNION {[1 .. n -> Groups] : n \in 0 .. MaxId}

\* New; or made by 0001, with the constraint from its later edit or without.
Found(v, u, table) ==
    \/ v = "none" /\ ~u /\ DOMAIN table = {}
    \/ v = "0001" /\ (u => ~Refused(table))

Init ==
    /\ env \in Configurations
    /\ version \in [Databases -> {"none", "0001"}]
    /\ unique \in [Databases -> BOOLEAN]
    /\ rows \in [Databases -> Tables]
    /\ \A d \in Databases : Found(version[d], unique[d], rows[d])
    /\ serial \in [Databases -> 0 .. MaxId]
    /\ \A d \in Databases : DOMAIN rows[d] = 1 .. serial[d]
    /\ holder = [d \in Databases |-> Nobody]
    /\ stage = [c \in Containers |-> "off"]
    /\ at = [c \in Containers |-> 1]
    /\ seen = [c \in Containers |-> "none"]
    /\ gone = [c \in Containers |-> {}]
    /\ adds = [c \in Containers |-> FALSE]
    /\ faults = 0

Boot(c) ==
    \/ Start(c) \/ Connect(c) \/ Lock(c) \/ Create(c)
    \/ Deduplicate(c) \/ Constrain(c) \/ Commit(c) \/ Redeploy(c)

Next ==
    \/ \E c \in Containers : Boot(c) \/ Fail(c) \/ Crash(c)
    \/ \E d \in Databases, g \in Groups : Insert(d, g)

\* A container that has not died goes on, and one that gave up is deployed
\* again; nothing obliges the previous release to insert.
Fairness == \A c \in Containers : WF_vars(Boot(c))

Spec == Init /\ [][Next]_vars /\ Fairness

-----------------------------------------------------------------------------
(* Properties.                                                             *)

\* Type invariant.
TypeOK ==
    /\ env \in Configurations
    /\ version \in [Databases -> Versions]
    /\ unique \in [Databases -> BOOLEAN]
    /\ rows \in [Databases -> UNION {[I -> Groups] : I \in SUBSET (1 .. MaxId)}]
    /\ serial \in [Databases -> 0 .. MaxId]
    /\ holder \in [Databases -> Containers \cup {Nobody}]
    /\ stage \in [Containers -> Stages]
    /\ at \in [Containers -> 1 .. 3]
    /\ seen \in [Containers -> Versions]
    /\ gone \in [Containers -> SUBSET (1 .. MaxId)]
    /\ adds \in [Containers -> BOOLEAN]
    /\ faults \in 0 .. MaxFaults

\* A container that serves finds every database its environment names at head,
\* whatever the order of failures, races and redeploys that brought it there
\* (spec 13, invariants 2 and 6).
ServesAtHead ==
    \A c \in Containers :
      stage[c] = "serving" =>
        /\ ~ConfigurationError
        /\ \A i \in 1 .. 3 :
             env[i] # Unset => /\ version[DatabaseOf[env[i]]] = "0002"
                               /\ unique[DatabaseOf[env[i]]]

\* At head there is nothing left that running 0002 again would delete, nor a
\* constraint to add, although the previous release inserts before, between and
\* after its statements (spec 13, invariant 3; the NULLs that the constraint
\* lets through included).
RerunChangesNothing ==
    \A d \in Databases :
      version[d] = "0002" => unique[d] /\ Distinct(rows[d])

\* Between the delete and the constraint no duplicate slips in: this is what
\* the lock is for (0002, lines 21-23).
NoTwinSlipsIn ==
    \A c \in Containers :
      stage[c] \in {"deduplicated", "constrained"} =>
        Distinct(Without(rows[DatabaseAt(c)], gone[c]))

\* Of a group of duplicates the first suggestion survives, and so does one that
\* has no twin, whoever migrates at the same time (spec 13, invariant 4).
FirstsSurvive ==
    [][\A d \in Databases : \A i \in DOMAIN rows[d] \ DOMAIN rows'[d] :
         \E j \in DOMAIN rows'[d] : j < i /\ rows[d][j] = rows[d][i]]_vars

\* Seen from outside, 0002 is one step of each database, done once, whatever
\* crashes, races and inserts its statements are in the middle of.
AsPromised ==
    INSTANCE SuggestionTables
    WITH Ids <- 1 .. MaxId, head <- {d \in Databases : version[d] = "0002"}, content <- rows

MigratesAtOnce == AsPromised!Spec

\* With a usable environment every container serves in the end, after the
\* crashes, the lost connections and the boots lost to another container.
EveryContainerServes ==
    ~ConfigurationError => <>[](\A c \in Containers : stage[c] = "serving")
=============================================================================
