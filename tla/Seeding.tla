------------------------------ MODULE Seeding ------------------------------
(***************************************************************************)
(* scripts/seed_slow.py, or scripts/seed_fast.py, run by hand on its       *)
(* branch, perhaps several times at once, and interrupted at any point.    *)
(*                                                                         *)
(* --reset truncates the four tables in a statement, and a transaction, of *)
(* its own; the copies of the four tables make one transaction; the fast   *)
(* branch's indexes are created after it, one statement each.  TRUNCATE    *)
(* locks the tables one after the other, children first, and the copies    *)
(* parents first: two runs may hold what the other waits for.              *)
(*                                                                         *)
(* A dataset is named by the run that copied it: its rows are a function   *)
(* of --seed, but its ids are fresh (uuid4).                               *)
(***************************************************************************)
EXTENDS Integers, Sequences, FiniteSets

CONSTANTS
    Runs,       \* the runs of the script
    Earlier     \* the dataset of a run before these

ASSUME RunAssumption == Earlier \notin Runs

VARIABLES
    script,      \* "slow" or "fast"
    reset,       \* reset[r]: with --reset
    stage,       \* stage[r]: see Stages
    at,          \* at[r]: tables locked by the statement or transaction, indexes gone through
    datasets,    \* the runs whose rows the branch holds
    indexes,     \* which of FAST_INDEXES exist
    cut          \* history: the runs that were interrupted

run == <<script, reset>>
database == <<datasets, indexes>>
vars == <<run, stage, at, database, cut>>

Ended == {"refused", "done", "failed"}

\* "users": the copy of users is under way; "copying": it is done.
Stages == Ended \cup
    {"off", "connected", "truncating", "filling", "users", "copying", "indexing", "building"}

TypeOK ==
    /\ script \in {"slow", "fast"}
    /\ reset \in [Runs -> BOOLEAN]
    /\ stage \in [Runs -> Stages]
    /\ at \in [Runs -> Nat]
    /\ datasets \subseteq Runs \cup {Earlier}
    /\ indexes \subseteq Nat
    /\ cut \subseteq Runs

-----------------------------------------------------------------------------
(* Tables and their locks.                                                 *)

TruncateOrder == <<"order_items", "orders", "products", "users">>
CopyOrder == <<"users", "products", "orders", "order_items">>
FAST_INDEXES == <<"orders", "orders", "order_items", "order_items">>   \* each one's table

\* What r's open statement or transaction keeps from others.
Exclusive(r) == IF stage[r] = "truncating" THEN {TruncateOrder[i] : i \in 1..at[r]} ELSE {}
RowExclusive(r) == IF stage[r] \in {"users", "copying"} THEN {CopyOrder[i] : i \in 1..at[r]} ELSE {}
Share(r) == IF stage[r] = "building" THEN {FAST_INDEXES[at[r] + 1]} ELSE {}

\* Who keeps r from table t, for what it wants to do with it.
Readers(r, t) == {q \in Runs \ {r} : t \in Exclusive(q)}
Writers(r, t) == {q \in Runs \ {r} : t \in Exclusive(q) \cup Share(q)}
Builders(r, t) == {q \in Runs \ {r} : t \in Exclusive(q) \cup RowExclusive(q)}
Everyone(r, t) == Builders(r, t) \cup Writers(r, t)

\* Mutant: only users that are committed count, as in a SELECT before the copy.
NoEmails(r) == {}

\* Every dataset has user_0@example.com: the unique index keeps one run's
\* users from being inserted while another's are there, uncommitted.
SameEmails(r) == {q \in Runs \ {r} : stage[q] = "copying"}

\* For whom r waits.
WaitsFor(r) ==
    CASE stage[r] = "truncating" /\ at[r] < 4 -> Everyone(r, TruncateOrder[at[r] + 1])
      [] stage[r] = "users" -> SameEmails(r)
      [] stage[r] = "copying" /\ at[r] < 4 -> Writers(r, CopyOrder[at[r] + 1])
      [] OTHER -> {}

Become(r, s, n) ==
    /\ stage' = [stage EXCEPT ![r] = s]
    /\ at' = [at EXCEPT ![r] = n]

-----------------------------------------------------------------------------
(* A run.                                                                  *)

\* The URL is not set, or has none of _SAFE_HOST_MARKERS in it.
Refuse(r) ==
    /\ stage[r] = "off"
    /\ Become(r, "refused", 0)
    /\ UNCHANGED <<run, database, cut>>

Connect(r) ==
    /\ stage[r] = "off"
    /\ Become(r, IF reset[r] THEN "truncating" ELSE "connected", 0)
    /\ UNCHANGED <<run, database, cut>>

\* TRUNCATE's next lock.
LockNext(r) ==
    /\ stage[r] = "truncating" /\ at[r] < 4
    /\ WaitsFor(r) = {}
    /\ Become(r, "truncating", at[r] + 1)
    /\ UNCHANGED <<run, database, cut>>

\* Mutant: what follows the test for --reset belongs to its else branch.
TruncateAndReturn(r) ==
    /\ stage[r] = "truncating" /\ at[r] = 4
    /\ datasets' = {}
    /\ Become(r, "done", 0)
    /\ UNCHANGED <<run, indexes, cut>>

Truncate(r) ==
    /\ stage[r] = "truncating" /\ at[r] = 4
    /\ datasets' = {}
    /\ Become(r, "filling", 0)
    /\ UNCHANGED <<run, indexes, cut>>

\* Mutant: a branch that is not new is emptied with or without --reset.
CountAndClear(r) ==
    /\ stage[r] = "connected" /\ Readers(r, "users") = {}
    /\ datasets' = {}
    /\ Become(r, "filling", 0)
    /\ UNCHANGED <<run, indexes, cut>>

\* Without --reset a branch with users is left alone: seed_slow refuses,
\* seed_fast takes it for its own earlier work.
Count(r) ==
    /\ stage[r] = "connected" /\ Readers(r, "users") = {}
    /\ Become(r, CASE datasets = {} -> "filling"
                   [] datasets # {} /\ script = "slow" -> "failed"
                   [] datasets # {} /\ script = "fast" -> "done", 0)
    /\ UNCHANGED <<run, database, cut>>

\* The transaction begins, and with it the copy of users.
CopyUsers(r) ==
    /\ stage[r] = "filling" /\ Writers(r, "users") = {}
    /\ Become(r, "users", 1)
    /\ UNCHANGED <<run, database, cut>>

\* Mutant: emails are not unique.
InsertAnyway(r) ==
    /\ stage[r] = "users"
    /\ Become(r, "copying", 1)
    /\ UNCHANGED <<run, database, cut>>

\* The unique index makes it wait, and fail when the users are there.
InsertUsers(r) ==
    /\ stage[r] = "users" /\ WaitsFor(r) = {}
    /\ IF datasets = {} THEN Become(r, "copying", 1) ELSE Become(r, "failed", 0)
    /\ UNCHANGED <<run, database, cut>>

\* Products, orders, order_items.
CopyNext(r) ==
    /\ stage[r] = "copying" /\ at[r] < 4
    /\ WaitsFor(r) = {}
    /\ Become(r, "copying", at[r] + 1)
    /\ UNCHANGED <<run, database, cut>>

Commit(r) ==
    /\ stage[r] = "copying" /\ at[r] = 4
    /\ datasets' = datasets \cup {r}
    /\ Become(r, IF script = "fast" THEN "indexing" ELSE "done", 0)
    /\ UNCHANGED <<run, indexes, cut>>

NextIndex(r) ==
    Become(r, IF at[r] + 1 = Len(FAST_INDEXES) THEN "done" ELSE "indexing", at[r] + 1)

\* CREATE INDEX IF NOT EXISTS looks for the index under the table's lock, ...
BeginIndex(r) ==
    /\ stage[r] = "indexing" /\ Builders(r, FAST_INDEXES[at[r] + 1]) = {}
    /\ IF at[r] + 1 \in indexes THEN NextIndex(r) ELSE Become(r, "building", at[r])
    /\ UNCHANGED <<run, database, cut>>

\* ... which lets another build it too: the second one's name is taken.
EndIndex(r) ==
    /\ stage[r] = "building"
    /\ IF at[r] + 1 \in indexes THEN Become(r, "failed", 0) ELSE NextIndex(r)
    /\ indexes' = indexes \cup {at[r] + 1}
    /\ UNCHANGED <<run, datasets, cut>>

\* Mutant: the connection is not closed on the way out.
InterruptOpen(r) ==
    /\ stage[r] \notin Ended \cup {"off"} /\ r \notin cut
    /\ cut' = cut \cup {r}
    /\ UNCHANGED <<run, stage, at, database>>

\* The run is interrupted, or loses its connection.
Interrupt(r) ==
    /\ stage[r] \notin Ended \cup {"off"}
    /\ Become(r, "failed", 0)
    /\ cut' = cut \cup {r}
    /\ UNCHANGED <<run, database>>

\* Postgres ends one of the runs that wait for each other, whichever first
\* finds out.
DeadlockDetected(r) ==
    /\ \E q \in WaitsFor(r) : r \in WaitsFor(q) \/ \E p \in WaitsFor(q) : r \in WaitsFor(p)
    /\ Become(r, "failed", 0)
    /\ UNCHANGED <<run, database, cut>>

-----------------------------------------------------------------------------
(* The specification.                                                      *)

\* The branch is new, or an earlier run has seeded it.
Init ==
    /\ script \in {"slow", "fast"}
    /\ reset \in [Runs -> BOOLEAN]
    /\ stage = [r \in Runs |-> "off"]
    /\ at = [r \in Runs |-> 0]
    /\ datasets \in {{}, {Earlier}}
    /\ indexes = IF script = "fast" /\ datasets # {} THEN DOMAIN FAST_INDEXES ELSE {}
    /\ cut = {}

Step(r) ==
    \/ Refuse(r) \/ Connect(r) \/ LockNext(r) \/ Truncate(r) \/ Count(r)
    \/ CopyUsers(r) \/ InsertUsers(r) \/ CopyNext(r) \/ Commit(r)
    \/ BeginIndex(r) \/ EndIndex(r) \/ DeadlockDetected(r)

Next == \E r \in Runs : Step(r) \/ Interrupt(r)

\* A run that is not interrupted goes on; Postgres lets a statement that waits
\* for a transaction go on once that has ended, and finds deadlocks.
Fairness == \A r \in Runs : WF_vars(r \notin cut /\ Step(r))

Spec == Init /\ [][Next]_vars /\ Fairness

-----------------------------------------------------------------------------
(* Properties.                                                             *)

\* A branch never holds two datasets, although two runs may both have found it
\* empty (spec 02, invariant 5: nobody accidentally doubles the data).
NeverDoubled == \A d, e \in datasets : d = e

\* What a branch holds goes away only when a run with --reset begins, and comes
\* back only with a run's commit: no interrupted or refused run changes it.
OnlyAResetReplaces ==
    [][/\ datasets \ datasets' # {} =>
            \E r \in Runs : reset[r] /\ stage[r] = "truncating" /\ stage'[r] = "filling"
       /\ \A r \in datasets' \ datasets :
            stage[r] = "copying" /\ stage'[r] \in {"indexing", "done"}]_vars

\* However many runs are started at once, and whichever of them Postgres ends
\* in a deadlock or for a user that is there: when all have ended, and nobody
\* has interrupted one, the branch holds a dataset.
BranchEndsSeeded ==
    (/\ \A r \in Runs : stage[r] \in Ended
     /\ \E r \in Runs : stage[r] # "refused"
     /\ cut = {}) => datasets # {}

\* The branch behaves, for whoever reads it, as one dataset that comes and goes
\* in one step (BranchDataset), however the statements of the runs interleave.
ToCommit == {"off", "connected", "truncating", "filling", "users", "copying"}
AsSeen == INSTANCE BranchDataset
    WITH Datasets <- Runs \cup {Earlier},
         held <- datasets,
         spent <- {Earlier} \cup {r \in Runs : stage[r] \notin ToCommit}
ActsAsOneDataset == AsSeen!Spec

\* Every run ends: none waits for ever on another's transaction, nor on the
\* connection of one that was interrupted.
EveryRunEnds == \A r \in Runs : <>(stage[r] \in Ended \/ r \in cut)

\* Said of seed_fast (spec 03, outputs): after a run that exits 0 the indexes
\* are there.
SuccessIsIndexed ==
    \A r \in Runs : stage[r] = "done" /\ script = "fast" => indexes = DOMAIN FAST_INDEXES
=============================================================================
