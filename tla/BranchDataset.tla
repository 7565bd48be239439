--------------------------- MODULE BranchDataset ---------------------------
(***************************************************************************)
(* What whoever reads a branch may rely on while seed scripts run on it,   *)
(* without their transactions, locks and deadlocks: the branch holds no    *)
(* dataset or one, whole; one comes only when there is none, by the copies *)
(* of one run, and goes only as a whole; none comes back.                  *)
(* Seeding implements it.  Commerce reads branches that behave like it.    *)
(***************************************************************************)
CONSTANTS
    Datasets     \* each run of a script copies one at most

VARIABLES
    held,        \* the dataset the branch holds, as a set of at most one
    spent        \* the datasets that will not come, or not again

vars == <<held, spent>>

Init ==
    /\ spent \in SUBSET Datasets
    /\ held = {} \/ \E d \in spent : held = {d}

\* The copies of a run are committed.
Fill(d) ==
    /\ held = {} /\ d \notin spent
    /\ held' = {d}
    /\ spent' = spent \cup {d}

\* A run ends without copying.
Forgo(d) ==
    /\ spent' = spent \cup {d}
    /\ UNCHANGED held

\* A run with --reset truncates the tables.
Clear ==
    /\ held' = {}
    /\ UNCHANGED spent

Next == Clear \/ \E d \in Datasets : Fill(d) \/ Forgo(d)

Spec == Init /\ [][Next]_vars
=============================================================================
