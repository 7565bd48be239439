-------------------------- MODULE SuggestionTables --------------------------
(***************************************************************************)
(* What spec 13 promises of the suggestions of each database, without      *)
(* containers, locks, transactions and versions: a table is brought to     *)
(* head once and in one step, which keeps the first suggestion of every    *)
(* group and nothing else; the service adds suggestions before and after,  *)
(* and after it never a second one of a group.  Migrations implements it.  *)
(***************************************************************************)
EXTENDS Integers

CONSTANTS
    Databases,
    Groups,      \* the values of (fingerprint_id, kind, sql)
    Ids

VARIABLES
    head,        \* the databases that have been brought to head
    content      \* content[d]: the suggestions of d, id |-> group

vars == <<head, content>>

Tables == UNION {[I -> Groups] : I \in SUBSET Ids}

\* The first suggestion of every group.
Firsts(table) ==
    {i \in DOMAIN table : \A j \in DOMAIN table : table[j] = table[i] => i <= j}

Init ==
    /\ head = {}
    /\ content \in [Databases -> Tables]

Upgrade(d) ==
    /\ d \notin head
    /\ head' = head \cup {d}
    /\ content' = [content EXCEPT ![d] = [i \in Firsts(@) |-> @[i]]]

\* Ids grow.
Add(d, i, g) ==
    /\ \A j \in DOMAIN content[d] : j < i
    /\ d \in head => \A j \in DOMAIN content[d] : content[d][j] # g
    /\ content' = [content EXCEPT ![d] =
                     [j \in DOMAIN @ \cup {i} |-> IF j = i THEN g ELSE @[j]]]
    /\ UNCHANGED head

Next ==
    \E d \in Databases :
      \/ Upgrade(d)
      \/ \E i \in Ids, g \in Groups : Add(d, i, g)

Spec == Init /\ [][Next]_vars
=============================================================================
