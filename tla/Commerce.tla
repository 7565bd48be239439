------------------------------ MODULE Commerce ------------------------------
(***************************************************************************)
(* The reads of the commerce API that take more than one step: a client    *)
(* walks GET /users page by page, and GET /orders/{id} reads the order,    *)
(* then its items, in one session.  Between any two steps the service may  *)
(* be switched to the other branch, and a seed script may empty a branch   *)
(* and fill it again.                                                      *)
(*                                                                         *)
(* A dataset is what one run of a seed script copies.  It copies in one    *)
(* transaction, so all its rows have the same created_at, the time it      *)
(* began: datasets are numbered by it.  Ids (uuid4) are numbered by their  *)
(* order in a dataset: created_at tells users of two datasets apart.       *)
(* BranchSwitch says when a switch takes effect; here it is a step.  Runs  *)
(* of the seed scripts do to a branch what BranchDataset lets them, which  *)
(* Seeding implements; the lock a TRUNCATE waits for is a step of its own. *)
(***************************************************************************)
EXTENDS Integers, Sequences, FiniteSets, SequencesExt

CONSTANTS
    Walkers,       \* clients that page through GET /users
    Readers,       \* clients of GET /orders/{id}
    MaxUsers,      \* bound: users in a dataset
    MaxPageSize,
    DefaultPageSize,
    MaxDatasets,   \* bound: datasets copied in all
    NoLimit,       \* a request without a limit
    NoCursor,      \* a request without a cursor, a last page
    Garbage        \* a cursor that is not as encode_cursor writes it

ASSUME PageAssumption ==
    /\ {MaxUsers, MaxPageSize, DefaultPageSize, MaxDatasets} \subseteq Nat \ {0}
    /\ DefaultPageSize <= MaxPageSize
    /\ NoCursor \notin [created_at : Nat, id : Nat]

Branches == {"slow", "fast"}
Empty == 0          \* no dataset
NoId == 0           \* an id that uuid.UUID rejects
Datasets == 1 .. MaxDatasets

VARIABLES
    served,     \* the branch a new session reads
    data,       \* data[b]: the dataset branch b holds
    users,      \* users[d]: how many users dataset d has
    truncating, \* truncating[b]: TRUNCATE has order_items and waits for orders
    shown,      \* shown[w]: the users walker w was shown, in order
    cursor,     \* cursor[w]: the next_cursor of its last page
    stage,      \* stage[w]: "walking" or "over"
    sources,    \* history: the datasets its pages came from
    spoilt,     \* history: whether it has spoilt the id of a cursor
    reading,    \* reading[r]: the branch and dataset of the order r has read
    answer      \* answer[r]: the status of its last answer, the items' dataset

store == <<served, data, users, truncating>>
walk == <<shown, cursor, stage, sources, spoilt>>
vars == <<store, walk, reading, answer>>

NotReading == [branch |-> "none", dataset |-> Empty]

Answer(r, status, items) ==
    answer' = [answer EXCEPT ![r] = [status |-> status, items |-> items]]

-----------------------------------------------------------------------------
(* GET /users.                                                             *)

UsersOf(d) == [created_at : {d}, id : 1 .. users[d]]

Rows(b) ==
    IF data[b] = Empty THEN {} ELSE UsersOf(data[b])

\* ORDER BY created_at DESC, id DESC.
Before(u, v) ==
    \/ u.created_at > v.created_at
    \/ u.created_at = v.created_at /\ u.id > v.id

\* The rows in that order: the i-th is the one that i - 1 others come before.
Listing(rows) ==
    [i \in 1 .. Cardinality(rows) |->
       CHOOSE u \in rows : Cardinality({v \in rows : Before(v, u)}) = i - 1]

\* Mutant: the row at the cursor is taken again.
FromCursor(c, rows) ==
    IF c = NoCursor THEN rows
    ELSE {u \in rows : \/ u.created_at < c.created_at
                       \/ u.created_at = c.created_at /\ u.id <= c.id}

\* The rows after a cursor.  If its id is no UUID the time alone decides.
AfterCursor(c, rows) ==
    IF c = NoCursor THEN rows
    ELSE {u \in rows :
            \/ u.created_at < c.created_at
            \/ c.id # NoId /\ u.created_at = c.created_at /\ u.id < c.id}

\* decode_cursor raises for what is no base64, no JSON or no object with both
\* fields, and fromisoformat for a created_at that is none; an id may be anything.
Decodes(c) == c # Garbage

\* The same cursor with an id that is none.
WithoutId(c) == IF c = NoCursor THEN NoCursor ELSE [c EXCEPT !.id = NoId]

\* The router's Query(ge=1, le=100).
Accepted(limit) == limit = NoLimit \/ limit \in 1 .. MaxPageSize

clamp_limit(limit) ==
    IF limit = NoLimit \/ limit <= 0 THEN DefaultPageSize ELSE Min({limit, MaxPageSize})

Page(limit, c) ==
    LET rows == Listing(AfterCursor(c, Rows(served)))
    IN  SubSeq(rows, 1, IF Len(rows) < limit THEN Len(rows) ELSE limit)

\* Mutant: only a page with more rows than were asked for has a next one.
NextIfMore(page, limit) == IF Len(page) > limit THEN Last(page) ELSE NoCursor

\* A full page has a next one, which may turn out to be empty.
NextCursor(page, limit) == IF Len(page) = limit THEN Last(page) ELSE NoCursor

\* The requests that are not refused (422, or 500 for the created_at): a refused
\* one changes nothing.  The client may have spoilt its cursor.
Requests(w) ==
    {r \in [limit : {NoLimit} \cup 0 .. MaxPageSize + 1,
             cursor : {cursor[w], WithoutId(cursor[w]), Garbage}] :
       Accepted(r.limit) /\ Decodes(r.cursor)}

Show(w, r, page, next) ==
    /\ shown' = [shown EXCEPT ![w] = @ \o page]
    /\ cursor' = [cursor EXCEPT ![w] = next]
    /\ stage' = [stage EXCEPT ![w] = IF next = NoCursor THEN "over" ELSE @]
    /\ sources' = [sources EXCEPT ![w] = @ \cup {data[served]}]
    /\ spoilt' = [spoilt EXCEPT ![w] = @ \/ r.cursor # cursor[w]]
    /\ UNCHANGED <<store, reading, answer>>

\* Mutant: an empty page repeats the cursor it was asked for with.
ListUsersAgain(w) ==
    /\ stage[w] # "over"
    /\ \E r \in Requests(w) :
         LET n == clamp_limit(r.limit)
             page == Page(n, r.cursor)
         IN  Show(w, r, page, IF page = <<>> THEN r.cursor ELSE NextCursor(page, n))

\* The next page.
ListUsers(w) ==
    /\ stage[w] # "over"
    /\ \E r \in Requests(w) :
         LET n == clamp_limit(r.limit)
             page == Page(n, r.cursor)
         IN  Show(w, r, page, NextCursor(page, n))

-----------------------------------------------------------------------------
(* GET /orders/{id}.                                                       *)

\* Mutant: each of the two reads has a session of its own.
ReadersOfNone(b) == {}

\* Who has read orders and not ended the session: TRUNCATE waits for them.
ReadersOf(b) == {r \in Readers : reading[r].branch = b}

\* The order, of any dataset there has been.  It waits behind a TRUNCATE.
ReadOrder(r) ==
    /\ reading[r] = NotReading
    /\ truncating[served] = FALSE
    /\ \E d \in Datasets :
         IF data[served] = d
         THEN /\ reading' = [reading EXCEPT ![r] = [branch |-> served, dataset |-> d]]
              /\ UNCHANGED answer
         ELSE /\ Answer(r, 404, Empty)
              /\ UNCHANGED reading
    /\ UNCHANGED <<store, walk>>

\* Its items, on the same connection, and the end of the session.
ReadItems(r) ==
    LET b == reading[r].branch
    IN  /\ reading[r] # NotReading
        /\ truncating[b] = FALSE
        /\ Answer(r, 200, IF data[b] = reading[r].dataset THEN data[b] ELSE Empty)
        /\ reading' = [reading EXCEPT ![r] = NotReading]
        /\ UNCHANGED <<store, walk>>

\* The connection is lost, or Postgres ends the session to break a deadlock.
ReadFails(r) ==
    /\ reading[r] # NotReading
    /\ reading' = [reading EXCEPT ![r] = NotReading]
    /\ Answer(r, 500, Empty)
    /\ UNCHANGED <<store, walk>>

-----------------------------------------------------------------------------
(* The seed scripts and the switch.                                        *)

\* TRUNCATE order_items, orders, products, users: the locks in this order.
LockItems(b) ==
    /\ truncating[b] = FALSE
    /\ truncating' = [truncating EXCEPT ![b] = TRUE]
    /\ UNCHANGED <<served, data, users, walk, reading, answer>>

Truncate(b) ==
    /\ truncating[b]
    /\ ReadersOf(b) = {}
    /\ data' = [data EXCEPT ![b] = Empty]
    /\ truncating' = [truncating EXCEPT ![b] = FALSE]
    /\ UNCHANGED <<served, users, walk, reading, answer>>

\* It is interrupted, or Postgres ends it to break a deadlock.
TruncateFails(b) ==
    /\ truncating[b]
    /\ truncating' = [truncating EXCEPT ![b] = FALSE]
    /\ UNCHANGED <<served, data, users, walk, reading, answer>>

Copied == {d \in Datasets : users[d] # 0}

\* The transaction of the copies, into a branch that is empty.  Of the runs on
\* two branches the first to begin need not be the first to commit.
Copy(b) ==
    /\ data[b] = Empty /\ truncating[b] = FALSE
    /\ \E d \in Datasets \ Copied, n \in 1 .. MaxUsers :
         /\ data' = [data EXCEPT ![b] = d]
         /\ users' = [users EXCEPT ![d] = n]
    /\ UNCHANGED <<served, truncating, walk, reading, answer>>

Switch ==
    /\ served' \in Branches \ {served}
    /\ UNCHANGED <<data, users, truncating, walk, reading, answer>>

-----------------------------------------------------------------------------
(* The specification.                                                      *)

Init ==
    /\ served \in Branches
    /\ data = [b \in Branches |-> Empty]
    /\ users = [d \in Datasets |-> 0]
    /\ truncating = [b \in Branches |-> FALSE]
    /\ shown = [w \in Walkers |-> <<>>]
    /\ cursor = [w \in Walkers |-> NoCursor]
    /\ stage = [w \in Walkers |-> "walking"]
    /\ sources = [w \in Walkers |-> {}]
    /\ spoilt = [w \in Walkers |-> FALSE]
    /\ reading = [r \in Readers |-> NotReading]
    /\ answer = [r \in Readers |-> [status |-> 0, items |-> Empty]]

Next ==
    \/ \E w \in Walkers : ListUsers(w)
    \/ \E r \in Readers : ReadOrder(r) \/ ReadItems(r) \/ ReadFails(r)
    \/ \E b \in Branches : LockItems(b) \/ Truncate(b) \/ TruncateFails(b) \/ Copy(b)
    \/ Switch

\* A walker goes on.  Nobody else needs to.
Fairness == \A w \in Walkers : WF_vars(ListUsers(w))

Spec == Init /\ [][Next]_vars /\ Fairness

-----------------------------------------------------------------------------
(* Properties.                                                             *)

\* No walk shows a user twice, although the branch is switched, emptied and
\* seeded between its pages, all users of a dataset have one created_at, and
\* the client may spoil its cursors (user_repository.py: "to avoid
\* duplicates").
NothingTwice == \A w \in Walkers : IsInjective(shown[w])

\* A walk all of whose pages came from one dataset has shown that dataset from
\* its first user to its last (spec 04, test 7), wherever the pages were cut.
WalksAreComplete ==
    \A w \in Walkers : \A d \in Datasets :
      stage[w] = "over" /\ sources[w] = {d} /\ ~spoilt[w]
        => shown[w] = Listing(UsersOf(d))

\* Whoever is answered an order is answered all of its items: no TRUNCATE comes
\* between the two reads, although none of them asks for a lock.
OrdersAreWhole ==
    [][\A r \in Readers :
         reading[r] # NotReading /\ reading'[r] = NotReading /\ answer'[r].status = 200
           => answer'[r].items = reading[r].dataset]_vars

\* A walk ends, however often the rows it walks over are replaced: a next_cursor
\* is always before the last one.
WalksEnd == \A w \in Walkers : <>(stage[w] = "over")
=============================================================================
