--------------------------- MODULE CommerceProofs ---------------------------
(* Commerce, for any number of readers, walkers, datasets and rows.          *)
(* Part 1, the reads of an order: while a reader is between its two reads,   *)
(* its branch keeps the dataset it reads, since a TRUNCATE waits for it and  *)
(* a copy needs an empty branch.                                             *)
(* Part 2, the pages of list_users: what a cursor leaves of a dataset is an  *)
(* initial segment of its ids, a page counts down from the last of them, and *)
(* a walk's cursor is the last user it has been shown.                       *)
(* Part 3, the branches: each is a BranchDataset.                            *)
EXTENDS Commerce, FiniteSetTheorems, SequenceTheorems, TLAPS

Places == [branch : Branches, dataset : Datasets]

TypeOK ==
    /\ served \in Branches
    /\ data \in [Branches -> {Empty} \cup Datasets]
    /\ reading \in [Readers -> {NotReading} \cup Places]
    /\ answer \in [Readers -> [status : Nat, items : {Empty} \cup Datasets]]

ReadersKeepTheirData ==
    \A r \in Readers : reading[r] # NotReading => data[reading[r].branch] = reading[r].dataset

IInv == TypeOK /\ ReadersKeepTheirData

NoPlaceIsNotReading == NotReading \notin Places

LEMMA ReadingIsAPlace == NoPlaceIsNotReading
  BY DEF NoPlaceIsNotReading, NotReading, Places, Branches

LEMMA InitInv == Init => IInv
  BY DEF Init, IInv, TypeOK, ReadersKeepTheirData, NotReading, Empty

LEMMA NextInv == IInv /\ [Next]_vars => IInv'
<1> SUFFICES ASSUME IInv, [Next]_vars PROVE IInv'
  OBVIOUS
<1> USE DEF IInv, TypeOK, ReadersKeepTheirData
<1>1. ASSUME NEW w \in Walkers, ListUsers(w) PROVE IInv'
  <2>1. UNCHANGED <<store, reading, answer>>
    BY <1>1 DEF ListUsers, Show
  <2> QED BY <2>1 DEF store
<1>2. ASSUME NEW r \in Readers, ReadOrder(r) PROVE IInv'
  <2>1. UNCHANGED <<served, data>>
    BY <1>2 DEF ReadOrder, store
  <2>2. PICK d \in Datasets :
          IF data[served] = d
          THEN reading' = [reading EXCEPT ![r] = [branch |-> served, dataset |-> d]] /\ UNCHANGED answer
          ELSE Answer(r, 404, Empty) /\ UNCHANGED reading
    BY <1>2 DEF ReadOrder
  <2>3. CASE data[served] = d
    BY <2>1, <2>2, <2>3 DEF Places
  <2>4. CASE data[served] # d
    BY <2>1, <2>2, <2>4 DEF Answer
  <2> QED BY <2>3, <2>4
<1>3. ASSUME NEW r \in Readers, ReadItems(r) PROVE IInv'
  <2>1. UNCHANGED <<served, data>> /\ reading' = [reading EXCEPT ![r] = NotReading]
    BY <1>3 DEF ReadItems, store
  <2>2. PICK items \in {Empty} \cup Datasets : Answer(r, 200, items)
    BY <1>3 DEF ReadItems, Places
  <2> QED BY <2>1, <2>2 DEF Answer
<1>4. ASSUME NEW r \in Readers, ReadFails(r) PROVE IInv'
  BY <1>4 DEF ReadFails, store, Answer
<1>5. ASSUME NEW b \in Branches, LockItems(b) \/ TruncateFails(b) PROVE IInv'
  BY <1>5 DEF LockItems, TruncateFails
<1>6. ASSUME NEW b \in Branches, Truncate(b) PROVE IInv'
  <2>1. \A r \in Readers : reading[r].branch # b
    BY <1>6 DEF Truncate, ReadersOf
  <2> QED BY <1>6, <2>1 DEF Truncate, Places
<1>7. ASSUME NEW b \in Branches, Copy(b) PROVE IInv'
  <2>1. PICK d \in Datasets : data' = [data EXCEPT ![b] = d]
    BY <1>7 DEF Copy
  <2>2. data[b] = Empty /\ UNCHANGED <<served, reading, answer>>
    BY <1>7 DEF Copy
  <2>3. \A r \in Readers : reading[r] # NotReading => reading[r].branch # b
    BY <2>2 DEF Places, Datasets, Empty
  <2> QED BY <2>1, <2>2, <2>3 DEF Places
<1>8. CASE Switch
  BY <1>8 DEF Switch
<1>9. CASE UNCHANGED vars
  BY <1>9 DEF vars, store
<1> QED BY <1>1, <1>2, <1>3, <1>4, <1>5, <1>6, <1>7, <1>8, <1>9 DEF Next

\* get_order_with_items reads an order and its items in two statements: the
\* items it answers with are those of the order's own dataset, all of them.
THEOREM OrdersAreAnsweredWhole == Spec => OrdersAreWhole
<1> DEFINE Whole ==
      \A r \in Readers :
         reading[r] # NotReading /\ reading'[r] = NotReading /\ answer'[r].status = 200
           => answer'[r].items = reading[r].dataset
<1>1. IInv /\ [Next]_vars => [Whole]_vars
  <2> SUFFICES ASSUME IInv, Next, NEW r \in Readers,
                      reading[r] # NotReading, reading'[r] = NotReading, answer'[r].status = 200
               PROVE  answer'[r].items = reading[r].dataset
    OBVIOUS
  <2> USE DEF IInv, TypeOK
  <2>1. PICK q \in Readers : ReadOrder(q) \/ ReadItems(q) \/ ReadFails(q)
    BY DEF Next, ListUsers, Show, LockItems, Truncate, TruncateFails, Copy, Switch
  <2>2. CASE ReadOrder(q)
    <3>1. reading' = reading \/ \E d : reading' = [reading EXCEPT ![q] = [branch |-> served, dataset |-> d]] /\ d \in Datasets
      BY <2>2 DEF ReadOrder
    <3> QED BY <3>1, ReadingIsAPlace DEF NoPlaceIsNotReading, Places
  <2>3. CASE ReadItems(q)
    <3>1. q = r
      BY <2>3 DEF ReadItems
    <3>2. data[reading[r].branch] = reading[r].dataset
      BY DEF ReadersKeepTheirData
    <3> QED BY <2>3, <3>1, <3>2 DEF ReadItems, Answer
  <2>4. CASE ReadFails(q)
    <3>1. q = r
      BY <2>4 DEF ReadFails
    <3> QED BY <2>4, <3>1 DEF ReadFails, Answer
  <2> QED BY <2>1, <2>2, <2>3, <2>4
<1>2. Spec => [][Whole]_vars
  BY <1>1, InitInv, NextInv, PTL DEF Spec
<1> QED BY <1>2 DEF OrdersAreWhole

-----------------------------------------------------------------------------
(* Part 2: the pages.                                                        *)

Users == [created_at : Datasets, id : 1 .. MaxUsers]
Row(d, k) == [created_at |-> d, id |-> k]

\* The users of dataset d from the a-th to the b-th, and n of them from the
\* m-th down.
Between(d, a, b) == [created_at : {d}, id : a .. b]
Down(d, m, n) == [i \in 1 .. n |-> Row(d, m + 1 - i)]

LEMMA RowsBetween ==
    ASSUME NEW d, NEW a, NEW b, NEW u
    PROVE  /\ u \in Between(d, a, b) <=> \E k \in a .. b : u = Row(d, k)
           /\ u \in Between(d, a, b) => u.created_at = d /\ u.id \in a .. b /\ u = Row(d, u.id)
BY DEF Between, Row

LEMMA RowsAreRows ==
    ASSUME NEW d, NEW k
    PROVE  /\ Row(d, k).created_at = d /\ Row(d, k).id = k
           /\ \A e, j : Row(d, k) = Row(e, j) => d = e /\ k = j
BY DEF Row

LEMMA CountRows ==
    ASSUME NEW d, NEW a \in Int, NEW b \in Int
    PROVE  Cardinality(Between(d, a, b)) = IF a > b THEN 0 ELSE b - a + 1
<1> DEFINE f == [k \in a .. b |-> Row(d, k)]
<1>1. f \in Bijection(a .. b, Between(d, a, b))
  BY RowsBetween, RowsAreRows DEF Bijection, Injection, Surjection, IsInjective
<1> QED BY <1>1, FS_Interval, FS_Bijection DEF ExistsBijection

\* A listing of the first m users of a dataset counts down from the m-th.
LEMMA ListingCountsDown ==
    ASSUME NEW d \in Nat, NEW m \in Nat
    PROVE  Listing(Between(d, 1, m)) = Down(d, m, m)
<1> DEFINE rows == Between(d, 1, m)
           Earlier(u) == {v \in rows : Before(v, u)}
<1>1. Cardinality(rows) = m
  BY CountRows
<1>2. ASSUME NEW k \in 1 .. m
      PROVE  Cardinality(Earlier(Row(d, k))) = m - k
  <2>1. ASSUME NEW v
        PROVE  v \in Earlier(Row(d, k)) <=> v \in Between(d, k + 1, m)
    BY RowsBetween, RowsAreRows DEF Before
  <2>2. Earlier(Row(d, k)) = Between(d, k + 1, m)
    BY <2>1
  <2> QED BY <2>2, CountRows
<1>3. ASSUME NEW i \in 1 .. m
      PROVE  (CHOOSE u \in rows : Cardinality(Earlier(u)) = i - 1) = Row(d, m + 1 - i)
  <2>1. Row(d, m + 1 - i) \in rows /\ Cardinality(Earlier(Row(d, m + 1 - i))) = i - 1
    BY <1>2, RowsBetween
  <2>2. \A u \in rows : Cardinality(Earlier(u)) = i - 1 => u = Row(d, m + 1 - i)
    BY <1>2, RowsBetween
  <2> HIDE DEF rows, Earlier
  <2> QED BY <2>1, <2>2
<1> QED BY <1>1, <1>3 DEF Listing, Down

\* The first n of the first m users of dataset d are what a cursor leaves of
\* them, and come after it.
Leaves(c, d, m, n) ==
    /\ AfterCursor(c, Between(d, 1, m)) = Between(d, 1, n)
    /\ c = NoCursor => n = m
    /\ \A k \in 1 .. m : c = Row(d, k) => n = k - 1
    /\ c # NoCursor => n = 0 \/ d < c.created_at \/ (d = c.created_at /\ n < c.id)

Cursors == {NoCursor} \cup [created_at : Nat, id : Nat]

LEMMA CursorLeaves ==
    ASSUME NEW d \in Nat, NEW m \in Nat, NEW c \in Cursors
    PROVE  \E n \in 0 .. m : Leaves(c, d, m, n)
<1> DEFINE n == IF c = NoCursor \/ d < c.created_at THEN m
                ELSE IF d > c.created_at \/ c.id = NoId THEN 0
                ELSE IF c.id - 1 < m THEN c.id - 1 ELSE m
<1>1. c # NoCursor => c.created_at \in Nat /\ c.id \in Nat
  BY DEF Cursors
<1>2. n \in 0 .. m
  BY <1>1 DEF NoId
<1>3. ASSUME NEW u
      PROVE  u \in AfterCursor(c, Between(d, 1, m)) <=> u \in Between(d, 1, n)
  BY <1>1, RowsBetween, RowsAreRows DEF AfterCursor, NoId
<1>4. AfterCursor(c, Between(d, 1, m)) = Between(d, 1, n)
  BY <1>3
<1>5. ASSUME NEW k \in 1 .. m, c = Row(d, k) PROVE n = k - 1
  <2>1. c \in [created_at : Nat, id : Nat] /\ c.created_at = d /\ c.id = k
    BY <1>5 DEF Row
  <2>2. c # NoCursor
    BY <2>1, PageAssumption
  <2>3. n = c.id - 1
    BY <2>1, <2>2 DEF NoId
  <2> HIDE DEF n
  <2> QED BY <2>1, <2>3
<1>6. c # NoCursor => n = 0 \/ d < c.created_at \/ (d = c.created_at /\ n < c.id)
  BY <1>1 DEF NoId
<1>7. c = NoCursor => n = m
  OBVIOUS
<1> HIDE DEF n
<1> QED BY <1>2, <1>4, <1>5, <1>6, <1>7 DEF Leaves

LEMMA DownIsASeq ==
    ASSUME NEW d, NEW m \in Nat, NEW n \in 0 .. m
    PROVE  /\ Down(d, m, n) \in Seq(Between(d, 1, m))
           /\ Len(Down(d, m, n)) = n
           /\ \A i \in 1 .. n : Down(d, m, n)[i] = Row(d, m + 1 - i)
           /\ n = 0 <=> Down(d, m, n) = <<>>
<1>1. \A i \in 1 .. n : Row(d, m + 1 - i) \in Between(d, 1, m)
  BY RowsBetween
<1>2. Down(d, m, n) \in [1 .. n -> Between(d, 1, m)]
  BY <1>1 DEF Down
<1> QED BY <1>2 DEF Down

LEMMA DownCut ==
    ASSUME NEW d, NEW m \in Nat, NEW n \in 0 .. m
    PROVE  SubSeq(Down(d, m, m), 1, n) = Down(d, m, n)
<1> DEFINE s == Down(d, m, m)
           t == SubSeq(s, 1, n)
<1>1. \A i \in 1 .. n : s[i] \in Between(d, 1, m) /\ s[i] = Row(d, m + 1 - i)
  BY DownIsASeq, RowsBetween
<1>2. /\ t \in Seq(Between(d, 1, m))
      /\ Len(t) = IF 1 <= n THEN n - 1 + 1 ELSE 0
      /\ \A i \in 1 .. n - 1 + 1 : t[i] = s[1 + i - 1]
  <2> HIDE DEF s
  <2> QED BY <1>1, SubSeqProperties
<1>3. Len(t) = n /\ \A i \in 1 .. n : t[i] = Row(d, m + 1 - i)
  BY <1>1, <1>2
<1>4. Len(Down(d, m, n)) = n /\ Down(d, m, n) \in Seq(Between(d, 1, m))
      /\ \A i \in 1 .. n : Down(d, m, n)[i] = Row(d, m + 1 - i)
  BY DownIsASeq
<1>5. t \in [1 .. n -> Between(d, 1, m)] /\ Down(d, m, n) \in [1 .. n -> Between(d, 1, m)]
  BY <1>2, <1>3, <1>4, LenProperties
<1>6. t = Down(d, m, n)
  <2> HIDE DEF s, t
  <2> QED BY <1>3, <1>4, <1>5
<1> QED BY <1>6

\* A page is the first few of what its cursor leaves of the dataset served.
LEMMA PageCountsDown ==
    ASSUME NEW limit \in Nat \ {0},
           NEW c \in Cursors,
           NEW d \in Nat, data[served] = d,
           NEW m \in Nat, m = IF d = Empty THEN 0 ELSE users[d]
    PROVE  \E n \in 0 .. m :
             /\ Leaves(c, d, m, n)
             /\ Page(limit, c) = Down(d, n, IF n < limit THEN n ELSE limit)
<1>1. Rows(served) = Between(d, 1, m)
  <2>1. CASE d = Empty
    <3>1. \A u : u \notin Between(d, 1, 0)
      BY RowsBetween
    <3> QED BY <2>1, <3>1 DEF Rows
  <2>2. CASE d # Empty
    BY <2>2 DEF Rows, UsersOf, Between
  <2> QED BY <2>1, <2>2
<1>2. PICK n \in 0 .. m : Leaves(c, d, m, n)
  BY CursorLeaves
<1>3. Listing(AfterCursor(c, Rows(served))) = Down(d, n, n) /\ Len(Down(d, n, n)) = n
  BY <1>1, <1>2, ListingCountsDown, DownIsASeq DEF Leaves
<1> DEFINE q == IF n < limit THEN n ELSE limit
<1>4. Page(limit, c) = Down(d, n, q)
  <2>1. Page(limit, c) = SubSeq(Down(d, n, n), 1, q)
    BY ONLY <1>3 DEF Page
  <2>2. n \in Nat /\ q \in 0 .. n
    OBVIOUS
  <2> QED BY ONLY <2>1, <2>2, DownCut
<1> QED BY <1>2, <1>4

LEMMA RequestIsSane ==
    ASSUME NEW w \in Walkers, cursor[w] \in {NoCursor} \cup Users, NEW r \in Requests(w)
    PROVE  /\ clamp_limit(r.limit) \in Nat \ {0}
           /\ r.cursor \in Cursors
           /\ r.cursor = NoCursor <=> cursor[w] = NoCursor
           /\ cursor[w] # NoCursor =>
                /\ r.cursor.created_at = cursor[w].created_at
                /\ r.cursor.id \in {NoId, cursor[w].id}
<1> USE PageAssumption
<1>1. r.limit = NoLimit \/ r.limit \in 1 .. MaxPageSize
  BY DEF Requests, Accepted
<1>2. r.cursor \in {cursor[w], WithoutId(cursor[w])}
  BY DEF Requests, Decodes
<1>3. clamp_limit(r.limit) \in Nat \ {0}
  <2>1. CASE r.limit = NoLimit \/ r.limit <= 0
    BY <2>1 DEF clamp_limit
  <2>2. CASE ~(r.limit = NoLimit \/ r.limit <= 0)
    <3>1. r.limit \in 1 .. MaxPageSize
      BY <1>1, <2>2
    <3>2. Min({r.limit, MaxPageSize}) = r.limit
      BY <3>1 DEF Min
    <3> QED BY <2>2, <3>1, <3>2 DEF clamp_limit
  <2> QED BY <2>1, <2>2
<1>4. cursor[w] # NoCursor =>
        /\ WithoutId(cursor[w]) \in [created_at : Nat, id : Nat]
        /\ WithoutId(cursor[w]).created_at = cursor[w].created_at
        /\ WithoutId(cursor[w]).id = NoId
        /\ cursor[w] \in [created_at : Nat, id : Nat]
  BY DEF WithoutId, Users, Datasets, NoId
<1> QED BY <1>2, <1>3, <1>4 DEF WithoutId, Cursors

-----------------------------------------------------------------------------
(* Walks.                                                                    *)

WalkTypeOK ==
    /\ users \in [Datasets -> 0 .. MaxUsers]
    /\ shown \in [Walkers -> Seq(Users)]
    /\ cursor \in [Walkers -> {NoCursor} \cup Users]
    /\ stage \in [Walkers -> {"walking", "over"}]
    /\ sources \in [Walkers -> SUBSET ({Empty} \cup Datasets)]
    /\ spoilt \in [Walkers -> BOOLEAN]

\* A branch holds a dataset that has been copied.
HeldAreCopied == \A b \in Branches : data[b] # Empty => data[b] \in Copied

Descends(s) == \A i, j \in DOMAIN s : i < j => Before(s[i], s[j])

CursorIsLast(w) ==
    stage[w] = "walking" => cursor[w] = IF shown[w] = <<>> THEN NoCursor ELSE Last(shown[w])

\* A walk that has seen one dataset has counted it down from its last user.
FromTheTop(w) ==
    /\ sources[w] = {} => shown[w] = <<>> /\ stage[w] = "walking"
    /\ \A d \in Datasets : sources[w] = {d} /\ ~spoilt[w] =>
         /\ d \in Copied
         /\ \E n \in 1 .. users[d] :
              /\ shown[w] = Down(d, users[d], n)
              /\ stage[w] = "over" => n = users[d]

WalksInOrder ==
    \A w \in Walkers : Descends(shown[w]) /\ CursorIsLast(w) /\ FromTheTop(w)

WInv == IInv /\ WalkTypeOK /\ HeldAreCopied /\ WalksInOrder

LEMMA InitWInv == Init => WInv
<1> SUFFICES ASSUME Init PROVE WInv
  OBVIOUS
<1>1. WalkTypeOK
  BY PageAssumption, EmptySeq DEF Init, WalkTypeOK
<1>2. HeldAreCopied
  BY DEF Init, HeldAreCopied
<1>3. WalksInOrder
  BY DEF Init, WalksInOrder, Descends, CursorIsLast, FromTheTop
<1> QED BY <1>1, <1>2, <1>3, InitInv DEF WInv

LEMMA QuietKeeps ==
    ASSUME WInv, IInv', UNCHANGED <<users, walk>>,
           \A b \in Branches : data'[b] \in {data[b], Empty}
    PROVE  WInv'
<1>1. UNCHANGED <<users, shown, cursor, stage, sources, spoilt>> /\ Copied' = Copied
  BY DEF walk, Copied
<1>2. WalkTypeOK' /\ HeldAreCopied'
  BY <1>1 DEF WInv, WalkTypeOK, HeldAreCopied
<1>3. WalksInOrder'
  BY <1>1 DEF WInv, WalksInOrder, CursorIsLast, FromTheTop
<1> QED BY <1>2, <1>3 DEF WInv

\* The dataset that comes is one that no walk has met.
LEMMA CopyKeeps ==
    ASSUME WInv, IInv', NEW b \in Branches, Copy(b)
    PROVE  WInv'
<1> USE PageAssumption DEF WInv, WalkTypeOK
<1>1. PICK e \in Datasets \ Copied, n \in 1 .. MaxUsers :
        data' = [data EXCEPT ![b] = e] /\ users' = [users EXCEPT ![e] = n]
  BY DEF Copy
<1>2. UNCHANGED <<shown, cursor, stage, sources, spoilt>>
  BY DEF Copy, walk
<1>3. \A d \in Copied : d \in Copied' /\ users'[d] = users[d]
  BY <1>1 DEF Copied
<1>4. e \in Copied'
  BY <1>1 DEF Copied
<1>5. WalkTypeOK'
  BY <1>1, <1>2
<1>6. HeldAreCopied'
  BY <1>1, <1>3, <1>4 DEF HeldAreCopied, IInv, TypeOK
<1>7. WalksInOrder'
  <2> SUFFICES ASSUME NEW w \in Walkers PROVE Descends(shown'[w]) /\ CursorIsLast(w)' /\ FromTheTop(w)'
    BY DEF WalksInOrder
  <2>1. Descends(shown[w]) /\ CursorIsLast(w) /\ FromTheTop(w)
    BY DEF WalksInOrder
  <2>2. FromTheTop(w)'
    BY <1>2, <1>3, <2>1 DEF FromTheTop
  <2> QED BY <1>2, <2>1, <2>2 DEF CursorIsLast
<1> QED BY <1>5, <1>6, <1>7

-----------------------------------------------------------------------------
(* A page.                                                                   *)

LEMMA BeforeGoesOn ==
    ASSUME NEW u \in Users, NEW v \in Users, NEW x, x.created_at \in Int, x.id \in Int,
           Before(u, v), Before(v, x)
    PROVE  Before(u, x)
<1>1. \A r \in Users : r.created_at \in Int /\ r.id \in Int
  BY DEF Users, Datasets
<1> QED BY <1>1 DEF Before

\* A page continues a sequence that is before everything on it.
LEMMA PageDescends ==
    ASSUME NEW s \in Seq(Users), Descends(s), NEW d \in Nat, NEW m \in Nat, NEW n \in 0 .. m,
           s \o Down(d, m, n) \in Seq(Users), Down(d, m, n) \in Seq(Users),
           s # <<>> /\ n > 0 =>
             \/ d < Last(s).created_at
             \/ d = Last(s).created_at /\ m < Last(s).id
    PROVE  Descends(s \o Down(d, m, n))
<1> DEFINE p == Down(d, m, n)
           t == s \o p
<1>1. Len(p) = n /\ \A i \in 1 .. n : p[i] = Row(d, m + 1 - i)
  BY DownIsASeq
<1>2. /\ Len(s) \in Nat /\ DOMAIN s = 1 .. Len(s)
      /\ \A i \in 1 .. Len(s) : s[i] \in Users
  BY LenProperties
<1>3. /\ DOMAIN t = 1 .. Len(s) + n
      /\ \A i \in 1 .. Len(s) : t[i] = s[i]
      /\ \A i \in 1 .. n : t[Len(s) + i] = Row(d, m + 1 - i)
  <2>1. p \in Seq(Users) /\ t \in Seq(Users)
    OBVIOUS
  <2> HIDE DEF p
  <2>2. /\ Len(t) = Len(s) + n
        /\ \A i \in 1 .. Len(s) + n : t[i] = IF i <= Len(s) THEN s[i] ELSE p[i - Len(s)]
    BY <1>1, <2>1, ConcatProperties
  <2>3. DOMAIN t = 1 .. Len(t)
    BY <2>1, LenProperties
  <2> QED BY <1>1, <1>2, <2>2, <2>3
<1> HIDE DEF t, p
<1>4. ASSUME NEW i \in 1 .. n, s # <<>>
      PROVE  Last(s) \in Users /\ Before(Last(s), t[Len(s) + i])
  <2>1. Last(s) \in Users
    BY <1>2, <1>4 DEF Last
  <2>2. t[Len(s) + i].created_at = d /\ t[Len(s) + i].id = m + 1 - i
    BY <1>3, RowsAreRows
  <2> QED BY <1>4, <2>1, <2>2 DEF Before, Users, Datasets
<1>5. ASSUME NEW i \in 1 .. Len(s), NEW j \in 1 .. n PROVE Before(t[i], t[Len(s) + j])
  <2>1. s # <<>> /\ Last(s) = s[Len(s)]
    BY <1>2 DEF Last
  <2>2. CASE i = Len(s)
    BY <1>3, <1>4, <2>1, <2>2
  <2>3. CASE i < Len(s)
    <3>1. Before(t[i], Last(s)) /\ t[i] \in Users
      <4>1. i \in DOMAIN s /\ Len(s) \in DOMAIN s
        BY <1>2, <2>3
      <4>2. Before(s[i], s[Len(s)])
        BY ONLY Descends(s), <4>1, <2>3 DEF Descends
      <4> QED BY <1>2, <1>3, <2>1, <4>2
    <3>2. Before(Last(s), t[Len(s) + j]) /\ Last(s) \in Users
      BY <1>4, <2>1
    <3>3. t[Len(s) + j].created_at = d /\ t[Len(s) + j].id = m + 1 - j
      BY <1>3, RowsAreRows
    <3>4. t[Len(s) + j].created_at \in Int /\ t[Len(s) + j].id \in Int
      BY ONLY <3>3, d \in Nat, m \in Nat, n \in 0 .. m, j \in 1 .. n
    <3> QED BY ONLY <3>1, <3>2, <3>4, BeforeGoesOn
  <2> QED BY <2>2, <2>3
<1>6. ASSUME NEW i \in DOMAIN t, NEW j \in DOMAIN t, i < j PROVE Before(t[i], t[j])
  <2>1. CASE j <= Len(s)
    BY <1>2, <1>3, <1>6, <2>1 DEF Descends
  <2>2. CASE i <= Len(s) /\ j > Len(s)
    <3>1. j - Len(s) \in 1 .. n /\ j = Len(s) + (j - Len(s)) /\ i \in 1 .. Len(s)
      BY <1>2, <1>3, <2>2
    <3> QED BY <1>5, <3>1
  <2>3. CASE i > Len(s)
    <3> DEFINE a == i - Len(s)
               b == j - Len(s)
    <3>1. a \in 1 .. n /\ b \in 1 .. n /\ a < b /\ i = Len(s) + a /\ j = Len(s) + b
      <4>1. /\ Len(s) \in Nat /\ i \in 1 .. Len(s) + n /\ j \in 1 .. Len(s) + n
            /\ i < j /\ i > Len(s) /\ n \in Nat
        BY <1>2, <1>3, <1>6, <2>3
      <4> QED BY ONLY <4>1
    <3>2. t[i] = Row(d, m + 1 - a) /\ t[j] = Row(d, m + 1 - b)
      BY <1>3, <3>1
    <3>3. /\ t[i].created_at = d /\ t[i].id = m + 1 - a
          /\ t[j].created_at = d /\ t[j].id = m + 1 - b
      BY <3>2, RowsAreRows
    <3>4. m + 1 - a > m + 1 - b
      BY ONLY <3>1, m \in Nat, n \in 0 .. m
    <3> QED BY ONLY <3>3, <3>4 DEF Before
  <2> QED BY <1>2, <1>3, <2>1, <2>2, <2>3
<1> QED BY <1>6 DEF Descends, t, p

\* A page at m goes on where a walk that has counted down to m + 1 stands.
LEMMA PageGoesOn ==
    ASSUME NEW d, NEW m \in Nat, NEW k \in 0 .. m, NEW n \in 0 .. m - k
    PROVE  Down(d, m, k) \o Down(d, m - k, n) = Down(d, m, k + n)
<1> DEFINE s == Down(d, m, k)
           p == Down(d, m - k, n)
           t == Down(d, m, k + n)
           S == Between(d, 1, m)
<1>1. /\ s \in Seq(S) /\ Len(s) = k /\ \A i \in 1 .. k : s[i] = Row(d, m + 1 - i)
  BY DownIsASeq
<1>2. /\ p \in Seq(S) /\ Len(p) = n /\ \A i \in 1 .. n : p[i] = Row(d, m - k + 1 - i)
  <2>1. m - k \in Nat /\ n \in 0 .. m - k
    OBVIOUS
  <2>2. p \in Seq(Between(d, 1, m - k)) /\ Len(p) = n /\ \A i \in 1 .. n : p[i] = Row(d, m - k + 1 - i)
    BY <2>1, DownIsASeq
  <2>3. p \in [1 .. n -> S]
    BY <2>1, <2>2, RowsBetween, LenProperties
  <2> QED BY <2>2, <2>3
<1>3. /\ t \in Seq(S) /\ Len(t) = k + n /\ \A i \in 1 .. k + n : t[i] = Row(d, m + 1 - i)
  <2>1. k + n \in 0 .. m
    OBVIOUS
  <2> QED BY <2>1, DownIsASeq
<1>4. s \o p = t
  <2> HIDE DEF s, p, t, S
  <2>1. /\ s \o p \in Seq(S) /\ Len(s \o p) = k + n
        /\ \A i \in 1 .. k + n : (s \o p)[i] = IF i <= k THEN s[i] ELSE p[i - k]
    BY <1>1, <1>2, ConcatProperties
  <2>2. \A i \in 1 .. k + n : (s \o p)[i] = t[i]
    BY <1>1, <1>2, <1>3, <2>1
  <2>3. s \o p \in [1 .. k + n -> S] /\ t \in [1 .. k + n -> S]
    BY <1>3, <2>1, LenProperties
  <2> QED BY <2>2, <2>3
<1> QED BY <1>4

LEMMA DownOfUsers ==
    ASSUME NEW d \in Nat, NEW m \in Nat, NEW n \in 0 .. m, m > 0 => d \in Datasets /\ m <= MaxUsers
    PROVE  /\ Down(d, m, n) \in Seq(Users) /\ Len(Down(d, m, n)) = n
           /\ n > 0 => Last(Down(d, m, n)) = Row(d, m + 1 - n)
           /\ n > 0 => Last(Down(d, m, n)) \in Users
<1>1. /\ Down(d, m, n) \in Seq(Between(d, 1, m)) /\ Len(Down(d, m, n)) = n
      /\ \A i \in 1 .. n : Down(d, m, n)[i] = Row(d, m + 1 - i)
  BY DownIsASeq
<1>2. n > 0 => Last(Down(d, m, n)) = Row(d, m + 1 - n)
  BY <1>1 DEF Last
<1>3. ASSUME NEW i \in 1 .. n PROVE Row(d, m + 1 - i) \in Users
  <2>1. m + 1 - i \in 1 .. MaxUsers /\ d \in Datasets
    BY PageAssumption
  <2> QED BY <2>1 DEF Row, Users
<1>4. Down(d, m, n) \in [1 .. n -> Users]
  BY <1>3 DEF Down
<1>5. n > 0 => Row(d, m + 1 - n) \in Users
  BY <1>3
<1> QED BY <1>1, <1>2, <1>4, <1>5

\* The page that walker w is shown, of the n users its cursor leaves.
PageOf(w, r, d, m, n, q) ==
    LET page == Down(d, n, q)
        limit == clamp_limit(r.limit)
    IN  /\ Leaves(r.cursor, d, m, n)
        /\ limit \in Nat \ {0}
        /\ q = IF n < limit THEN n ELSE limit
        /\ Show(w, r, page, IF q = limit THEN Last(page) ELSE NoCursor)

LEMMA WhichPage ==
    ASSUME WInv, NEW w \in Walkers, ListUsers(w)
    PROVE  \E r \in Requests(w), d \in Nat, m \in Nat, n \in Nat, q \in Nat :
             /\ d = data[served] /\ m = IF d = Empty THEN 0 ELSE users[d]
             /\ m > 0 => d \in Datasets /\ m <= MaxUsers
             /\ n \in 0 .. m /\ q \in 0 .. n
             /\ PageOf(w, r, d, m, n, q)
<1> USE PageAssumption DEF WInv, WalkTypeOK, IInv, TypeOK
<1> DEFINE d == data[served]
           m == IF d = Empty THEN 0 ELSE users[d]
<1>1. /\ d \in Nat /\ d = data[served]
      /\ m \in Nat /\ m = IF d = Empty THEN 0 ELSE users[d]
      /\ m > 0 => d \in Datasets /\ m <= MaxUsers
  BY DEF Datasets, Empty
<1>2. PICK r \in Requests(w) :
        Show(w, r, Page(clamp_limit(r.limit), r.cursor),
             NextCursor(Page(clamp_limit(r.limit), r.cursor), clamp_limit(r.limit)))
  BY DEF ListUsers
<1> DEFINE limit == clamp_limit(r.limit)
<1>3. limit \in Nat \ {0} /\ r.cursor \in Cursors
  BY RequestIsSane
<1> HIDE DEF d, m
<1>4. PICK n \in 0 .. m :
        /\ Leaves(r.cursor, d, m, n)
        /\ Page(limit, r.cursor) = Down(d, n, IF n < limit THEN n ELSE limit)
  <2> HIDE DEF limit, WInv, WalkTypeOK, IInv, TypeOK
  <2>1. /\ limit \in Nat \ {0} /\ r.cursor \in Cursors /\ d \in Nat /\ data[served] = d
        /\ m \in Nat /\ m = IF d = Empty THEN 0 ELSE users[d]
    BY <1>1, <1>3, Zenon
  <2> QED BY ONLY <2>1, PageCountsDown
<1> DEFINE q == IF n < limit THEN n ELSE limit
<1>5. n \in Nat /\ q \in 0 .. n
  <2> HIDE DEF limit
  <2> QED BY <1>1, <1>3
<1>6. Len(Down(d, n, q)) = q
  BY <1>5, DownIsASeq
<1>7. Show(w, r, Down(d, n, q), IF q = limit THEN Last(Down(d, n, q)) ELSE NoCursor)
  BY <1>2, <1>4, <1>6 DEF NextCursor
<1>8. PageOf(w, r, d, m, n, q)
  BY <1>3, <1>4, <1>7 DEF PageOf
<1> HIDE DEF limit, q
<1> QED BY <1>1, <1>5, <1>8

LEMMA ListUsersKeeps ==
    ASSUME WInv, IInv', NEW w \in Walkers, ListUsers(w)
    PROVE  WInv'
<1> USE DEF WalkTypeOK
<1>1. WalkTypeOK /\ HeldAreCopied /\ IInv /\ Descends(shown[w]) /\ CursorIsLast(w) /\ FromTheTop(w)
      /\ stage[w] = "walking"
  BY DEF WInv, WalksInOrder, ListUsers
<1>2. PICK r \in Requests(w), d \in Nat, m \in Nat, n \in Nat, q \in Nat :
        /\ d = data[served] /\ m = IF d = Empty THEN 0 ELSE users[d]
        /\ m > 0 => d \in Datasets /\ m <= MaxUsers
        /\ n \in 0 .. m /\ q \in 0 .. n
        /\ PageOf(w, r, d, m, n, q)
  <2> HIDE DEF WalkTypeOK
  <2>1. ListUsers(w) /\ WInv /\ w \in Walkers
    OBVIOUS
  <2> QED BY ONLY <2>1, WhichPage, Zenon
<1>3. PageOf(w, r, d, m, n, q)
  BY <1>2
<1> DEFINE page == Down(d, n, q)
           limit == clamp_limit(r.limit)
           next == IF q = limit THEN Last(page) ELSE NoCursor
<1>4. /\ Leaves(r.cursor, d, m, n)
      /\ limit \in Nat \ {0} /\ q = IF n < limit THEN n ELSE limit
      /\ shown' = [shown EXCEPT ![w] = @ \o page]
      /\ cursor' = [cursor EXCEPT ![w] = next]
      /\ stage' = [stage EXCEPT ![w] = IF next = NoCursor THEN "over" ELSE @]
      /\ sources' = [sources EXCEPT ![w] = @ \cup {d}]
      /\ spoilt' = [spoilt EXCEPT ![w] = @ \/ r.cursor # cursor[w]]
      /\ UNCHANGED <<users, data>>
  BY <1>2, <1>3 DEF PageOf, Show, store
<1>5. /\ page \in Seq(Users) /\ Len(page) = q
      /\ q > 0 => Last(page) = Row(d, n + 1 - q) /\ Last(page) \in Users
  <2>1. q \in 0 .. n /\ (n > 0 => d \in Datasets /\ n <= MaxUsers)
    BY <1>2, PageAssumption
  <2> QED BY <2>1, DownOfUsers
<1>6. \A u \in Users : u # NoCursor /\ u \in [created_at : Nat, id : Nat]
  BY PageAssumption DEF Users, Datasets
<1>7. /\ next \in {NoCursor} \cup Users /\ (next = NoCursor <=> q # limit)
      /\ q = limit => q > 0 /\ next = Last(page)
  BY <1>4, <1>5, <1>6
<1>8. shown[w] \in Seq(Users) /\ cursor[w] \in {NoCursor} \cup Users
  BY <1>1
<1> HIDE DEF page, limit, next
<1>9. /\ shown[w] \o page \in Seq(Users) /\ Len(shown[w] \o page) = Len(shown[w]) + q
      /\ q > 0 => shown[w] \o page # <<>> /\ Last(shown[w] \o page) = Last(page)
  <2>1. /\ shown[w] \o page \in Seq(Users) /\ Len(shown[w] \o page) = Len(shown[w]) + q
        /\ \A i \in 1 .. Len(shown[w]) + q :
             (shown[w] \o page)[i] = IF i <= Len(shown[w]) THEN shown[w][i] ELSE page[i - Len(shown[w])]
    BY <1>5, <1>8, ConcatProperties
  <2>2. Len(shown[w]) \in Nat
    BY <1>8, LenProperties
  <2>3. q > 0 => (shown[w] \o page)[Len(shown[w]) + q] = page[q]
    BY <2>1, <2>2
  <2>4. q > 0 => shown[w] \o page # <<>>
    BY <2>1, <2>2, EmptySeq
  <2> QED BY <1>5, <2>1, <2>3, <2>4 DEF Last
<1>10. WalkTypeOK'
  <2>1. d \in {Empty} \cup Datasets
    BY <1>1, <1>2 DEF IInv, TypeOK
  <2> QED BY <1>1, <1>4, <1>7, <1>9, <2>1
<1>11. HeldAreCopied' /\ Copied' = Copied
  BY <1>1, <1>4 DEF HeldAreCopied, Copied
<1>12. Descends(shown[w] \o page)
  <2>1. ASSUME shown[w] # <<>>, q > 0
        PROVE  d < Last(shown[w]).created_at \/ (d = Last(shown[w]).created_at /\ n < Last(shown[w]).id)
    <3>1. cursor[w] = Last(shown[w]) /\ cursor[w] \in Users
      <4>1. Last(shown[w]) \in Users
        BY <1>8, <2>1, LenProperties, EmptySeq DEF Last
      <4> QED BY <1>1, <2>1, <4>1 DEF CursorIsLast
    <3>2. /\ r.cursor # NoCursor
          /\ r.cursor.created_at = cursor[w].created_at
          /\ r.cursor.id \in {NoId, cursor[w].id}
      BY <1>6, <1>8, <3>1, RequestIsSane
    <3>3. n > 0
      BY <1>2, <2>1
    <3> QED BY <1>4, <3>1, <3>2, <3>3 DEF Leaves, NoId
  <2> QED BY <1>2, <1>1, <1>5, <1>8, <1>9, <2>1, PageDescends DEF page
<1>13. CursorIsLast(w)'
  <2>1. /\ shown'[w] = shown[w] \o page /\ cursor'[w] = next
        /\ stage'[w] = IF next = NoCursor THEN "over" ELSE "walking"
    BY <1>1, <1>4
  <2>2. next # NoCursor => shown'[w] # <<>> /\ next = Last(shown'[w])
    BY <1>7, <1>9, <2>1
  <2> QED BY <2>1, <2>2 DEF CursorIsLast
<1>14. FromTheTop(w)'
  <2>1. sources'[w] = sources[w] \cup {d} /\ shown'[w] = shown[w] \o page
        /\ (stage'[w] = "over" => q = n /\ q # limit) /\ (q # limit => q = n)
    BY <1>1, <1>4, <1>7
  <2>2. ASSUME NEW e \in Datasets, sources'[w] = {e}, ~spoilt'[w]
        PROVE  /\ e \in Copied
               /\ \E k \in 1 .. users[e] :
                    /\ shown'[w] = Down(e, users[e], k)
                    /\ stage'[w] = "over" => k = users[e]
    <3>1. e = d /\ d # Empty /\ m = users[d] /\ (sources[w] = {} \/ sources[w] = {d})
      <4>1. e = d /\ (sources[w] = {} \/ sources[w] = {d})
        BY <2>1, <2>2
      <4>2. d # Empty
        BY <2>2, <4>1 DEF Datasets, Empty
      <4> QED BY <1>2, <1>4, <4>1, <4>2
    <3>2. ~spoilt[w] /\ r.cursor = cursor[w]
      BY <1>1, <1>4, <2>2
    <3>3. d \in Copied /\ m \in 1 .. MaxUsers
      BY <1>1, <1>2, <3>1 DEF HeldAreCopied, Copied, IInv, TypeOK
    <3>4. CASE sources[w] = {}
      <4>1. shown[w] = <<>> /\ n = m
        BY <1>1, <1>4, <3>2, <3>4 DEF FromTheTop, CursorIsLast, Leaves
      <4>2. shown'[w] = Down(d, users[d], q)
        BY <1>5, <2>1, <3>1, <4>1, ConcatEmptySeq DEF page
      <4>3. q \in 1 .. users[d]
        BY <1>4, <3>1, <3>3, <4>1
      <4> QED BY <2>1, <3>1, <3>3, <4>1, <4>2, <4>3
    <3>5. CASE sources[w] = {d}
      <4>1. PICK k \in 1 .. users[d] : shown[w] = Down(d, users[d], k)
        BY <1>1, <2>2, <3>1, <3>2, <3>5 DEF FromTheTop
      <4>2. cursor[w] = Row(d, m + 1 - k)
        <5>1. Len(shown[w]) = k /\ shown[w][k] = Row(d, m + 1 - k) /\ shown[w] # <<>>
          <6>1. k \in 0 .. m /\ k > 0 /\ shown[w] = Down(d, m, k)
            BY <3>1, <3>3, <4>1
          <6>2. /\ Len(Down(d, m, k)) = k
                /\ \A i \in 1 .. k : Down(d, m, k)[i] = Row(d, m + 1 - i)
            BY <6>1, DownIsASeq
          <6>3. k \in 1 .. k
            BY <6>1
          <6>4. Len(shown[w]) = k /\ shown[w][k] = Row(d, m + 1 - k)
            BY <6>1, <6>2, <6>3
          <6>5. Len(<< >>) = 0
            OBVIOUS
          <6> QED BY <6>1, <6>4, <6>5
        <5> QED BY <1>1, <5>1 DEF CursorIsLast, Last
      <4>3. m + 1 - k \in 1 .. m /\ n = m - k
        <5>1. m + 1 - k \in 1 .. m
          BY <3>1, <3>3, <4>1
        <5>2. n = (m + 1 - k) - 1
          BY <1>4, <3>2, <4>2, <5>1 DEF Leaves
        <5> QED BY <3>3, <5>1, <5>2
      <4>4. shown'[w] = Down(d, m, k + q)
        <5>1. k \in 0 .. m /\ q \in 0 .. m - k
          BY <1>2, <3>1, <3>3, <4>1, <4>3
        <5>2. Down(d, m, k) \o Down(d, m - k, q) = Down(d, m, k + q)
          BY <5>1, PageGoesOn
        <5> QED BY <2>1, <3>1, <4>1, <4>3, <5>2 DEF page
      <4>5. k + q \in 1 .. m /\ (stage'[w] = "over" => k + q = m)
        <5>1. k \in 1 .. m /\ m \in Nat /\ n = m - k /\ q \in Nat /\ q <= n
          BY <1>2, <3>1, <3>3, <4>1, <4>3
        <5>2. k + q \in 1 .. m /\ (q = n => k + q = m)
          BY ONLY <5>1
        <5> QED BY ONLY <2>1, <5>2
      <4> QED BY <3>1, <3>3, <4>4, <4>5
    <3> QED BY <3>1, <3>4, <3>5
  <2>3. sources'[w] # {}
    BY <2>1
  <2> QED BY <1>4, <1>11, <2>2, <2>3 DEF FromTheTop
<1>15. ASSUME NEW v \in Walkers PROVE Descends(shown'[v]) /\ CursorIsLast(v)' /\ FromTheTop(v)'
  <2>1. CASE v = w
    BY <1>1, <1>4, <1>12, <1>13, <1>14, <2>1
  <2>2. CASE v # w
    <3>1. /\ shown'[v] = shown[v] /\ cursor'[v] = cursor[v] /\ stage'[v] = stage[v]
          /\ sources'[v] = sources[v] /\ spoilt'[v] = spoilt[v] /\ users' = users
      BY <1>1, <1>4, <2>2
    <3>2. Descends(shown[v]) /\ CursorIsLast(v) /\ FromTheTop(v)
      BY DEF WInv, WalksInOrder
    <3> QED BY <1>11, <3>1, <3>2 DEF CursorIsLast, FromTheTop
  <2> QED BY <2>1, <2>2
<1> QED BY <1>10, <1>11, <1>15 DEF WInv, WalksInOrder

LEMMA NextWInv == WInv /\ [Next]_vars => WInv'
<1> SUFFICES ASSUME WInv, [Next]_vars PROVE WInv'
  OBVIOUS
<1>1. IInv'
  BY NextInv DEF WInv
<1>2. ASSUME NEW w \in Walkers, ListUsers(w) PROVE WInv'
  BY <1>1, <1>2, ListUsersKeeps
<1>3. ASSUME NEW b \in Branches, Copy(b) PROVE WInv'
  BY <1>1, <1>3, CopyKeeps
<1>4. CASE \/ \E r \in Readers : ReadOrder(r) \/ ReadItems(r) \/ ReadFails(r)
           \/ \E b \in Branches : LockItems(b) \/ Truncate(b) \/ TruncateFails(b)
           \/ Switch \/ UNCHANGED vars
  <2>1. UNCHANGED <<users, walk>>
    BY <1>4 DEF ReadOrder, ReadItems, ReadFails, LockItems, Truncate, TruncateFails, Switch, vars, store
  <2>2. data' = data \/ \E b \in Branches : data' = [data EXCEPT ![b] = Empty]
    BY <1>4 DEF ReadOrder, ReadItems, ReadFails, LockItems, Truncate, TruncateFails, Switch, vars, store
  <2>3. \A b \in Branches : data'[b] \in {data[b], Empty}
    BY <2>2 DEF WInv, IInv, TypeOK
  <2> QED BY <1>1, <2>1, <2>3, QuietKeeps
<1> QED BY <1>2, <1>3, <1>4 DEF Next

-----------------------------------------------------------------------------

\* list_users shows no user twice, however its pages are cut, the branch is
\* switched, emptied and seeded between them, and the cursors are spoilt.
THEOREM NobodyIsShownTwice == Spec => []NothingTwice
<1>1. WInv => NothingTwice
  <2> SUFFICES ASSUME WInv, NEW w \in Walkers,
                      NEW i \in DOMAIN shown[w], NEW j \in DOMAIN shown[w],
                      shown[w][i] = shown[w][j]
               PROVE  i = j
    BY DEF NothingTwice, IsInjective
  <2>1. Descends(shown[w])
    BY DEF WInv, WalksInOrder
  <2>2. shown[w] \in Seq(Users)
    BY DEF WInv, WalkTypeOK
  <2>3. DOMAIN shown[w] = 1 .. Len(shown[w]) /\ Len(shown[w]) \in Nat /\ shown[w][i] \in Users
    BY <2>2, LenProperties
  <2>4. ~Before(shown[w][i], shown[w][i])
    BY <2>3 DEF Before, Users, Datasets
  <2> QED BY <2>1, <2>3, <2>4 DEF Descends
<1> QED BY InitWInv, NextWInv, <1>1, PTL DEF Spec

\* A walk that list_users has served from one dataset has shown all of it, in
\* the order of the listing, for any number of users and any limits.
THEOREM WalksShowEverybody == Spec => []WalksAreComplete
<1>1. WInv => WalksAreComplete
  <2> SUFFICES ASSUME WInv, NEW w \in Walkers, NEW d \in Datasets,
                      stage[w] = "over", sources[w] = {d}, ~spoilt[w]
               PROVE  shown[w] = Listing(UsersOf(d))
    BY DEF WalksAreComplete
  <2>1. shown[w] = Down(d, users[d], users[d])
    BY DEF WInv, WalksInOrder, FromTheTop
  <2>2. UsersOf(d) = Between(d, 1, users[d]) /\ users[d] \in Nat /\ d \in Nat
    BY DEF UsersOf, Between, WInv, WalkTypeOK, Datasets
  <2> QED BY <2>1, <2>2, ListingCountsDown
<1> QED BY InitWInv, NextWInv, <1>1, PTL DEF Spec

-----------------------------------------------------------------------------
(* Why a walk ends.                                                          *)

\* A page ends the walk, or hands out a cursor that lies after the one before.
\* There are finitely many, so a client that goes on comes to the end
\* (WalksEnd).
CursorsGoDown ==
    [][\A w \in Walkers : ListUsers(w) =>
         \/ stage'[w] = "over"
         \/ cursor'[w] \in Users /\ (cursor[w] = NoCursor \/ Before(cursor[w], cursor'[w]))]_vars

LEMMA PageGoesDown ==
  ASSUME WInv, NEW w \in Walkers, ListUsers(w)
  PROVE  \/ stage'[w] = "over"
         \/ cursor'[w] \in Users /\ (cursor[w] = NoCursor \/ Before(cursor[w], cursor'[w]))
<1>1. PICK r \in Requests(w), d \in Nat, m \in Nat, n \in Nat, q \in Nat :
        /\ m > 0 => d \in Datasets /\ m <= MaxUsers
        /\ n \in 0 .. m /\ q \in 0 .. n
        /\ PageOf(w, r, d, m, n, q)
  BY WhichPage, Zenon
<1> DEFINE page == Down(d, n, q)
           limit == clamp_limit(r.limit)
           next == IF q = limit THEN Last(page) ELSE NoCursor
<1>2. /\ Leaves(r.cursor, d, m, n) /\ limit \in Nat \ {0}
      /\ cursor' = [cursor EXCEPT ![w] = next]
      /\ stage' = [stage EXCEPT ![w] = IF next = NoCursor THEN "over" ELSE @]
  BY <1>1 DEF PageOf, Show
<1>3. /\ cursor \in [Walkers -> {NoCursor} \cup Users] /\ stage \in [Walkers -> {"walking", "over"}]
      /\ cursor'[w] = next /\ (next = NoCursor => stage'[w] = "over")
  BY <1>2 DEF WInv, WalkTypeOK
<1>4. q > 0 => Last(page) = Row(d, n + 1 - q) /\ Last(page) \in Users
  <2>1. n \in Nat /\ q \in 0 .. n /\ (n > 0 => d \in Datasets /\ n <= MaxUsers)
    BY <1>1, PageAssumption
  <2> QED BY <2>1, DownOfUsers
<1> HIDE DEF page, limit
<1>5. CASE next = NoCursor
  BY <1>3, <1>5
<1>6. CASE next # NoCursor
  <2>1. q = limit /\ q > 0 /\ n > 0 /\ cursor'[w] = Row(d, n + 1 - q)
    BY <1>1, <1>2, <1>3, <1>4, <1>6
  <2>2. ASSUME cursor[w] # NoCursor PROVE Before(cursor[w], Row(d, n + 1 - q))
    <3>1. cursor[w] \in Users /\ cursor[w].created_at \in Nat /\ cursor[w].id \in Nat
      BY <1>3, <2>2 DEF Users, Datasets
    <3>2. /\ r.cursor # NoCursor
          /\ r.cursor.created_at = cursor[w].created_at
          /\ r.cursor.id \in {NoId, cursor[w].id}
      BY <1>3, <2>2, RequestIsSane
    <3>3. d < cursor[w].created_at \/ (d = cursor[w].created_at /\ n < cursor[w].id)
      BY <1>2, <2>1, <3>1, <3>2 DEF Leaves, NoId
    <3> QED BY <1>1, <2>1, <3>1, <3>3 DEF Before, Row
  <2> QED BY <1>3, <1>4, <2>1, <2>2
<1> QED BY <1>5, <1>6

\* No page of list_users repeats a cursor or goes back, whatever it was cut
\* from and whether or not the client spoilt the cursor it came with.
THEOREM PagesGoOn == Spec => CursorsGoDown
<1>1. WInv /\ [Next]_vars =>
        \A w \in Walkers : ListUsers(w) =>
          \/ stage'[w] = "over"
          \/ cursor'[w] \in Users /\ (cursor[w] = NoCursor \/ Before(cursor[w], cursor'[w]))
  BY PageGoesDown
<1> QED BY InitWInv, NextWInv, <1>1, PTL DEF Spec, CursorsGoDown

-----------------------------------------------------------------------------
(* Part 3, the branches: to whoever reads it, each of the two is a           *)
(* BranchDataset, as Seeding shows of the scripts themselves.                *)

Held(b) == {data[b]} \ {Empty}

SlowSeen == INSTANCE BranchDataset WITH held <- Held("slow"), spent <- Copied
FastSeen == INSTANCE BranchDataset WITH held <- Held("fast"), spent <- Copied

LEMMA CopySeen ==
  ASSUME WInv, NEW b \in Branches, Copy(b)
  PROVE  \E d \in Datasets \ Copied :
           /\ Held(b) = {} /\ Held(b)' = {d} /\ Copied' = Copied \cup {d}
           /\ \A x \in Branches \ {b} : Held(x)' = Held(x)
<1>1. PICK d \in Datasets \ Copied, n \in 1 .. MaxUsers :
        data' = [data EXCEPT ![b] = d] /\ users' = [users EXCEPT ![d] = n]
  BY DEF Copy
<1>2. data[b] = Empty /\ d # Empty
  BY DEF Copy, Datasets, Empty
<1>3. Held(b) = {} /\ Held(b)' = {d} /\ \A x \in Branches \ {b} : Held(x)' = Held(x)
  BY <1>1, <1>2 DEF Held, WInv, IInv, TypeOK
<1>4. Copied' = Copied \cup {d}
  BY <1>1 DEF Copied, WInv, WalkTypeOK
<1> QED BY <1>3, <1>4

\* What the other steps do to what a branch holds.
LEMMA OthersSeen ==
  ASSUME WInv, [Next]_vars, ~ \E b \in Branches : Copy(b)
  PROVE  /\ Copied' = Copied
         /\ \A b \in Branches : Held(b)' \in {Held(b), {}}
<1>1. users' = users
  BY DEF Next, ListUsers, Show, ReadOrder, ReadItems, ReadFails, LockItems, Truncate,
     TruncateFails, Switch, vars, store
<1>2. data' = data \/ \E b \in Branches : data' = [data EXCEPT ![b] = Empty]
  BY DEF Next, ListUsers, Show, ReadOrder, ReadItems, ReadFails, LockItems, Truncate,
     TruncateFails, Switch, vars, store
<1>3. \A b \in Branches : data'[b] \in {data[b], Empty}
  BY <1>2 DEF WInv, IInv, TypeOK
<1> QED BY <1>1, <1>3 DEF Copied, Held

LEMMA StepSeen ==
  ASSUME WInv, [Next]_vars
  PROVE  [SlowSeen!Next]_(SlowSeen!vars) /\ [FastSeen!Next]_(FastSeen!vars)
<1>1. CASE \E b \in Branches : Copy(b)
  <2>1. PICK b \in Branches : Copy(b)
    BY <1>1
  <2>2. PICK d \in Datasets \ Copied :
          /\ Held(b) = {} /\ Held(b)' = {d} /\ Copied' = Copied \cup {d}
          /\ \A x \in Branches \ {b} : Held(x)' = Held(x)
    BY <2>1, CopySeen
  <2>3. CASE b = "slow"
    <3>1. SlowSeen!Fill(d) /\ FastSeen!Forgo(d)
      BY <2>2, <2>3 DEF Branches, SlowSeen!Fill, FastSeen!Forgo
    <3> QED BY <3>1 DEF SlowSeen!Next, FastSeen!Next
  <2>4. CASE b = "fast"
    <3>1. FastSeen!Fill(d) /\ SlowSeen!Forgo(d)
      BY <2>2, <2>4 DEF Branches, FastSeen!Fill, SlowSeen!Forgo
    <3> QED BY <3>1 DEF SlowSeen!Next, FastSeen!Next
  <2> QED BY <2>3, <2>4 DEF Branches
<1>2. CASE ~ \E b \in Branches : Copy(b)
  <2>1. Copied' = Copied /\ \A b \in Branches : Held(b)' \in {Held(b), {}}
    BY <1>2, OthersSeen
  <2>2. [SlowSeen!Next]_(SlowSeen!vars)
    BY <2>1 DEF Branches, SlowSeen!Next, SlowSeen!Clear, SlowSeen!vars
  <2>3. [FastSeen!Next]_(FastSeen!vars)
    BY <2>1 DEF Branches, FastSeen!Next, FastSeen!Clear, FastSeen!vars
  <2> QED BY <2>2, <2>3
<1> QED BY <1>1, <1>2

\* Each branch that list_users and get_order read comes by its datasets as the
\* seed scripts let it: one at a time, whole, and none of them twice.
THEOREM BranchesActAsDatasets == Spec => SlowSeen!Spec /\ FastSeen!Spec
<1>1. Init => SlowSeen!Init /\ FastSeen!Init
  BY DEF Init, Branches, Held, Copied, SlowSeen!Init, FastSeen!Init
<1>2. WInv /\ [Next]_vars => [SlowSeen!Next]_(SlowSeen!vars) /\ [FastSeen!Next]_(FastSeen!vars)
  BY StepSeen
<1> QED BY InitWInv, NextWInv, <1>1, <1>2, PTL DEF Spec, SlowSeen!Spec, FastSeen!Spec
=============================================================================
