--------------------------- MODULE SeedingProofs ---------------------------
(* What Seeding's safety holds by, for any number of runs.                   *)
(*                                                                           *)
(* One run at a time has inserted its users, into a branch without any: that *)
(* is all that keeps two datasets apart (OneCopies).  And as long as nobody  *)
(* interrupts a run, a branch without a dataset has a run that goes after it *)
(* (Pursued): whoever Postgres ends in a deadlock leaves another that seeks. *)
(* The first makes the branch a BranchDataset; and the order in which the    *)
(* scripts take their locks keeps every circle of waiting runs short.        *)
EXTENDS Seeding, TLAPS

\* The stages of a run that is still to copy, or to see a dataset.
Seeking == {"connected", "truncating", "filling", "users", "copying"}

OneCopies ==
    \A r \in Runs : stage[r] = "copying" =>
      /\ datasets = {}
      /\ \A q \in Runs : stage[q] = "copying" => q = r

ResetsTruncate == \A r \in Runs : stage[r] = "truncating" => reset[r]

Pursued ==
    cut = {} /\ datasets = {} /\ (\E r \in Runs : stage[r] \notin {"off", "refused"})
      => \E r \in Runs : stage[r] \in Seeking

IInv == TypeOK /\ NeverDoubled /\ OneCopies /\ ResetsTruncate /\ Pursued

-----------------------------------------------------------------------------
LEMMA InitInv == Init => IInv
  BY DEF Init, IInv, TypeOK, Stages, Ended, FAST_INDEXES, NeverDoubled, OneCopies,
         ResetsTruncate, Pursued

(* Whoever a waiting run waits for, and which waits itself, is seeking.      *)
LEMMA WaitersSeek ==
    ASSUME IInv, NEW q \in Runs, WaitsFor(q) # {}
    PROVE  stage[q] \in Seeking
  BY DEF WaitsFor, Seeking

LEMMA WaitsForAnother ==
    ASSUME NEW r \in Runs PROVE WaitsFor(r) \subseteq Runs \ {r}
  BY DEF WaitsFor, Everyone, Builders, Writers, SameEmails

\* What a step of r does when datasets stay as they are.
LEMMA Keeps ==
    ASSUME IInv, NEW r \in Runs, NEW s \in Stages, NEW n \in Nat,
           Become(r, s, n), UNCHANGED <<run, datasets>>, indexes' \subseteq Nat,
           cut' \subseteq Runs, cut \subseteq cut',
           s = "truncating" => reset[r],
           s = "copying" => datasets = {} /\ \A q \in Runs \ {r} : stage[q] # "copying",
           s \in Seeking \/ datasets # {} \/ cut' # {}
             \/ (stage[r] = "off" /\ s = "refused")
             \/ (\E q \in Runs \ {r} : stage[q] \in Seeking)
             \/ stage[r] \notin Seeking \cup {"off", "refused"}
    PROVE  IInv'
<1> USE DEF IInv, TypeOK, run, Become
<1>1. TypeOK'
  OBVIOUS
<1>2. NeverDoubled'
  BY DEF NeverDoubled
<1>3. OneCopies'
  BY DEF OneCopies
<1>4. ResetsTruncate'
  BY DEF ResetsTruncate
<1>5. Pursued'
  <2> SUFFICES ASSUME cut' = {}, datasets' = {}, \E q \in Runs : stage'[q] \notin {"off", "refused"}
               PROVE  \E q \in Runs : stage'[q] \in Seeking
    BY DEF Pursued
  <2>1. \A q \in Runs : stage'[q] = IF q = r THEN s ELSE stage[q]
    OBVIOUS
  <2>2. CASE s \in Seeking
    BY <2>1, <2>2
  <2>3. CASE \E q \in Runs \ {r} : stage[q] \in Seeking
    BY <2>1, <2>3
  <2>4. CASE stage[r] = "off" /\ s = "refused" /\ \A q \in Runs \ {r} : stage[q] \notin Seeking
    BY <2>1, <2>4 DEF Pursued, Seeking
  <2>5. CASE /\ stage[r] \notin Seeking \cup {"off", "refused"}
             /\ \A q \in Runs \ {r} : stage[q] \notin Seeking
    BY <2>1, <2>5 DEF Pursued, Seeking
  <2> QED BY <2>2, <2>3, <2>4, <2>5
<1> QED BY <1>1, <1>2, <1>3, <1>4, <1>5

-----------------------------------------------------------------------------
LEMMA NextInv == IInv /\ [Next]_vars => IInv'
<1> SUFFICES ASSUME IInv, [Next]_vars PROVE IInv'
  OBVIOUS
<1> USE DEF Stages, Ended, Seeking, database
<1>0. TypeOK
  BY DEF IInv
<1>1. ASSUME NEW r \in Runs, Refuse(r) PROVE IInv'
  BY <1>0, <1>1, Keeps DEF Refuse, TypeOK
<1>2. ASSUME NEW r \in Runs, Connect(r) PROVE IInv'
  <2>1. PICK s \in {"truncating", "connected"} : Become(r, s, 0) /\ (s = "truncating" => reset[r])
    BY <1>2 DEF Connect
  <2> QED BY <1>0, <1>2, <2>1, Keeps DEF Connect, TypeOK
<1>3. ASSUME NEW r \in Runs, LockNext(r) PROVE IInv'
  <2>1. reset[r] /\ at[r] + 1 \in Nat
    BY <1>0, <1>3 DEF LockNext, TypeOK, IInv, ResetsTruncate
  <2> QED BY <1>0, <1>3, <2>1, Keeps DEF LockNext, TypeOK
<1>4. ASSUME NEW r \in Runs, Truncate(r) PROVE IInv'
  BY <1>4 DEF Truncate, Become, run, IInv, TypeOK, NeverDoubled, OneCopies, ResetsTruncate, Pursued
<1>5. ASSUME NEW r \in Runs, Count(r) PROVE IInv'
  <2>1. PICK s \in {"filling", "failed", "done"} :
          Become(r, s, 0) /\ (s \in {"failed", "done"} => datasets # {})
    BY <1>0, <1>5 DEF Count, TypeOK
  <2> QED BY <1>0, <1>5, <2>1, Keeps DEF Count, TypeOK
<1>6. ASSUME NEW r \in Runs, CopyUsers(r) PROVE IInv'
  BY <1>0, <1>6, Keeps DEF CopyUsers, TypeOK
<1>7. ASSUME NEW r \in Runs, InsertUsers(r) PROVE IInv'
  <2>1. \A q \in Runs \ {r} : stage[q] # "copying"
    BY <1>7 DEF InsertUsers, WaitsFor, SameEmails
  <2>2. CASE datasets = {}
    BY <1>0, <1>7, <2>1, <2>2, Keeps DEF InsertUsers, TypeOK
  <2>3. CASE datasets # {}
    BY <1>0, <1>7, <2>3, Keeps DEF InsertUsers, TypeOK
  <2> QED BY <2>2, <2>3
<1>8. ASSUME NEW r \in Runs, CopyNext(r) PROVE IInv'
  <2>1. /\ datasets = {} /\ at[r] + 1 \in Nat
        /\ \A q \in Runs \ {r} : stage[q] # "copying"
    BY <1>0, <1>8 DEF CopyNext, TypeOK, IInv, OneCopies
  <2> QED BY <1>0, <1>8, <2>1, Keeps DEF CopyNext, TypeOK
<1>9. ASSUME NEW r \in Runs, Commit(r) PROVE IInv'
  <2>1. /\ datasets = {}
        /\ \A q \in Runs : stage[q] = "copying" => q = r
    BY <1>9 DEF Commit, IInv, OneCopies
  <2>2. datasets' = {r}
    BY <1>9, <2>1 DEF Commit
  <2>3. PICK s \in {"indexing", "done"} : Become(r, s, 0)
    BY <1>9 DEF Commit
  <2>4. \A q \in Runs : stage'[q] = IF q = r THEN s ELSE stage[q]
    BY <1>0, <2>3 DEF Become, TypeOK
  <2>5. TypeOK'
    BY <1>0, <1>9, <2>2, <2>3 DEF TypeOK, Commit, Become, run
  <2>6. OneCopies' /\ ResetsTruncate'
    BY <1>9, <2>1, <2>4 DEF OneCopies, ResetsTruncate, IInv, Commit, run
  <2>7. NeverDoubled' /\ Pursued'
    BY <2>2 DEF NeverDoubled, Pursued
  <2> QED BY <2>5, <2>6, <2>7 DEF IInv
<1>10. ASSUME NEW r \in Runs, BeginIndex(r) PROVE IInv'
  <2>1. PICK s \in {"done", "indexing", "building"}, n \in Nat : Become(r, s, n)
    BY <1>0, <1>10 DEF BeginIndex, NextIndex, TypeOK
  <2> QED BY <1>0, <1>10, <2>1, Keeps DEF BeginIndex, TypeOK
<1>11. ASSUME NEW r \in Runs, EndIndex(r) PROVE IInv'
  <2>1. PICK s \in {"done", "indexing", "failed"}, n \in Nat : Become(r, s, n)
    BY <1>0, <1>11 DEF EndIndex, NextIndex, TypeOK
  <2>2. indexes' = indexes \cup {at[r] + 1} /\ at[r] + 1 \in Nat /\ indexes \subseteq Nat
    BY <1>0, <1>11 DEF EndIndex, TypeOK
  <2> QED BY <1>0, <1>11, <2>1, <2>2, Keeps DEF EndIndex, TypeOK
<1>12. ASSUME NEW r \in Runs, DeadlockDetected(r) PROVE IInv'
  <2>1. PICK q \in WaitsFor(r) : WaitsFor(q) # {}
    BY <1>12 DEF DeadlockDetected
  <2>2. q \in Runs \ {r} /\ stage[q] \in Seeking
    BY <2>1, WaitsForAnother, WaitersSeek
  <2> QED BY <1>0, <1>12, <2>2, Keeps DEF DeadlockDetected, TypeOK
<1>13. ASSUME NEW r \in Runs, Interrupt(r) PROVE IInv'
  BY <1>0, <1>13, Keeps DEF Interrupt, TypeOK
<1>14. CASE UNCHANGED vars
  BY <1>14 DEF vars, run, IInv, TypeOK, NeverDoubled, OneCopies, ResetsTruncate, Pursued
<1> QED
  BY <1>1, <1>2, <1>3, <1>4, <1>5, <1>6, <1>7, <1>8, <1>9, <1>10, <1>11, <1>12, <1>13, <1>14
  DEF Next, Step

LEMMA Invariant == Spec => []IInv
  BY InitInv, NextInv, PTL DEF Spec

-----------------------------------------------------------------------------
\* However many runs of a seed script are started at once, no branch ends up
\* with two datasets (_run_seed of both scripts).
THEOREM NoBranchIsDoubled == Spec => []NeverDoubled
  BY Invariant, PTL DEF IInv

\* Runs that are left alone leave a dataset behind, whichever of them Postgres
\* ends in a deadlock.
THEOREM RunsLeaveADataset == Spec => []BranchEndsSeeded
<1>1. IInv => BranchEndsSeeded
  BY DEF IInv, Pursued, BranchEndsSeeded, Ended, Seeking
<1> QED BY <1>1, Invariant, PTL

\* Rows go only in the TRUNCATE of a run with --reset, and come only in the
\* commit of the copies.
THEOREM ResetsReplace == Spec => OnlyAResetReplaces
<1> DEFINE Replaced ==
      /\ datasets \ datasets' # {} =>
            \E r \in Runs : reset[r] /\ stage[r] = "truncating" /\ stage'[r] = "filling"
      /\ \A r \in datasets' \ datasets :
            stage[r] = "copying" /\ stage'[r] \in {"indexing", "done"}
<1>1. IInv /\ [Next]_vars => [Replaced]_vars
  <2> SUFFICES ASSUME IInv, Next, datasets' # datasets PROVE Replaced
    BY DEF vars, database
  <2>1. PICK r \in Runs : Truncate(r) \/ Commit(r)
    BY DEF Next, Step, Refuse, Connect, LockNext, Count, CopyUsers, InsertUsers, CopyNext,
           BeginIndex, EndIndex, DeadlockDetected, Interrupt, database
  <2>2. CASE Truncate(r)
    BY <2>2 DEF Truncate, Become, IInv, TypeOK, ResetsTruncate
  <2>3. CASE Commit(r)
    BY <2>3 DEF Commit, Become, IInv, TypeOK
  <2> QED BY <2>1, <2>2, <2>3
<1>2. Spec => [][Replaced]_vars
  BY <1>1, Invariant, PTL DEF Spec
<1> QED BY <1>2 DEF OnlyAResetReplaces

-----------------------------------------------------------------------------
(* Seeding implements BranchDataset: the commit of the copies is Fill, the   *)
(* TRUNCATE is Clear, a run that ends otherwise is Forgo.                    *)

LEMMA InitSeen == Init => AsSeen!Init
<1> SUFFICES ASSUME Init PROVE AsSeen!Init
  OBVIOUS
<1> QED BY DEF Init, AsSeen!Init

LEMMA StepSeen == IInv /\ [Next]_vars => [AsSeen!Next]_(AsSeen!vars)
<1> SUFFICES ASSUME IInv, [Next]_vars PROVE AsSeen!Next \/ UNCHANGED AsSeen!vars
  OBVIOUS
<1> DEFINE over == {r \in Runs : stage[r] \notin ToCommit}
           spent == {Earlier} \cup over
<1>0. TypeOK
  BY DEF IInv
<1>1. ASSUME NEW r \in Runs, NEW s, NEW n, Become(r, s, n)
      PROVE  /\ s \in ToCommit /\ r \notin over => spent' = spent
             /\ s \notin ToCommit => spent' = spent \cup {r}
  BY <1>0, <1>1 DEF Become, TypeOK
<1>2. ASSUME NEW r \in Runs, NEW s, NEW n, Become(r, s, n), datasets' = datasets,
             s \in ToCommit => r \notin over
      PROVE  AsSeen!Next \/ UNCHANGED AsSeen!vars
  <2>1. CASE s \in ToCommit
    BY <1>1, <1>2, <2>1 DEF AsSeen!vars
  <2>2. CASE s \notin ToCommit
    BY <1>1, <1>2, <2>2 DEF AsSeen!Next, AsSeen!Forgo
  <2> QED BY <2>1, <2>2
<1>3. ASSUME NEW r \in Runs, Truncate(r) PROVE AsSeen!Next
  <2>1. spent' = spent
    BY <1>1, <1>3 DEF Truncate, ToCommit
  <2> QED BY <1>3, <2>1 DEF Truncate, AsSeen!Next, AsSeen!Clear
<1>4. ASSUME NEW r \in Runs, Commit(r) PROVE AsSeen!Next
  <2>1. datasets = {} /\ datasets' = {r}
    BY <1>4 DEF Commit, IInv, OneCopies
  <2>2. r \notin spent
    BY <1>4, RunAssumption DEF Commit, ToCommit
  <2>3. spent' = spent \cup {r}
    BY <1>1, <1>4 DEF Commit, ToCommit
  <2> QED BY <2>1, <2>2, <2>3 DEF AsSeen!Next, AsSeen!Fill
<1>5. ASSUME NEW r \in Runs,
             \/ Refuse(r) \/ Connect(r) \/ LockNext(r) \/ Count(r) \/ CopyUsers(r)
             \/ InsertUsers(r) \/ CopyNext(r) \/ BeginIndex(r) \/ EndIndex(r)
             \/ DeadlockDetected(r) \/ Interrupt(r)
      PROVE  AsSeen!Next \/ UNCHANGED AsSeen!vars
  <2>1. PICK s, n : Become(r, s, n) /\ (s \in ToCommit => stage[r] \in ToCommit)
    BY <1>5 DEF Refuse, Connect, LockNext, Count, CopyUsers, InsertUsers, CopyNext,
                BeginIndex, EndIndex, NextIndex, DeadlockDetected, Interrupt, ToCommit
  <2>2. datasets' = datasets
    BY <1>5 DEF Refuse, Connect, LockNext, Count, CopyUsers, InsertUsers, CopyNext,
                BeginIndex, EndIndex, DeadlockDetected, Interrupt, database
  <2> QED BY <1>2, <2>1, <2>2
<1>6. CASE UNCHANGED vars
  BY <1>6 DEF vars, database, AsSeen!vars
<1> QED BY <1>3, <1>4, <1>5, <1>6 DEF Next, Step

\* Whoever reads a branch sees whole datasets come and go one at a time, however
\* many runs of seed_slow and seed_fast interleave on it.
THEOREM ImplementsOneDataset == Spec => ActsAsOneDataset
  BY InitSeen, StepSeen, Invariant, PTL DEF Spec, AsSeen!Spec, ActsAsOneDataset

-----------------------------------------------------------------------------
(* Why every run ends: whoever waits is let go on, or sits in a circle that  *)
(* Postgres breaks.  A circle is never longer than the three of              *)
(* DeadlockDetected: one run has begun to truncate, one has inserted its     *)
(* users, and the others that hold a lock have locked users alone and wait   *)
(* for the second.                                                           *)

\* The next statement of r waits for nobody.
GoesOn(r) ==
    \/ stage[r] \in {"off", "building"}
    \/ stage[r] = "connected" /\ Readers(r, "users") = {}
    \/ stage[r] = "filling" /\ Writers(r, "users") = {}
    \/ stage[r] \in {"truncating", "users", "copying"} /\ WaitsFor(r) = {}
    \/ stage[r] = "indexing" /\ Builders(r, FAST_INDEXES[at[r] + 1]) = {}

InCircle(r) ==
    \E q \in WaitsFor(r) : r \in WaitsFor(q) \/ \E p \in WaitsFor(q) : r \in WaitsFor(p)

\* As long as a run has not ended, one can go on or is in a circle: the locks
\* of any number of runs never hold each other up unnoticed.
NobodyIsStuck ==
    (\E r \in Runs : stage[r] \notin Ended) => \E r \in Runs : GoesOn(r) \/ InCircle(r)

OneTruncates ==
    \A r, q \in Runs :
      stage[r] = "truncating" /\ stage[q] = "truncating" /\ at[r] > 0 /\ at[q] > 0 => r = q

InPlace == \A r \in Runs : stage[r] \in {"truncating", "users", "copying"} => at[r] \in 0 .. 4

LInv == OneTruncates /\ InPlace

LEMMA HoldsTheFirst ==
    ASSUME TypeOK, NEW q \in Runs, stage[q] = "truncating", at[q] > 0
    PROVE  "order_items" \in Exclusive(q)
<1>1. 1 \in 1 .. at[q] /\ TruncateOrder[1] = "order_items"
  BY DEF TypeOK, TruncateOrder
<1> QED BY <1>1 DEF Exclusive

\* A step of r to a stage in which it has begun to truncate, at most if it had
\* before or nobody else has.
LEMMA StaysInPlace ==
    ASSUME TypeOK, LInv, NEW r \in Runs, NEW s, NEW n, Become(r, s, n),
           s \in {"truncating", "users", "copying"} => n \in 0 .. 4,
           s = "truncating" /\ n > 0 =>
             \/ stage[r] = "truncating" /\ at[r] > 0
             \/ \A q \in Runs \ {r} : stage[q] = "truncating" => ~(at[q] > 0)
    PROVE  LInv'
<1>1. \A q \in Runs : /\ stage'[q] = IF q = r THEN s ELSE stage[q]
                      /\ at'[q] = IF q = r THEN n ELSE at[q]
  BY DEF Become, TypeOK
<1>2. InPlace'
  BY <1>1 DEF InPlace, LInv
<1>3. OneTruncates'
  BY <1>1 DEF OneTruncates, LInv
<1> QED BY <1>2, <1>3 DEF LInv

LEMMA NextInPlace == TypeOK /\ LInv /\ [Next]_vars => LInv'
<1> SUFFICES ASSUME TypeOK, LInv, [Next]_vars PROVE LInv'
  OBVIOUS
<1>1. ASSUME NEW r \in Runs, LockNext(r) PROVE LInv'
  <2>1. Become(r, "truncating", at[r] + 1) /\ at[r] + 1 \in 0 .. 4 /\ stage[r] = "truncating"
    BY <1>1 DEF LockNext, TypeOK
  <2>2. CASE at[r] > 0
    BY <2>1, <2>2, StaysInPlace
  <2>3. CASE ~(at[r] > 0)
    <3>1. at[r] = 0 /\ TruncateOrder[at[r] + 1] = "order_items"
      BY <2>3 DEF TypeOK, TruncateOrder
    <3>2. Everyone(r, "order_items") = {}
      BY <1>1, <3>1 DEF LockNext, WaitsFor
    <3>3. \A q \in Runs \ {r} : stage[q] = "truncating" => ~(at[q] > 0)
      BY <3>2, HoldsTheFirst DEF Everyone, Writers
    <3> QED BY <2>1, <3>3, StaysInPlace
  <2> QED BY <2>2, <2>3
<1>2. ASSUME NEW r \in Runs, CopyNext(r) PROVE LInv'
  <2>1. Become(r, "copying", at[r] + 1) /\ at[r] + 1 \in 0 .. 4
    BY <1>2 DEF CopyNext, TypeOK
  <2> QED BY <2>1, StaysInPlace
<1>3. ASSUME NEW r \in Runs,
             \/ Refuse(r) \/ Connect(r) \/ Truncate(r) \/ Count(r) \/ CopyUsers(r)
             \/ InsertUsers(r) \/ Commit(r) \/ BeginIndex(r) \/ EndIndex(r)
             \/ DeadlockDetected(r) \/ Interrupt(r)
      PROVE  LInv'
  <2>1. PICK s, n : /\ Become(r, s, n)
                    /\ s \in {"truncating", "users", "copying"} => n \in {0, 1}
                    /\ s = "truncating" => n = 0
    BY <1>3 DEF Refuse, Connect, Truncate, Count, CopyUsers, InsertUsers, Commit,
                BeginIndex, EndIndex, NextIndex, DeadlockDetected, Interrupt
  <2> QED BY <2>1, StaysInPlace
<1>4. CASE UNCHANGED vars
  BY <1>4 DEF vars, LInv, OneTruncates, InPlace
<1> QED BY <1>1, <1>2, <1>3, <1>4 DEF Next, Step

\* Who keeps a run waiting while nobody builds an index.
LEMMA WhoIsInTheWay ==
    ASSUME TypeOK, \A q \in Runs : stage[q] # "building",
           NEW r \in Runs, NEW t, NEW q \in Everyone(r, t)
    PROVE  /\ q \in Runs \ {r}
           /\ \/ stage[q] = "truncating" /\ at[q] > 0
              \/ stage[q] \in {"users", "copying"}
<1>1. q \in Runs \ {r} /\ t \in Exclusive(q) \cup RowExclusive(q)
  BY DEF Everyone, Builders, Writers, Share
<1> QED BY <1>1 DEF Exclusive, RowExclusive, TypeOK

LEMMA SomebodyGoesOn == IInv /\ LInv => NobodyIsStuck
<1> SUFFICES ASSUME IInv, LInv, NEW x \in Runs, stage[x] \notin Ended,
                    ~ \E r \in Runs : GoesOn(r)
             PROVE  \E r \in Runs : InCircle(r)
  BY DEF NobodyIsStuck
<1>0. TypeOK /\ \A q \in Runs : stage[q] \notin {"off", "building"}
  BY DEF IInv, GoesOn
<1>1. \A r, q \in Runs : stage[r] = "truncating" /\ stage[q] = "truncating"
                           /\ at[r] > 0 /\ at[q] > 0 => r = q
  BY DEF LInv, OneTruncates
<1>2. \A r, q \in Runs : stage[r] = "copying" /\ stage[q] = "copying" => r = q
  BY DEF IInv, OneCopies
\* Whoever truncates waits for one that copies its users or has.
<1>3. ASSUME NEW r \in Runs, stage[r] = "truncating", at[r] > 0
      PROVE  \E q \in WaitsFor(r) \cap Runs : stage[q] \in {"users", "copying"}
  <2>1. WaitsFor(r) # {}
    BY <1>3 DEF GoesOn
  <2>2. WaitsFor(r) = Everyone(r, TruncateOrder[at[r] + 1])
    BY <1>3, <2>1 DEF WaitsFor
  <2>3. PICK q \in WaitsFor(r) : q \in Everyone(r, TruncateOrder[at[r] + 1])
    BY <2>1, <2>2
  <2> QED BY <1>0, <1>1, <1>3, <2>3, WhoIsInTheWay
\* Whoever copies its users waits for one that has.
<1>4. ASSUME NEW r \in Runs, stage[r] = "users"
      PROVE  \E q \in Runs : stage[q] = "copying" /\ q \in WaitsFor(r)
  <2>1. WaitsFor(r) # {} /\ WaitsFor(r) = SameEmails(r)
    BY <1>4 DEF GoesOn, WaitsFor
  <2> QED BY <2>1 DEF SameEmails
\* Who has waits for whoever truncates.
<1>5. ASSUME NEW r \in Runs, stage[r] = "copying"
      PROVE  \E q \in Runs : stage[q] = "truncating" /\ at[q] > 0 /\ q \in WaitsFor(r)
  <2>1. WaitsFor(r) # {}
    BY <1>5 DEF GoesOn
  <2>2. WaitsFor(r) = Writers(r, CopyOrder[at[r] + 1])
    BY <1>5, <2>1 DEF WaitsFor
  <2>3. PICK q \in WaitsFor(r) : q \in Runs \ {r} /\ CopyOrder[at[r] + 1] \in Exclusive(q) \cup Share(q)
    BY <2>1, <2>2 DEF Writers
  <2> QED BY <1>0, <2>3 DEF Exclusive, Share, TypeOK
<1>6. ASSUME NEW c \in Runs, stage[c] = "copying" PROVE InCircle(c)
  <2>1. PICK t \in Runs : stage[t] = "truncating" /\ at[t] > 0 /\ t \in WaitsFor(c)
    BY <1>5, <1>6
  <2>2. PICK q \in WaitsFor(t) \cap Runs : stage[q] \in {"users", "copying"}
    BY <1>3, <2>1
  <2>3. CASE stage[q] = "copying"
    BY <1>2, <1>6, <2>1, <2>2, <2>3 DEF InCircle
  <2>4. CASE stage[q] = "users"
    <3>1. c \in WaitsFor(q)
      BY <1>2, <1>4, <1>6, <2>2, <2>4
    <3> QED BY <2>1, <2>2, <3>1 DEF InCircle
  <2> QED BY <2>2, <2>3, <2>4
\* If nobody has inserted its users, nobody holds a lock, and nobody waits.
<1>7. CASE \A r \in Runs : stage[r] # "copying"
  <2>1. \A r \in Runs : stage[r] # "users"
    BY <1>4, <1>7
  <2>2. \A r \in Runs : stage[r] = "truncating" => ~(at[r] > 0)
    BY <1>3, <1>7, <2>1
  <2>3. \A r \in Runs : \A t : Everyone(r, t) = {}
    BY <1>0, <1>7, <2>1, <2>2, WhoIsInTheWay
  <2>4. GoesOn(x)
    <3>1. \A t : Everyone(x, t) = {} /\ Builders(x, t) = {} /\ Writers(x, t) = {} /\ Readers(x, t) = {}
      BY <2>3 DEF Everyone, Builders, Writers, Readers
    <3>2. stage[x] \in {"connected", "truncating", "filling", "indexing"}
      BY <1>0, <1>7, <2>1 DEF TypeOK, Stages
    <3>3. stage[x] = "truncating" => WaitsFor(x) = {}
      BY <3>1 DEF WaitsFor
    <3> QED BY <3>1, <3>2, <3>3 DEF GoesOn
  <2> QED BY <2>4
<1> QED BY <1>6, <1>7

\* However many runs wait for each other's locks and users, one goes on or
\* Postgres ends one: nothing that seed_slow and seed_fast do hangs for good.
THEOREM DeadlocksAreFound == Spec => []NobodyIsStuck
<1>1. Init => LInv
  BY DEF Init, LInv, OneTruncates, InPlace
<1>2. IInv => TypeOK
  BY DEF IInv
<1> QED BY <1>1, <1>2, NextInPlace, SomebodyGoesOn, Invariant, PTL DEF Spec
-----------------------------------------------------------------------------
(* How long a run is.                                                        *)

\* The most statements a run at this place has before it.
StepsLeft(s, n) ==
    CASE s = "off" -> 21
      [] s = "connected" -> 20
      [] s = "truncating" -> 20 - n
      [] s = "filling" -> 15
      [] s = "users" -> 14
      [] s = "copying" -> 13 - n
      [] s = "indexing" -> 8 - 2 * n
      [] s = "building" -> 7 - 2 * n
      [] s \in Ended -> 0

InRange(s, n) ==
    /\ s \in Stages /\ n \in Nat
    /\ s \in {"truncating", "copying"} => n \in 0 .. 4
    /\ s \in {"indexing", "building"} => n \in 0 .. 3

RunsInRange == \A r \in Runs : InRange(stage[r], at[r])

\* A run stands still or comes closer to its end.
RunsGoForward ==
    [][\A r \in Runs :
         \/ stage'[r] = stage[r] /\ at'[r] = at[r]
         \/ /\ StepsLeft(stage'[r], at'[r]) \in 0 .. 20
            /\ StepsLeft(stage'[r], at'[r]) < StepsLeft(stage[r], at[r])]_vars

LEMMA StepsLeftInRange ==
    ASSUME NEW s, NEW n, InRange(s, n)
    PROVE  /\ StepsLeft(s, n) \in 0 .. 21
           /\ s \notin Ended => StepsLeft(s, n) > 0
           /\ s \in Ended => StepsLeft(s, n) = 0
<1>1. CASE s \in Ended
  BY <1>1 DEF Ended, StepsLeft
<1>2. CASE s \in {"off", "connected", "filling", "users"}
  BY <1>2 DEF Ended, StepsLeft
<1>3. CASE s \in {"truncating", "copying"}
  BY <1>3 DEF Ended, InRange, StepsLeft
<1>4. CASE s \in {"indexing", "building"}
  BY <1>4 DEF Ended, InRange, StepsLeft
<1> QED BY <1>1, <1>2, <1>3, <1>4 DEF InRange, Stages

\* Where a step of r takes it.
LEMMA StepAdvances ==
    ASSUME script \in {"slow", "fast"}, NEW r \in Runs, InRange(stage[r], at[r]),
           Step(r) \/ Interrupt(r)
    PROVE  \E s, n : /\ Become(r, s, n) /\ InRange(s, n)
                     /\ StepsLeft(s, n) < StepsLeft(stage[r], at[r])
<1> DEFINE Advances(s, n) ==
             /\ Become(r, s, n) /\ InRange(s, n)
             /\ StepsLeft(s, n) < StepsLeft(stage[r], at[r])
<1> SUFFICES \E s, n : Advances(s, n)
  OBVIOUS
<1>1. at[r] \in Nat
  BY DEF InRange
<1>2. ASSUME NEW s \in Ended, NEW n \in Nat, Become(r, s, n), stage[r] \notin Ended
      PROVE  Advances(s, n)
  <2>1. InRange(s, n)
    BY <1>2 DEF InRange, Stages, Ended
  <2> QED BY <1>2, <2>1, StepsLeftInRange
<1>3. ASSUME NEW s \in {"connected", "truncating", "filling", "users", "indexing"},
             NEW n \in Nat, Become(r, s, n), s = "users" \/ n = 0,
             \/ stage[r] = "off" /\ s \in {"connected", "truncating"}
             \/ stage[r] = "truncating" /\ at[r] = 4 /\ s = "filling"
             \/ stage[r] = "connected" /\ s = "filling"
             \/ stage[r] = "filling" /\ s = "users"
             \/ stage[r] = "copying" /\ at[r] = 4 /\ s = "indexing"
      PROVE  Advances(s, n)
  <2>1. InRange(s, n)
    BY <1>3 DEF InRange, Stages, Ended
  <2> QED BY <1>3, <2>1 DEF StepsLeft, Ended
<1>4. ASSUME NEW s \in {"truncating", "copying"}, NEW n \in 0 .. 4, Become(r, s, n),
             \/ stage[r] = s /\ at[r] < 4 /\ n = at[r] + 1
             \/ stage[r] = "users" /\ s = "copying"
      PROVE  Advances(s, n)
  <2>1. InRange(s, n)
    BY <1>4 DEF InRange, Stages, Ended
  <2>2. StepsLeft(s, n) = IF s = "truncating" THEN 20 - n ELSE 13 - n
    BY DEF StepsLeft, Ended
  <2>3. CASE stage[r] = s
    <3>1. StepsLeft(stage[r], at[r]) = IF s = "truncating" THEN 20 - at[r] ELSE 13 - at[r]
      BY <2>3 DEF StepsLeft, Ended
    <3> QED BY <1>1, <1>4, <2>1, <2>2, <2>3, <3>1
  <2>4. CASE stage[r] = "users" /\ s = "copying"
    <3>1. StepsLeft(stage[r], at[r]) = 14
      BY <2>4 DEF StepsLeft, Ended
    <3> QED BY <1>4, <2>1, <2>2, <2>4, <3>1
  <2> QED BY <1>4, <2>3, <2>4
<1>5. ASSUME NextIndex(r), stage[r] \in {"indexing", "building"}
      PROVE  \E s, n : Advances(s, n)
  <2>1. at[r] \in 0 .. 3 /\ Len(FAST_INDEXES) = 4
    BY <1>5 DEF InRange, FAST_INDEXES
  <2>2. CASE at[r] + 1 = 4
    <3>1. Become(r, "done", at[r] + 1)
      BY <1>5, <2>1, <2>2 DEF NextIndex
    <3>2. "done" \in Ended /\ at[r] + 1 \in Nat /\ stage[r] \notin Ended
      BY <1>1, <1>5 DEF Ended
    <3>3. Advances("done", at[r] + 1)
      BY <1>2, <3>1, <3>2
    <3> QED BY <3>3
  <2>3. CASE at[r] + 1 # 4
    <3>1. Become(r, "indexing", at[r] + 1)
      BY <1>5, <2>1, <2>3 DEF NextIndex
    <3>2. InRange("indexing", at[r] + 1)
      BY <2>1, <2>3 DEF InRange, Stages, Ended
    <3>3. StepsLeft("indexing", at[r] + 1) = 8 - 2 * (at[r] + 1)
      BY DEF StepsLeft, Ended
    <3>4. StepsLeft(stage[r], at[r]) \in {8 - 2 * at[r], 7 - 2 * at[r]}
      BY <1>5 DEF StepsLeft, Ended
    <3>5. Advances("indexing", at[r] + 1)
      BY <1>1, <3>1, <3>2, <3>3, <3>4
    <3> QED BY <3>5
  <2> QED BY <2>2, <2>3
<1>6. CASE Refuse(r) \/ Interrupt(r) \/ DeadlockDetected(r)
  <2>1. PICK s \in Ended : Become(r, s, 0)
    BY <1>6 DEF Refuse, Interrupt, DeadlockDetected, Ended
  <2>2. stage[r] \notin Ended
    BY <1>6 DEF Refuse, Interrupt, DeadlockDetected, WaitsFor, Ended
  <2>3. Advances(s, 0)
    BY <1>2, <2>1, <2>2
  <2> QED BY <2>3
<1>7. CASE Connect(r)
  <2>1. PICK s \in {"connected", "truncating"} : Become(r, s, 0) /\ stage[r] = "off"
    BY <1>7 DEF Connect
  <2>2. Advances(s, 0)
    BY <1>3, <2>1
  <2> QED BY <2>2
<1>8. CASE LockNext(r)
  <2>1. Become(r, "truncating", at[r] + 1) /\ stage[r] = "truncating" /\ at[r] < 4
    BY <1>8 DEF LockNext
  <2>2. Advances("truncating", at[r] + 1)
    BY <1>1, <1>4, <2>1
  <2> QED BY <2>2
<1>9. CASE Truncate(r)
  <2>1. Advances("filling", 0)
    BY <1>3, <1>9 DEF Truncate
  <2> QED BY <2>1
<1>10. CASE Count(r)
  <2>1. PICK s : Become(r, s, 0) /\ stage[r] = "connected" /\ s \in {"filling", "failed", "done"}
    <3>1. (CASE datasets = {} -> "filling"
             [] datasets # {} /\ script = "slow" -> "failed"
             [] datasets # {} /\ script = "fast" -> "done") \in {"filling", "failed", "done"}
      OBVIOUS
    <3> QED BY <1>10, <3>1 DEF Count
  <2>2. Advances(s, 0)
    BY <1>2, <1>3, <2>1 DEF Ended
  <2> QED BY <2>2
<1>11. CASE CopyUsers(r)
  <2>1. Advances("users", 1)
    BY <1>3, <1>11 DEF CopyUsers
  <2> QED BY <2>1
<1>12. CASE InsertUsers(r)
  <2>1. /\ stage[r] = "users"
        /\ Become(r, "copying", 1) \/ Become(r, "failed", 0)
    BY <1>12 DEF InsertUsers
  <2>2. Advances("copying", 1) \/ Advances("failed", 0)
    BY <1>2, <1>4, <2>1 DEF Ended
  <2> QED BY <2>2
<1>13. CASE CopyNext(r)
  <2>1. Become(r, "copying", at[r] + 1) /\ stage[r] = "copying" /\ at[r] < 4
    BY <1>13 DEF CopyNext
  <2>2. Advances("copying", at[r] + 1)
    BY <1>1, <1>4, <2>1
  <2> QED BY <2>2
<1>14. CASE Commit(r)
  <2>1. /\ stage[r] = "copying" /\ at[r] = 4
        /\ Become(r, "indexing", 0) \/ Become(r, "done", 0)
    BY <1>14 DEF Commit
  <2>2. Advances("indexing", 0) \/ Advances("done", 0)
    BY <1>2, <1>3, <2>1 DEF Ended
  <2> QED BY <2>2
<1>15. CASE BeginIndex(r)
  <2>1. stage[r] = "indexing" /\ (NextIndex(r) \/ Become(r, "building", at[r]))
    BY <1>15 DEF BeginIndex
  <2>2. CASE Become(r, "building", at[r])
    <3>1. InRange("building", at[r])
      BY <2>1 DEF InRange, Stages, Ended
    <3>2. StepsLeft("building", at[r]) = 7 - 2 * at[r] /\ StepsLeft(stage[r], at[r]) = 8 - 2 * at[r]
      BY <2>1 DEF StepsLeft, Ended
    <3>3. Advances("building", at[r])
      BY <1>1, <2>2, <3>1, <3>2
    <3> QED BY <3>3
  <2> QED BY <1>5, <2>1, <2>2
<1>16. CASE EndIndex(r)
  <2>1. stage[r] = "building" /\ (NextIndex(r) \/ Become(r, "failed", 0))
    BY <1>16 DEF EndIndex
  <2>2. Become(r, "failed", 0) => Advances("failed", 0)
    BY <1>2, <2>1 DEF Ended
  <2> QED BY <1>5, <2>1, <2>2
<1> QED BY <1>6, <1>7, <1>8, <1>9, <1>10, <1>11, <1>12, <1>13, <1>14, <1>15, <1>16 DEF Step

\* A run makes at most 21 steps, whatever the other runs do: no retry and no
\* lock that is waited for twice.  With DeadlocksAreFound, which says that one
\* of any number of runs can go on, all of them come to an end.
THEOREM RunsAreShort == Spec => RunsGoForward
<1> DEFINE Forward(r) ==
             \/ stage'[r] = stage[r] /\ at'[r] = at[r]
             \/ /\ StepsLeft(stage'[r], at'[r]) \in 0 .. 20
                /\ StepsLeft(stage'[r], at'[r]) < StepsLeft(stage[r], at[r])
<1>1. Init => RunsInRange
  BY DEF Init, RunsInRange, InRange, Stages, Ended
<1>2. ASSUME TypeOK, RunsInRange, [Next]_vars
      PROVE  RunsInRange' /\ \A r \in Runs : Forward(r)
  <2>1. CASE UNCHANGED vars
    BY <1>2, <2>1 DEF vars, RunsInRange
  <2>2. ASSUME NEW q \in Runs, Step(q) \/ Interrupt(q)
        PROVE  RunsInRange' /\ \A r \in Runs : Forward(r)
    <3>1. PICK s, n : /\ Become(q, s, n) /\ InRange(s, n)
                      /\ StepsLeft(s, n) < StepsLeft(stage[q], at[q])
      BY <1>2, <2>2, StepAdvances DEF RunsInRange, TypeOK
    <3>2. \A r \in Runs : /\ stage'[r] = IF r = q THEN s ELSE stage[r]
                          /\ at'[r] = IF r = q THEN n ELSE at[r]
      BY <1>2, <3>1 DEF TypeOK, Become
    <3>3. RunsInRange'
      BY <1>2, <3>1, <3>2 DEF RunsInRange
    <3>4. Forward(q)
      <4>1. StepsLeft(s, n) \in 0 .. 21 /\ StepsLeft(stage[q], at[q]) \in 0 .. 21
        BY <1>2, <3>1, StepsLeftInRange DEF RunsInRange
      <4>2. StepsLeft(s, n) \in 0 .. 20
        BY <3>1, <4>1
      <4> QED BY <3>1, <3>2, <4>2
    <3> QED BY <3>2, <3>3, <3>4
  <2> QED BY <1>2, <2>1, <2>2 DEF Next
<1>3. IInv => TypeOK
  BY DEF IInv
<1> QED BY <1>1, <1>2, <1>3, Invariant, PTL DEF Spec, RunsGoForward
=============================================================================
