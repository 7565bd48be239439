------------------------- MODULE EventStreamProofs -------------------------
(* What EventStream's invariant holds by, for any number of fingerprints and *)
(* any page: the generator remembers a number only after it has told it.     *)
EXTENDS EventStream, TLAPS

Readings == Values \cup {Null, Unknown}

TypeOK ==
    /\ p95 \in [Fingerprints -> Readings]
    /\ view \in [Fingerprints -> Readings]
    /\ rows \in [Fingerprints -> Readings]
    /\ last \in [Fingerprints -> Readings]
    /\ left \subseteq Fingerprints
    /\ stage \in {"polling", "sending", "asleep", "over"}

\* What the generator remembers is what the client was told last.
Remembered ==
    \A f \in Fingerprints : last[f] \in Values => view[f] = last[f]

\* Of the rows gone through, the client knows every number.
ToldSoFar ==
    stage \in {"sending", "asleep"} =>
      \A f \in Fingerprints \ left : rows[f] \in Values => view[f] = rows[f]

BatchIsOver == stage = "asleep" => left = {}

IInv == TypeOK /\ Remembered /\ ToldSoFar /\ BatchIsOver

-----------------------------------------------------------------------------
(* A poll replaces rows and left, and nothing that was told.                 *)
LEMMA PollStep == ASSUME IInv, Poll PROVE IInv'
<1> USE StreamAssumption DEF IInv, TypeOK, Readings
<1>1. PICK P \in Pages :
        /\ rows' = [f \in Fingerprints |-> IF f \in P THEN p95[f] ELSE Unknown]
        /\ left' = P
  BY DEF Poll
<1>2. P \subseteq Fingerprints
  BY <1>1 DEF Pages, Recorded
<1>3. UNCHANGED <<p95, view, last>> /\ stage' = "sending"
  BY DEF Poll, outside, client
<1>4. TypeOK'
  BY <1>1, <1>2, <1>3
<1>5. Remembered'
  BY <1>3 DEF Remembered
<1>6. ToldSoFar'
  BY <1>1, <1>2 DEF ToldSoFar
<1>7. BatchIsOver'
  BY <1>3 DEF BatchIsOver
<1> QED BY <1>4, <1>5, <1>6, <1>7

(* A row with a number is told, or is the number the client already has.     *)
LEMMA RowStep == ASSUME IInv, NEW f \in Fingerprints, Row(f) PROVE IInv'
<1> USE StreamAssumption DEF IInv, TypeOK, Readings
<1>1. /\ left' = left \ {f}
      /\ last' = [last EXCEPT ![f] = rows[f]]
      /\ stage = "sending" /\ stage' = "sending"
      /\ UNCHANGED <<p95, rows>>
  BY DEF Row, outside
<1>2. view' = view \/ view' = [view EXCEPT ![f] = rows[f]]
  BY DEF Row, Tell
<1>3. rows[f] \in Values => view'[f] = rows[f]
  <2>1. CASE News(f)
    BY <2>1 DEF Row, Tell
  <2>2. CASE ~News(f)
    <3>1. rows[f] \in Values => rows[f] = last[f]
      BY <2>2 DEF News
    <3>2. view' = view
      BY <2>2 DEF Row
    <3> QED BY <3>1, <3>2 DEF Remembered
  <2> QED BY <2>1, <2>2
<1>4. \A g \in Fingerprints : g # f => view'[g] = view[g]
  BY <1>2
<1>5. TypeOK'
  BY <1>1, <1>2
<1>6. Remembered'
  BY <1>1, <1>3, <1>4 DEF Remembered
<1>7. ToldSoFar'
  BY <1>1, <1>3, <1>4 DEF ToldSoFar
<1>8. BatchIsOver'
  BY <1>1 DEF BatchIsOver
<1> QED BY <1>5, <1>6, <1>7, <1>8

LEMMA InitInv == Init => IInv
  BY StreamAssumption
  DEF Init, IInv, TypeOK, Readings, Remembered, ToldSoFar, BatchIsOver, NoRows

LEMMA NextInv == IInv /\ [Next]_vars => IInv'
<1> SUFFICES ASSUME IInv, [Next]_vars PROVE IInv'
  OBVIOUS
<1> USE DEF IInv, TypeOK, Readings, Remembered, ToldSoFar, BatchIsOver
<1>1. CASE Poll
  BY <1>1, PollStep
<1>2. CASE \E f \in Fingerprints : Row(f)
  BY <1>2, RowStep
<1>3. CASE EndBatch
  BY <1>3 DEF EndBatch, outside, client
<1>4. CASE Wake
  BY <1>4 DEF Wake, outside, client
<1>5. CASE PollFails
  BY <1>5 DEF PollFails, outside, client
<1>6. CASE Disconnect
  BY <1>6 DEF Disconnect, outside, generator
<1>7. CASE Cut
  BY <1>7 DEF Cut, outside, client
<1>8. CASE StoreStarts
  BY <1>8 DEF StoreStarts, client, generator
<1>9. CASE \E f \in Fingerprints, v \in Values \cup {Null} : Measure(f, v)
  BY <1>9 DEF Measure, client, generator
<1>10. CASE UNCHANGED vars
  BY <1>10 DEF vars, outside, client, generator
<1> QED
  BY <1>1, <1>2, <1>3, <1>4, <1>5, <1>6, <1>7, <1>8, <1>9, <1>10 DEF Next, Step

\* Between two batches the client knows every number of the last poll, for any
\* store, page size and order of the rows (_sse_generator, dashboard.py).
THEOREM TheViewFollows == Spec => []ViewFollowsThePoll
<1>1. IInv => ViewFollowsThePoll
  BY DEF IInv, ToldSoFar, BatchIsOver, ViewFollowsThePoll
<1> QED BY InitInv, NextInv, <1>1, PTL DEF Spec
\* What the generator compares a row with is what its client was told last: a
\* number that _sse_generator leaves out as unchanged is one the client has, also
\* when its row had dropped off the page in between.
THEOREM NothingIsForgotten == Spec => []Remembered
<1>1. IInv => Remembered
  BY DEF IInv
<1> QED BY InitInv, NextInv, <1>1, PTL DEF Spec

-----------------------------------------------------------------------------
(* The end of a stream.                                                      *)

StepsLeft(s) ==
    CASE s = "polling" -> 3 [] s = "sending" -> 2 [] s = "asleep" -> 1 [] s = "over" -> 0

\* From the moment its client has left, the generator only finishes what it is
\* at: the poll under way, the rows that poll returned, one interval.  It never
\* polls again, so that the store is not read for nobody.
WindsDown ==
    [][~connected =>
         /\ ~connected'
         /\ \/ UNCHANGED generator
            \/ StepsLeft(stage') < StepsLeft(stage)
            \/ /\ stage = "sending" /\ stage' = "sending"
               /\ rows' = rows
               /\ left' \subseteq left /\ left' # left]_vars

\* The check at the head of _sse_generator's loop is enough, wherever in a
\* batch the client leaves and whatever the store does then: with the fairness
\* of the generator a finite batch is all that is left of the stream.
THEOREM StreamsWindDown == Spec => WindsDown
<1>1. ASSUME ~connected, [Next]_vars
      PROVE  /\ ~connected'
             /\ \/ UNCHANGED generator
                \/ StepsLeft(stage') < StepsLeft(stage)
                \/ /\ stage = "sending" /\ stage' = "sending"
                   /\ rows' = rows
                   /\ left' \subseteq left /\ left' # left
  <2>1. CASE Poll \/ PollFails \/ EndBatch \/ Wake \/ Cut
    BY <1>1, <2>1 DEF Poll, PollFails, EndBatch, Wake, Cut, client, StepsLeft
  <2>2. ASSUME NEW f \in Fingerprints, Row(f)
        PROVE  /\ ~connected' /\ stage = "sending" /\ stage' = "sending" /\ rows' = rows
               /\ left' \subseteq left /\ left' # left
    BY <1>1, <2>2 DEF Row
  <2>3. CASE Disconnect \/ StoreStarts \/ UNCHANGED vars
    BY <1>1, <2>3 DEF Disconnect, StoreStarts, vars, client
  <2>4. ASSUME NEW f \in Fingerprints, NEW v \in Values \cup {Null}, Measure(f, v)
        PROVE  UNCHANGED <<client, generator>>
    BY <2>4 DEF Measure
  <2> QED BY <1>1, <2>1, <2>2, <2>3, <2>4 DEF Next, Step, client
<1> QED BY <1>1, PTL DEF Spec, WindsDown
=============================================================================
