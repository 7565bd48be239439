----------------------------- MODULE EventStream -----------------------------
(***************************************************************************)
(* GET /_slowquery/api/stream: the generator of api/routers/dashboard.py   *)
(* that polls the library's store and tells one client, in server-sent     *)
(* events, of every p95 that has changed since the last poll.              *)
(*                                                                         *)
(* The generator is suspended while it polls, at every event (a slow       *)
(* client holds it there) and between polls; the store changes and the     *)
(* client may leave meanwhile.  The stream of another client has nothing   *)
(* in common with this one.                                                *)
(***************************************************************************)
EXTENDS Integers, FiniteSets

CONSTANTS
    Fingerprints,
    Values,          \* what a p95 may be
    Null,            \* p95_ms of a fingerprint that is only just seen
    Unknown,         \* no entry
    STREAM_LIMIT     \* _STREAM_LIMIT: rows that a poll returns at most

ASSUME StreamAssumption ==
    /\ Null \notin Values /\ Unknown \notin Values \cup {Null}
    /\ STREAM_LIMIT \in Nat \ {0}

VARIABLES
    ready,       \* ensure_ready() says so
    p95,         \* the store's rows
    connected,   \* the client is there
    view,        \* the last p95 the client has been told of
    stage,       \* "polling", "sending", "asleep" or "over"
    initial,     \* no batch has been finished yet
    rows,        \* what the last poll returned
    left,        \* the fingerprints of rows still to be gone through
    last,        \* last_p95
    spoke        \* an event was emitted since the last poll

outside == <<ready, p95>>
client == <<connected, view>>
generator == <<stage, initial, rows, left, last, spoke>>
vars == <<outside, client, generator>>

Recorded == {f \in Fingerprints : p95[f] # Unknown}

NoRows == [f \in Fingerprints |-> Unknown]

-----------------------------------------------------------------------------
(* The generator.                                                          *)

\* The pages list_queries may return: which rows it prefers is its affair.
Pages ==
    IF ~ready THEN {{}}
    ELSE {P \in SUBSET Recorded :
            \/ P = Recorded /\ Cardinality(P) <= STREAM_LIMIT
            \/ Cardinality(P) = STREAM_LIMIT}

\* _poll_fingerprints returns.
Poll ==
    /\ stage = "polling"
    /\ \E P \in Pages :
         /\ rows' = [f \in Fingerprints |-> IF f \in P THEN p95[f] ELSE Unknown]
         /\ left' = P
    /\ spoke' = FALSE
    /\ stage' = "sending"
    /\ UNCHANGED <<outside, client, initial, last>>

\* It raises: the response breaks off.
PollFails ==
    /\ stage = "polling"
    /\ stage' = "over"
    /\ UNCHANGED <<outside, client, initial, rows, left, last, spoke>>

\* Whether the p95 of f is an event: in the first batch every number is.
News(f) == rows[f] # Null /\ (initial \/ rows[f] # last[f])

Tell(f, v) ==
    /\ view' = [view EXCEPT ![f] = v]
    /\ spoke' = TRUE

\* Mutant: a fingerprint that was not there at the last poll is passed over.
PassNew(f) ==
    /\ stage = "sending" /\ f \in left
    /\ left' = left \ {f}
    /\ last' = [last EXCEPT ![f] = rows[f]]
    /\ IF News(f) /\ last[f] # Unknown THEN Tell(f, rows[f]) ELSE UNCHANGED <<view, spoke>>
    /\ UNCHANGED <<outside, connected, stage, initial, rows>>

\* Mutant: last_p95 is written by the first batch only.
RememberFirst(f) ==
    /\ stage = "sending" /\ f \in left
    /\ left' = left \ {f}
    /\ last' = IF initial THEN [last EXCEPT ![f] = rows[f]] ELSE last
    /\ IF News(f) THEN Tell(f, rows[f]) ELSE UNCHANGED <<view, spoke>>
    /\ UNCHANGED <<outside, connected, stage, initial, rows>>

\* The loop's body, up to the next row.
Row(f) ==
    /\ stage = "sending" /\ f \in left
    /\ left' = left \ {f}
    /\ last' = [last EXCEPT ![f] = rows[f]]
    /\ IF News(f) THEN Tell(f, rows[f]) ELSE UNCHANGED <<view, spoke>>
    /\ UNCHANGED <<outside, connected, stage, initial, rows>>

\* After the rows a heartbeat: in the first batch if there were none, later
\* if none of them was an event.
EndBatch ==
    /\ stage = "sending" /\ left = {}
    /\ spoke' = (spoke \/ ~initial \/ rows = NoRows)
    /\ initial' = FALSE
    /\ stage' = "asleep"
    /\ UNCHANGED <<outside, client, rows, left, last>>

\* Mutant: the loop does not ask whether the client is there.
WakeAlways ==
    /\ stage = "asleep"
    /\ stage' = "polling"
    /\ UNCHANGED <<outside, client, initial, rows, left, last, spoke>>

\* The interval is over.
Wake ==
    /\ stage = "asleep"
    /\ stage' = IF connected THEN "polling" ELSE "over"
    /\ UNCHANGED <<outside, client, initial, rows, left, last, spoke>>

-----------------------------------------------------------------------------
(* Around it.                                                              *)

Disconnect ==
    /\ connected
    /\ connected' = FALSE
    /\ UNCHANGED <<outside, view, generator>>

\* The server may find out while the generator stands at an event.
Cut ==
    /\ ~connected
    /\ stage = "sending"
    /\ stage' = "over"
    /\ UNCHANGED <<outside, client, initial, rows, left, last, spoke>>

StoreStarts ==
    /\ ~ready
    /\ ready' = TRUE
    /\ UNCHANGED <<p95, client, generator>>

\* The library records a fingerprint, without a p95 at first, or measures it
\* anew.
Measure(f, v) ==
    /\ v # p95[f]
    /\ p95[f] = Unknown => v = Null
    /\ p95' = [p95 EXCEPT ![f] = v]
    /\ UNCHANGED <<ready, client, generator>>

Init ==
    /\ ready \in BOOLEAN
    /\ p95 \in [Fingerprints -> Values \cup {Null, Unknown}]
    /\ connected = TRUE
    /\ view = NoRows
    /\ stage = "polling"
    /\ initial = TRUE
    /\ rows = NoRows
    /\ left = {}
    /\ last = NoRows
    /\ spoke = FALSE

Step == Poll \/ (\E f \in Fingerprints : Row(f)) \/ EndBatch \/ Wake

Next ==
    \/ Step \/ PollFails \/ Disconnect \/ Cut \/ StoreStarts
    \/ \E f \in Fingerprints, v \in Values \cup {Null} : Measure(f, v)

\* The generator goes on whenever it can: a poll ends, a client that is there
\* takes what it is sent.
Fairness == WF_vars(Step)

Spec == Init /\ [][Next]_vars /\ Fairness

-----------------------------------------------------------------------------
(* Properties.                                                             *)

\* Between two batches the client has been told of every number the last poll
\* returned, although only changes are sent and rows come and go with the page
\* (spec 09, tests 2 and 4).
ViewFollowsThePoll ==
    stage = "asleep" =>
      \A f \in Fingerprints : rows[f] \in Values => view[f] = rows[f]

\* A p95 that stays as it is reaches the client, however often it changed and
\* changed back before, while the polls list it time and again and the stream
\* is not over.
ChangesArrive ==
    \A f \in Fingerprints, v \in Values :
      /\ <>[](ready /\ p95[f] = v /\ stage # "over")
      /\ []<>(rows[f] # Unknown)
      => <>[](view[f] = v)

\* A stream does not outlive its client (spec 09, test 5).
StreamEnds == ~connected ~> stage = "over"

\* Said of the first batch (dashboard.py:135): the client gets data before the
\* first interval has elapsed.
FirstPollSpeaks ==
    [][stage = "sending" /\ stage' = "asleep" /\ initial => spoke']_vars
=============================================================================
