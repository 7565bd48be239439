---------------------------- MODULE MCLiveChecks ----------------------------
(* Values for LiveChecks: a tick is 15 seconds of the smoke test and 5 of    *)
(* the driver, and both are short.                                           *)
EXTENDS LiveChecks

SomeAttempts == {2, 0, Garbage}
SomeDelays == {0, 2, Garbage}
=============================================================================
