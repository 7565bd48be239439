--------------------------- MODULE MCEventStream ---------------------------
(* Model values for EventStream.                                              *)
EXTENDS EventStream

CONSTANTS f1, f2, f3, fastP95, slowP95

TwoFingerprints == {f1, f2}
TwoValues == {fastP95, slowP95}
=============================================================================
