----------------------------- MODULE MCSeeding -----------------------------
(* Model values for Seeding.                                                  *)
EXTENDS Seeding

CONSTANTS r1, r2, r3

TwoRuns == {r1, r2}
ThreeRuns == {r1, r2, r3}
=============================================================================
