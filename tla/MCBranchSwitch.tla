--------------------------- MODULE MCBranchSwitch ---------------------------
(* Model values for BranchSwitch: two or three clients. *)
EXTENDS BranchSwitch

CONSTANTS c1, c2, c3

TwoClients == {c1, c2}
ThreeClients == {c1, c2, c3}

AllParse == {}
AnyMalformed == Branch
=============================================================================
