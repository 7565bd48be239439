--------------------------- MODULE MCMutationGate ---------------------------
(* Model values for MutationGate: a bastion visitor at two addresses, two     *)
(* visitors of the dashboard and an anonymous one, who share an address with  *)
(* the first.                                                                 *)
EXTENDS MutationGate, TLC

CONSTANTS r1, r2, f1, alice, bob, carol, dave

TwoRequests == {r1, r2}
RequestSymmetry == Permutations(Requests)
OneFingerprint == {f1}

here == <<"198.51.100.7">>
there == <<"2001", "db8", "", "7">>

Caller(iss, sub, address, visitor, admin) ==
    [iss |-> iss, sub |-> sub, address |-> address, visitor |-> visitor, admin |-> admin]

Everybody ==
    {Caller("bastion", <<"alice">>, here, alice, TRUE),
     Caller("bastion", <<"alice">>, there, alice, FALSE),
     Caller("slowquery-frontend", <<"dashboard">>, here, bob, FALSE),
     Caller("slowquery-frontend", <<"dashboard">>, there, carol, TRUE),
     Caller("anonymous", <<>>, here, dave, FALSE)}
=============================================================================
