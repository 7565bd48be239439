--------------------------- MODULE MCPlatformAuth ---------------------------
(* Model values for PlatformAuth.  A lifetime of 2 s with a leeway of 1 s, a  *)
(* cache of 2 s and a clock of 4 s let tokens and keys expire, and rotated    *)
(* keys come back, in every order.                                            *)
EXTENDS PlatformAuth, TLC

CONSTANTS r1, r2, NotAnInt

TwoRequests == {r1, r2}
RequestSymmetry == Permutations(Requests)

Claims(signer, iat, exp) ==
    [signer |-> signer, iss |-> IF signer = FrontendKey THEN FRONTEND_ISS ELSE BASTION_ISS,
     role |-> IF signer = FrontendKey THEN "frontend" ELSE "user",
     aud |-> "slowquery", iat |-> iat, exp |-> exp, sub |-> "visitor"]

\* Tokens of both issuers, of a key that is replaced later, and one whose life
\* is a second too long.
SomeTokens ==
    {Claims(0, 1, 3), Claims(1, 2, 4), Claims(0, 0, 3), Claims(FrontendKey, 1, NotAnInt)}
=============================================================================
