--------------------------- MODULE MCServedBranch ---------------------------
(* Model values for ServedBranch: pools of one connection, so that requests  *)
(* queue for it.                                                             *)
EXTENDS ServedBranch

CONSTANTS c1, r1, r2, h1

OneClient == {c1}
TwoRequests == {r1, r2}
OneProbe == {h1}
AllParse == {}

KeepOne == [e \in Engines |-> 1]
RoomForOne == [e \in Engines |-> 1]
=============================================================================
