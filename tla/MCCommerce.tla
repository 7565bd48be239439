---------------------------- MODULE MCCommerce ----------------------------
(* Model values for Commerce.                                                *)
EXTENDS Commerce

CONSTANTS w1, r1

OneWalker == {w1}
OneReader == {r1}
=============================================================================
