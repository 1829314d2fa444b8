---------------------------- MODULE MCSessionStore ----------------------------
(* Requests of two tenants, one of which is the default scope.  Requests   *)
(* are alike until they arrive.                                            *)
EXTENDS SessionStore, TLC

RequestSymmetry == Permutations(Requests)
=============================================================================
