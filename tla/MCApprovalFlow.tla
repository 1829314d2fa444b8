---------------------------- MODULE MCApprovalFlow ----------------------------
(* One caller, whose request may be executed twice, and five of the ways   *)
(* in which the vault shows a denial.                                      *)
EXTENDS ApprovalFlow

(* A decision that is shown throughout; of a plan, only by its run; only   *)
(* by the item that expired; another reason; and no code anywhere.         *)
SomeDenials ==
    {[code |-> "DENIAL", run |-> NONE, item |-> "DENIED", itemCode |-> "DENIAL"],
     [code |-> NONE, run |-> "DENIAL", item |-> "DENIED", itemCode |-> "DENIAL"],
     [code |-> "OTHER", run |-> NONE, item |-> "EXPIRED", itemCode |-> NONE],
     [code |-> "OTHER", run |-> NONE, item |-> "DENIED", itemCode |-> "OTHER"],
     [code |-> NONE, run |-> NONE, item |-> "DENIED", itemCode |-> NONE]}
=============================================================================
