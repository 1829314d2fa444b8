---------------------------- MODULE VaultRequest ----------------------------
(***************************************************************************)
(* A request of a user from its words to the mail: it is routed, and when  *)
(* the answer names vaultclaw_passport_email_workflow the caller hands it  *)
(* over to that tool.                                                      *)
(***************************************************************************)
EXTENDS Routing, PassportWorkflow

vaultVars == <<routeVars, passportVars>>

(* routeArgs of the answer name the recipient, if there is one.            *)
HandOver ==
    /\ caller = "over" /\ answer.source = "passport"
    /\ answer.status \in {"EXECUTABLE", "MISSING"}
    /\ Request(answer.inputs["to"] # "none")
    /\ UNCHANGED routeVars

VaultInit == RouteInit /\ PassportInit

VaultNext ==
    \/ RouteNext /\ UNCHANGED passportVars
    \/ HandOver
    \/ PassportNext /\ UNCHANGED routeVars

VaultSpec == VaultInit /\ [][VaultNext]_vaultVars
=============================================================================
