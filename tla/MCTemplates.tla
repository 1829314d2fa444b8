---------------------------- MODULE MCTemplates ----------------------------
(* Pairs of bindings of every kind over eight targets, and triples over    *)
(* places that lie inside one another.                                     *)
EXTENDS Templates, TLC

(* "/request/to", "/steps", "/steps/0", "/steps/0/to", "/steps/00",        *)
(* "/steps/1/to", "/steps/~" and "/verb".                                  *)
MCPathTokens == {"request", "to", "steps", "0", "1", "connector_id", "verb"}
MCTargets == 1 .. 8
MCPlainTargets == MCTargets \ {5}
MCPathOf == <<<<"request", "to">>, <<"steps">>, <<"steps", "0">>, <<"steps", "0", "to">>,
              <<"steps", "0">>, <<"steps", "1", "to">>, <<>>, <<"verb">>>>
MCIndexOf == ("0" :> 0) @@ ("1" :> 1)

VerbBase == (<<>> :> "obj") @@ (<<"connector_id">> :> "w1") @@ (<<"verb">> :> "w1")
         @@ (<<"request">> :> "obj")
PlanBase == (<<>> :> "obj") @@ (<<"steps">> :> "arr")

MCBindings == {b \in Bindings : b.required \/ b.default = NOVALUE}
Plain == {b \in MCBindings : b.target \in 2 .. 6 /\ b.required /\ b.default = NOVALUE}

(* The other orders are those of Reverse.                                  *)
Up(bs) == \A i \in 2 .. Len(bs) : bs[i - 1].target <= bs[i].target

MCAuthored ==
    {t \in [kind : {"VERB_REQUEST", "PLAN"}, base : {VerbBase, PlanBase},
            bindings : (MCBindings \X MCBindings) \cup (Plain \X Plain \X Plain)] :
       (t.kind = "PLAN" <=> t.base = PlanBase) /\ Up(t.bindings)}

MCInputs == UNION {[keys -> {"w1", "null", "obj"}] : keys \in SUBSET Keys}
=============================================================================
