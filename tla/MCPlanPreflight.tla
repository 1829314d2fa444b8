-------------------------- MODULE MCPlanPreflight --------------------------
EXTENDS PlanPreflight, TLC

CONSTANTS c1, c2

\* Names 1 and 3 are one name in two cases.
MCFold(n) == IF n = 3 THEN 1 ELSE n

\* One number per list of requirements, above the ids "aa" (1) and "zz" below.
Code(r) == (((r.slot * 4 + r.mode) * 4 + r.target) * 4 + r.intent) * 4
           + (IF 1 \in r.types THEN 1 ELSE 0) + (IF 2 \in r.types THEN 2 ELSE 0)
MCAutoId(reqs) == FoldLeft(LAMBDA acc, r : acc * 1024 + Code(r), 0, reqs)

Read == [slot |-> 1, intent |-> 1, types |-> {1}, mode |-> 1, target |-> 1]
Anon == [slot |-> 1, intent |-> 0, types |-> {2}, mode |-> 1, target |-> 1]
Shout == [slot |-> 1, intent |-> 1, types |-> {1}, mode |-> 3, target |-> 2]
Partial == [slot |-> 1, intent |-> 0, types |-> {}, mode |-> 0, target |-> 1]

OneStep(attached) == [http |-> TRUE, bindings |-> << >>, named |-> NoId,
                   attached |-> attached, malformed |-> FALSE]

Other   == [OneStep(<< >>) EXCEPT !.http = FALSE]
Late    == [OneStep(<< Read >>) EXCEPT !.bindings = << "bound", "late" >>]
Broken  == [OneStep(<< Read >>) EXCEPT !.bindings = << "late", "broken" >>]
Named   == [OneStep(<< Read >>) EXCEPT !.named = 1]

Aa == 1
Zz == 1024 * 1024 * 1024
Open  == (1 :> [intents |-> {}, types |-> {}, modes |-> {}, targets |-> {}])
Exact == (1 :> [intents |-> {1}, types |-> {1}, modes |-> {1}, targets |-> {1}])
Shut  == (1 :> [intents |-> {2}, types |-> {1}, modes |-> {1}, targets |-> {1}])

MCInitialVaults == {<< >>, (Aa :> Open) @@ (Zz :> Exact)}
Asks(tool, wanted, plan) == [tool |-> tool, plan |-> plan, wanted |-> wanted, orchestrate |-> TRUE]

\* One call of any sort beside one that creates a profile.
MCRequests ==
    (c2 :> { Asks("job", TRUE, << OneStep(<< Read >>) >>) }) @@
    (c1 :>
    { Asks("job", TRUE, << OneStep(<< Read, Anon >>) >>),
      [Asks("job", TRUE, << OneStep(<< Read >>) >>) EXCEPT !.orchestrate = FALSE],
      Asks("job", TRUE, << OneStep(<< Partial, Shout >>) >>),
      Asks("plan", TRUE, << Other, OneStep(<< Read >>), OneStep(<< Shout >>) >>),
      Asks("plan", TRUE, << OneStep(<< Read >>), Late >>),
      Asks("plan", FALSE, << OneStep(<< Read >>) >>),
      Asks("preview", TRUE, << Named, OneStep(<< >>), Broken, OneStep(<< Anon >>) >>),
      Asks("resolve", TRUE, << OneStep(<< Partial, Shout >>) >>),
      Asks("resolve", TRUE, << OneStep(<< Partial >>) >>) })
MCWrites == {[id |-> MCAutoId(<< Read >>), slots |-> Shut], [id |-> Aa, slots |-> Exact]}
=============================================================================
