-------------------------- MODULE MCCatalogStore --------------------------
(* Two goroutines of two processes, or three of which two share a process, *)
(* on one cookbook with one version or two.                                *)
EXTENDS CatalogStore

CONSTANTS p1, p2, t1, t2, t3, cb, c1, c2

MCThreads == {t1, t2}
MCProcs == {p1, p2}
MCTwoProcesses == [t \in MCThreads |-> IF t = t1 THEN p1 ELSE p2]

MCMoreThreads == {t1, t2, t3}
MCSharedProcess == [t \in MCMoreThreads |-> IF t = t3 THEN p2 ELSE p1]

Up(v, c, policy) ==
    [op |-> "upsert", id |-> cb, ver |-> v, content |-> c, policy |-> policy]
Of(op, id, v) ==
    [op |-> op, id |-> id, ver |-> v, content |-> NONE, policy |-> NONE]

MCRequests ==
    {Up(1, c1, "FAIL"), Up(1, c2, "OVERWRITE"), Up(2, c1, "SKIP_IF_EXISTS"),
     Of("delete", cb, NONE), Of("delete", cb, 1), Of("get", cb, NONE),
     Of("list", NONE, NONE), Of("open", NONE, NONE)}

MCFewRequests == {Up(1, c1, "FAIL"), Of("list", NONE, NONE), Of("open", NONE, NONE)}
=============================================================================
