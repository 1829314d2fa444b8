--------------------------- MODULE MCRemoteCatalog ---------------------------
(* One site that republishes a version, and versions whose order as        *)
(* strings is another.                                                     *)
EXTENDS RemoteCatalog, TLC

Num(n) == [num |-> TRUE, val |-> n]
Word(n) == [num |-> FALSE, val |-> n]

MCVersions == {"1.2", "1.10", "1.2-rc", "1-2"}
MCTokensOf == ("1.2" :> <<Num(1), Num(2)>>) @@ ("1.10" :> <<Num(1), Num(10)>>)
           @@ ("1.2-rc" :> <<Num(1), Num(2), Word(1)>>) @@ ("1-2" :> <<Num(1), Num(2)>>)

Of(version, body) == [id |-> "cb", version |-> version, body |-> body]
MCBundles == {Of("1.2", 1), Of("1.2", 2), Of("1.10", 1), Of("1.2-rc", 1), Of("1-2", 1)}

Item(version, url, sha, body) ==
    [id |-> "cb", version |-> version, url |-> url,
     sha |-> IF sha THEN Of(version, body) ELSE NONE, means |-> Of(version, body)]

MCIndexes == {<<Item("1.10", "u2", FALSE, 1), Item("1.2", "u1", TRUE, 1)>>,
              <<Item("1.2", "u1", TRUE, 2), Item("1.2", "u2", FALSE, 1)>>,
              <<Item("1.2-rc", "u2", TRUE, 1), Item("1.2", "u1", FALSE, 1), Item("1-2", "u1", TRUE, 1)>>}

MCFiles == {<<"u1", Of("1.2", 1)>>, <<"u1", Of("1.2", 2)>>, <<"u2", Of("1.10", 1)>>, <<"u2", INVALID>>}

SourceAt(enabled) == [site |-> "site", enabled |-> enabled]
MCFirstSources == {[s \in Sources |-> IF s = "main" THEN SourceAt(TRUE) ELSE NONE]}
Edit(id, config) == [id |-> id, config |-> config]
MCEdits == {Edit("main", SourceAt(FALSE)), Edit("main", NONE), Edit("other", SourceAt(TRUE))}

Ask(tool, version, sha, policy) ==
    [tool |-> tool, source |-> "main", id |-> "cb", version |-> version,
     sha |-> sha, policy |-> policy]

MCAsks == {Ask("list", NONE, NONE, "FAIL"), Ask("install", NONE, NONE, "FAIL"),
           Ask("install", "1.2", NONE, "SKIP_IF_EXISTS"),
           Ask("install", "1.2", Of("1.2", 2), "OVERWRITE")}
=============================================================================
