SPECIFICATION RemoteSpec
CONSTANTS
    Sources = {"main", "other"}
    Sites = {"site"}
    Urls = {"u1", "u2"}
    Cookbooks = {"cb"}
    Installers = {c1}
    Editors = {e1, e2}
    NONE = NONE
    INVALID = INVALID
    MaxPublished = 3
    MaxFaults = 1
    Versions <- MCVersions
    TokensOf <- MCTokensOf
    Bundles <- MCBundles
    Indexes <- MCIndexes
    Files <- MCFiles
    FirstSources <- MCFirstSources
    Edits <- MCEdits
    Asks <- MCAsks
CHECK_DEADLOCK FALSE
PROPERTIES
    VersionsAreOrdered
    InstallsWhatWasNamed
    EditsKeepOtherSources
