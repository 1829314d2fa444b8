SPECIFICATION BootSpec
CONSTANTS
    Starters = {s1, s2}
    Releases = {r1, r2}
    Lean = {r1}
    Bundles = {1, 2}
    Required = {1}
    Editable = {1}
    Inodes = {1, 2, 3, 4}
    EMPTY = EMPTY
    TORN = TORN
    USER = USER
    STRIPPED = STRIPPED
    DELETED = DELETED
    NONE = NONE
INVARIANTS
    UnreadableMarkerNeedsOverlap
    MarkerNamesCatalog
PROPERTIES
    FailureHasACause
    LostEditsHaveACause
