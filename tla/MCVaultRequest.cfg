SPECIFICATION VaultSpec
CONSTANTS
    NONE = NONE
    MaxFaults = 1
    Words <- MCWords
    Within <- MCWithin
    Length <- MCLength
    Keys <- MCKeys
    Registry <- MCRegistry
    Entries <- MCEntries
    Starts <- MCStarts
    SaidWith <- MCSaidWith
    Slots = {s1, s2}
    MaxPassports = 2
    MaxRuns = 2
    MaxMishaps = 2
CHECK_DEADLOCK FALSE
INVARIANTS
    WinnerStandsOut
    FoundEntryIsComplete
    GuessesYield
    RetryKeepsRoute
    RetryIsEnough
    PreviewsSendNothing
    SecondMailHasACause
    BodyMatchesAttachment
