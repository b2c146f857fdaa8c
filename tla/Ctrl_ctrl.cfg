SPECIFICATION FairSpec
CONSTANTS
    Byte <- SomeBytes
    MaxLength = 4
    MaxInt = 2
INVARIANTS VersionsAgree ReadIsFiltered
PROPERTY EveryVersionReturns
