SPECIFICATION Spec
CONSTANTS
    MaxCount = 3
    MaxRuns = 5
    Inputs <- SomeInputs
CHECK_DEADLOCK FALSE
INVARIANT ArchivesAreWhole
PROPERTIES PackingKeepsInput RoundTrip
