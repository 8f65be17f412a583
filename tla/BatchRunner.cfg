\* Four batches of three tasks, two attempts at each, three runs, two faults.
CONSTANTS
    Batches <- MCBatches
    MaxAttempts = 2
    MaxRuns = 3
    MaxFaults = 2
    Faults = {"connect", "call", "stat", "source", "save", "kill", "interrupt"}
SPECIFICATION Spec
INVARIANTS
    TypeOK
    RecordedIsDone
PROPERTIES
    ResumeSkipsDone
    NothingAfterFailure
    RunEnds
CHECK_DEADLOCK FALSE
