CONSTANTS
    Runs = {r1, r2}
    Ttl = 3
    Interval = 2
    MaxOutages = 2
SPECIFICATION Spec
INVARIANTS
    TypeOK
    PunctualRunnerKeepsRuns
PROPERTY DeadRunnerRunsEnd
