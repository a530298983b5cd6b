SPECIFICATION Spec
CONSTANTS
    r1 = r1
    r2 = r2
    j1 = j1
    j2 = j2
    t1 = t1
    t2 = t2
    Runtimes = {r1, r2}
    Jobs = {j1, j2}
    Tags = {t1, t2}
    None = None
    MaxTries = 2
    MaxFaults = 1
    RuntimeOf <- Apart
    KindOf <- OneEach
    Parented = {j2}
    TagRuntime = r2
    EntryOf <- OneEntry
CONSTRAINT TagsOrTwoJobs
CHECK_DEADLOCK FALSE
INVARIANTS
    HandleRecoverable
    HealthIsCurrent
    OneTagPerEntry

