SPECIFICATION FairPlotSpec
CONSTANTS
    Drivers = {lane}
    Starts = {"absent", "blocked", "unproven", "behind", "assimilated"}
    MaxCommits = 2
    MaxChanges = 1
    MaxFaults = 1
CHECK_DEADLOCK FALSE
INVARIANTS
    NoCognitionLost
    BehindIsWithheld
PROPERTIES
    AssimilatesWhatWasShown
    PendingServed
