SPECIFICATION Spec
CONSTANTS
    Key = {"a"}
    SavedSeq = 1
    MaxCommits = 2
    MaxTrouble = 1
PROPERTIES BackfillRuns CommitsAnnounced
