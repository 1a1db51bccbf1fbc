SPECIFICATION FairSpec
CONSTANTS
    t1 = t1  t2 = t2  t3 = t3
    i1 = i1  i2 = i2  i3 = i3  i4 = i4  i5 = i5  i6 = i6
    NoId = noid
    Turns = {t1, t2}
    Resumed = {t2}
    MaxRetries = 1
    RepairTries = 2
    Ids = {i1, i2, i3, i4, i5, i6}
    MaxBatches = 1
    MaxResets = 1
    MaxCrashes = 1
    MaxFailures = 1
CHECK_DEADLOCK FALSE
INVARIANTS
    RowAndJob
    NoStaleNote
    ProbeOnce
PROPERTIES
    NewestArmWins
    EveryJobEnds
