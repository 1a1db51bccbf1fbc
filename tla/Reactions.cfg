SPECIFICATION FairSpec
CONSTANTS
    r1 = r1  r2 = r2
    i1 = i1  i2 = i2  i3 = i3  i4 = i4  i5 = i5
    NoId = noid
    NoReaction = noreaction
    Reactions = {r1, r2}
    Acks = {r1, r2}
    AckLimit = 1
    MaxAttempts = 2
    Ids = {i1, i2, i3, i4, i5}
    MaxCrashes = 1
    MaxFailures = 1
    MaxResets = 1
CHECK_DEADLOCK FALSE
INVARIANTS
    OneWakeup
    CallsBounded
PROPERTIES
    RestartRearms
    EveryReactionSettles
