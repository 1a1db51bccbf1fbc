SPECIFICATION Spec
CONSTANTS
    r1 = r1  r2 = r2  r3 = r3
    d1 = d1  d2 = d2
    s1 = s1  s2 = s2
    Runs = {r1, r2, r3}
    Forced = {r3}
    Drafts = {d1, d2}
    Reviewed = {d1}
    Targeted = {d1, d2}
    Sends = {s1, s2}
    Concurrency = 1
    WatchMax = 1
    MaxEdits = 1
    MaxFaults = 1
SYMMETRY Alike
CHECK_DEADLOCK FALSE
INVARIANTS
    WipedStaysWiped
    LeaseIsTheRuns
    DeliveredAsRecorded
PROPERTIES
    NoStoreAfterTakeover
