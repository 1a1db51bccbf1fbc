SPECIFICATION Spec
CONSTANTS
    ann = ann  bob = bob
    c1 = c1  c2 = c2
    Nobody = Nobody
    Users = {ann, bob}
    Askers = {ann}
    Related = {bob}
    Admins = {bob}
    Calls = {c1, c2}
    Cap = 1
    MemberCap = 1
    MaxJobs = 3
    MaxRows = 2
    MaxCalls = 3
    MaxFaults = 2
SYMMETRY Alike
CHECK_DEADLOCK FALSE
INVARIANTS
    LimitsHold
    OneOfEachLine
    RowNamesItsJob
    DmReachesOwner
