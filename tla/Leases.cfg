SPECIFICATION FairSpec
CONSTANTS
    m1 = m1  m2 = m2  r1 = r1  r2 = r2
    alice = alice
    NoUser = nouser
    Nobody = nobody
    NoRequest = norequest
    Msgs = {m1}
    Clicks = {c1, c2}
    Requests = {r1}
    Owners = {o1, o2}
    Server <- Servers1
    Author <- Authors1
    Text <- Texts1
    StopTexts = {"stop"}
    MaxCalls = 1
    MaxFaults = 1
CHECK_DEADLOCK FALSE
INVARIANTS
    OneRunner
PROPERTIES
    ImplementsGrant
    CallsUnderLease
    NoGrantWithoutTurn
    RequestEnds
