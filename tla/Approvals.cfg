SPECIFICATION Spec
CONSTANTS
    m1 = m1  m2 = m2  m3 = m3  c1 = c1  c2 = c2
    alice = alice  bob = bob
    NoUser = nouser
    Msgs = {m1, m2}
    Clicks = {c1, c2}
    Author <- AuthorsStop
    Text <- TextsStop
    StopTexts = {"stop"}
    Asking = {m1, c1}
    MaxCrashes = 0
    SlackDrops = TRUE
CHECK_DEADLOCK FALSE
INVARIANTS
    ApprovalRunsOnce
    RefusedNeverRan
PROPERTIES
    DoomedApprovalNeverRuns
