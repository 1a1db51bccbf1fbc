SPECIFICATION Spec
CONSTANTS
    m1 = m1  m2 = m2  m3 = m3  c1 = c1  c2 = c2
    alice = alice  bob = bob
    NoUser = nouser
    Msgs = {m1, m2, m3}
    Clicks = {}
    Author <- AuthorsTwice
    Text <- TextsTwice
    StopTexts = {"stop"}
    Asking = {}
    MaxCrashes = 0
    SlackDrops = FALSE
CHECK_DEADLOCK FALSE
INVARIANTS
    TypeOK
    AnswerHoldsClaim
    LiveRunIsCurrent
