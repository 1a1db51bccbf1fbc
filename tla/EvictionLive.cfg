SPECIFICATION FairSpec
CONSTANTS
    m1 = m1  m2 = m2  m3 = m3  c1 = c1  c2 = c2
    alice = alice  bob = bob
    NoUser = nouser
    Msgs = {m1, m2}
    Clicks = {}
    Author <- AuthorsRevise
    Text <- TextsRevise
    StopTexts = {"stop"}
    Asking = {m1}
    MaxCrashes = 1
    SlackDrops = FALSE
CHECK_DEADLOCK FALSE
INVARIANTS
    AnswersInOrder
    ClaimSealsInbox
PROPERTIES
    EveryMessageEnds
    NoTurnLeftOpen
