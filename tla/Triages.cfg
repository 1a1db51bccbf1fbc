SPECIFICATION Spec
CONSTANTS
    h1 = h1  h2 = h2  h3 = h3
    Handlers = {h1, h2, h3}
    Messages = {1, 2, 3, 4}
    Noise = {4}
    Revised = {2}
    Ring = 1
    Ceiling = 2
    Allowance <- One
    MaxConcurrent = 1
    MaxHourly = 2
    MaxHours = 2
    MaxCrashes = 1
SYMMETRY Alike
CHECK_DEADLOCK FALSE
INVARIANTS
    ActsOnce
    DeletedHasNoText
    GivesBack
    WithinBudget
PROPERTIES
    VerdictOfHolder
