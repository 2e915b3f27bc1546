SPECIFICATION FairSpec
CONSTANTS
    c1 = c1
    c2 = c2
    h1 = h1
    h2 = h2
    Clickers = {c1, c2}
    Hooks = {h1, h2}
    MaxClicks = 2
    MaxEvents = 3
    MaxFaults = 1
INVARIANTS
    TypeOk
    AppliedAtMostOnce
    ProcessedIsApplied
    PayableIsRecorded
    OneCustomer
    MirrorsStripe
PROPERTIES
    EventsDrain
CONSTRAINT Budget
CHECK_DEADLOCK FALSE
