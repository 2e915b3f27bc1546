SPECIFICATION FairSpec
CONSTANTS
    c1 = c1
    c2 = c2
    h1 = h1
    h2 = h2
    Clickers = {c1}
    Hooks = {h1}
    MaxClicks = 1
    MaxEvents = 2
    MaxFaults = 2
PROPERTIES
    CheckoutRefreshesPlan
CHECK_DEADLOCK FALSE
