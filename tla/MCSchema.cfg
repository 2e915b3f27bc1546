SPECIFICATION FairSpec
CONSTANTS
    m1 = m1
    m2 = m2
    a1 = a1
    a2 = a2
    Admins = {m1, m2}
    Apps = {a1}
    Releases = {0, 3}
    MaxUpsets = 1
INVARIANTS
    TypeOk
    VersionIsTrue
    HeadIsComplete
    LoneRunSucceeds
PROPERTIES
    HeadIsReached
