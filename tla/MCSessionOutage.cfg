SPECIFICATION Spec
CONSTANTS
    w1 = w1
    w2 = w2
    b1 = b1
    b2 = b2
    job = job
    Job = job
    Workers = {w1}
    Browsers = {b1}
    MaxBackoff = 2
    MaxFails = 2
    Jars = {1, 2}
PROPERTIES
    OutageKeepsLogin
