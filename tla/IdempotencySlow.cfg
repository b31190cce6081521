SPECIFICATION IdemSpec
CONSTANTS
    Requests = {r1, r2, r3, r4}
    Ttl = 2
    MaxRun = 3
SYMMETRY Symmetry
PROPERTY NoReexecution
