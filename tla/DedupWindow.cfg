SPECIFICATION Spec
CONSTANTS
    Hashes = {h1, h2, h3}
    Ttls = {0, 2}
    Capacity = 2
    MaxTime = 4
    MaxChecks = 5
INVARIANTS RingSetAgree SuppressedExactly
CHECK_DEADLOCK FALSE
