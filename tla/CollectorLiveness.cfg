\* One collector process, three events, one fault and one graceful restart.
SPECIFICATION FairSpec
CONSTANTS
    Collector = {c1}
    Event = {e1, e2, bad}
    Malformed = {bad}
    Unstorable = {}
    BatchSize = 2
    MaxFaults = 1
    MaxStops = 1
PROPERTIES
    StoredUnlessWedged
CHECK_DEADLOCK FALSE
