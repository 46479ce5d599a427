\* Two collector processes (four goroutines), one storable and one malformed event,
\* each sent up to twice.
SPECIFICATION Spec
CONSTANTS
    Collector = {c1, c2}
    Event = {good, bad}
    Malformed = {bad}
    Unstorable = {}
    BatchSize = 2
    MaxFaults = 2
    MaxStops = 1
SYMMETRY CollectorSymmetry
INVARIANTS
    TypeOK
    NothingLost
    
PROPERTIES
    ImplementsLog
\* All events submitted, all faults spent and every collector idle: the system rests.
CHECK_DEADLOCK FALSE
