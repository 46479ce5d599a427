\* Two apis and a collector, over three lives of the copy; one fault anywhere.
SPECIFICATION Spec
CONSTANTS
    Api = {a1, a2}
    Collector = {c1}
    Interval = 2
    TTL = 4
    LoadTime = 1
    MaxTime = 14
    MaxFaults = 1
SYMMETRY Symmetry
INVARIANTS
    TypeOK
    PricesCurrent
    CollectorsCatchUp
PROPERTY
    NeverRollsBack
\* The clock stops.
CHECK_DEADLOCK FALSE
