\* Two maintainers, one project, two requests over three months; with a retention of one
\* month what the first month has left is dropped in the third.
SPECIFICATION Spec
CONSTANTS
    Project = {p1}
    Request = {r1, r2}
    Maintainer = {m1, m2}
    PreCreate = 1
    Retention = 1
    MaxMonth = 2
    MaxFaults = 1
SYMMETRY Symmetry
INVARIANTS
    TypeOK
    KeptForRetention
    RowKeepsBody
    MonthHasPartition
    
CHECK_DEADLOCK FALSE
