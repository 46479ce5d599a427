\* Two projects, the second of which somebody creates; two calls of this document at a
\* time, so that one refetch can cancel another.
SPECIFICATION Spec
CONSTANTS
    Project = {p1, p2}
    First = p1
    None = None
    MaxChange = 3
    MaxCall = 2
INVARIANTS
    TypeOK
    FreshOnceSettled
