\* One maintainer and one request; one step of Ensure fails.
SPECIFICATION FairSpec
CONSTANTS
    Project = {p1}
    Request = {r1}
    Maintainer = {m1}
    PreCreate = 1
    Retention = 1
    MaxMonth = 2
    MaxFaults = 1
PROPERTIES
    BodiesExpire
CHECK_DEADLOCK FALSE
