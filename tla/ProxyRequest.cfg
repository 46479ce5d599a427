\* Three chunks: the parser can lag one behind, the store fail between two of them.
SPECIFICATION FairSpec
CONSTANT
    MaxChunks = 3
INVARIANTS
    TypeOK
    EventIffForwarded
    
    KeyMeansWholeBody
PROPERTY
    RequestEnds
\* A request ends.
CHECK_DEADLOCK FALSE
