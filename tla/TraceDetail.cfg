\* Three spans, so that one can be left for another while a third stands for the trace;
\* three parts of no or two tokens, so that the cached tokens end before, inside, between
\* and after them, and so that a part may be empty.
SPECIFICATION TraceSpec
CONSTANTS
    s1 = s1
    s2 = s2
    s3 = s3
    Span = {s1, s2, s3}
    Items <- MCItems
    Family <- MCFamily
    Cached <- MCCached
    Parts = 3
    Size = {0, 2}
    Nothing = Nothing
INVARIANTS
    TraceTypeOK
    MarksOfShown
    MarksArePrefix
PROPERTIES
    AnnotationComes
