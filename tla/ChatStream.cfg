\* Two choices, so that choices interleave; three blocks of three fragments, so that calls
\* and texts do.  A stream ends, so the system may stop.
SPECIFICATION Spec
CHECK_DEADLOCK FALSE
CONSTANTS
    Choice = {0, 1}
    MaxBlock = 3
    MaxFragment = 3
INVARIANTS
    TypeOK
    ShownOnce
    StreamedLikeWhole
