\* Two tabs, two logins: a session that ends while requests sent in it are still on
\* their way, and the next one.
SPECIFICATION Spec
CONSTANTS
    Tab = {t1, t2}
    Awake = {t1}
    MaxToken = 2
    MaxFlight = 1
INVARIANTS
    TypeOK
    FlagAgrees
    ShowsItsPath
PROPERTIES
    EndsForCause
    PushedOut
