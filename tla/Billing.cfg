\* Two prompt tokens of each kind cross both tiers; three generated tokens.
SPECIFICATION Spec
CONSTANTS
    MaxPrompt = 2
    MaxMade = 3
    RunesPerToken = 2
    Prices <- MCPrices
INVARIANTS
    TypeOK
    BilledAsReported
    NothingBilledTwice
    EstimateFillsIn
\* The trace is written.
CHECK_DEADLOCK FALSE
