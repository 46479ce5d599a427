---------------------------- MODULE MCTraceDetail ----------------------------
EXTENDS TraceDetail

CONSTANTS s1, s2, s3

\* A span of each kind: one that had nothing cached; one whose model has a tokenizer that
\* must be loaded, cached up to the middle of a part; the latest, whose model has none,
\* cached up to the end of one.
MCItems == <<s1, s2, s3>>
MCFamily == [s \in Span |-> IF s = s3 THEN "none" ELSE "o200k"]
MCCached == [s \in Span |-> CASE s = s1 -> 0 [] s = s2 -> 3 [] s = s3 -> 2]
=============================================================================
