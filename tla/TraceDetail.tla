------------------------------ MODULE TraceDetail ------------------------------
(***************************************************************************)
(* The page of one trace: a list of its spans, and beside it the summary   *)
(* of the trace or the detail of one span.  What is shown comes out of a   *)
(* chain of answers: the list, the span, the body (with retries), the      *)
(* tokenizer, the token estimate that marks which part of a request was    *)
(* served from the upstream's cache.  The user may select something else   *)
(* at any point of it.                                                     *)
(*                                                                         *)
(* Queries are cached by key: an answer lands under the span it was asked  *)
(* for.  An estimate is a plain promise: what keeps it from landing under  *)
(* another request is the effect's cleanup.  A BodyViewer is that of a     *)
(* request.                                                                *)
(*                                                                         *)
(* The names TraceInit, TraceNext, ... are the module's own, so that its   *)
(* theorems can be stated beside those of ConsolePages (ConsoleProofs).    *)
(***************************************************************************)
EXTENDS Integers, Sequences, FiniteSets

CONSTANTS
    Span,      \* the trace's spans
    Items,     \* the order the server lists them in
    Family,    \* of each span's model: a tokenizer, or "none"
    Cached,    \* of each span: its cached input tokens
    Parts,     \* tools and messages of a request
    Size,      \* what a part may be estimated at
    Nothing    \* no span, no viewer, no segments

ASSUME SpansListed == Items \in Seq(Span) /\ Len(Items) > 0
ASSUME Sizes == Parts \in Nat /\ Size \subseteq Nat /\ Cached \in [Span -> Nat]
ASSUME NothingIsNoSpan == Nothing \notin Span

Tokenizer == {Family[s] : s \in Span} \ {"none"}

VARIABLES
    recorded,  \* how many spans the server has
    listed,    \* how many the page has; 0 until the list is there
    sel,       \* ?span=, or Nothing
    span,      \* the query of each span
    body,      \* the query of each request body
    tries,     \* how often the body's fetch has failed for want of a network
    viewer,    \* the panel and span ChatViewer's effect last ran for
    segments,  \* [of, tokens], or Nothing
    estimates, \* under way: [of, live]
    loader     \* of each tokenizer: its cached promise

selection == <<recorded, listed, sel>>
queries   == <<span, body, tries>>
marks     == <<viewer, segments, estimates>>
traceVars == <<selection, queries, marks, loader>>

\* Selection model: ?span= is that span; without it a lone span, or else the trace.
Active == IF sel # Nothing THEN sel ELSE IF listed = 1 THEN Items[1] ELSE Nothing
Panel == IF Active # Nothing THEN "detail" ELSE "summary"

\* SpanDetailPanel: a skeleton, "no data", or the span's detail with its two BodyViewers.
Detail == IF span[Active] = "ok" THEN Active ELSE Nothing

\* TraceSummaryPanel: the BodyViewers of the latest span stand for the trace.
Latest == IF listed = 0 THEN Nothing ELSE Items[listed]

\* The span whose BodyViewers are mounted.
Bodies == IF Panel = "detail" THEN Detail ELSE Latest

\* The ChatViewer that is mounted.
Showing == IF Bodies # Nothing /\ body[Bodies] = "ok" THEN <<Panel, Bodies>> ELSE Nothing

Estimate == [1..Parts -> Size]

TraceTypeOK ==
    /\ recorded \in 1..Len(Items)
    /\ listed \in 0..recorded
    /\ sel \in Span \cup {Nothing}
    /\ span \in [Span -> {"none", "fetching", "ok", "error"}]
    /\ body \in [Span -> {"none", "fetching", "ok", "error", "unavailable", "checking"}]
    /\ tries \in [Span -> 0..2]
    /\ viewer \in ({"detail", "summary"} \X Span) \cup {Nothing}
    /\ segments \in [of : Span, tokens : Estimate] \cup {Nothing}
    /\ estimates \subseteq [of : Span, live : BOOLEAN]
    /\ loader \in [Tokenizer -> {"none", "loading", "ok", "failed"}]

TraceInit ==
    /\ recorded \in 1..Len(Items)
    /\ listed = 0
    /\ sel \in Span \cup {Nothing}
    /\ span = [s \in Span |-> "none"]
    /\ body = [s \in Span |-> "none"]
    /\ tries = [s \in Span |-> 0]
    /\ viewer = Nothing /\ segments = Nothing /\ estimates = {}
    /\ loader = [f \in Tokenizer |-> "none"]

----------------------------------------------------------------------------
(* What React does with the state a step leaves *)

Cancelled == {[e EXCEPT !.live = FALSE] : e \in estimates}

\* A ChatViewer that the new state no longer renders, or renders in the other panel, is
\* unmounted: its estimate is cancelled and its segments are gone.
Commits ==
    /\ IF viewer # Nothing /\ (Showing' = Nothing \/ Showing'[1] # viewer[1])
       THEN viewer' = Nothing /\ segments' = Nothing /\ estimates' = Cancelled
       ELSE UNCHANGED marks
    /\ UNCHANGED loader

\* A query that failed is asked again when something mounts on it, one that is stale too.
AskedAgain(q, s, stale) ==
    [q EXCEPT ![s] = IF @ = "error" THEN "none"
                     ELSE IF @ = "unavailable" /\ stale THEN "checking" ELSE @]

----------------------------------------------------------------------------
(* The page *)

\* The trace goes on while it is looked at.
Record ==
    /\ recorded < Len(Items)
    /\ recorded' = recorded + 1
    /\ UNCHANGED <<listed, sel, queries, marks, loader>>

\* The list comes, on arrival or anew when the browser is back online.
ListAnswer(stale) ==
    /\ listed < recorded
    /\ listed' = recorded
    /\ body' = IF sel = Nothing THEN AskedAgain(body, Items[recorded], stale) ELSE body
    /\ UNCHANGED <<recorded, sel, span, tries>>
    /\ Commits

SelectSpan(s, stale) ==
    /\ sel # s
    /\ \E i \in 1..listed : Items[i] = s
    /\ sel' = s
    /\ span' = AskedAgain(span, s, FALSE)
    /\ body' = AskedAgain(body, s, stale)
    /\ UNCHANGED <<recorded, listed, tries>>
    /\ Commits

SelectRoot(stale) ==
    /\ sel # Nothing
    /\ listed > 1
    /\ sel' = Nothing
    /\ body' = AskedAgain(body, Items[listed], stale)
    /\ UNCHANGED <<recorded, listed, span, tries>>
    /\ Commits

----------------------------------------------------------------------------
(* The queries *)

FetchSpan ==
    /\ Panel = "detail"
    /\ span[Active] = "none"
    /\ span' = [span EXCEPT ![Active] = "fetching"]
    /\ UNCHANGED <<selection, body, tries, marks, loader>>

SpanAnswer(s) ==
    /\ span[s] = "fetching"
    /\ \E a \in {"ok", "error"} : span' = [span EXCEPT ![s] = a]
    /\ UNCHANGED <<selection, body, tries>>
    /\ Commits

FetchBody ==
    /\ Bodies # Nothing
    /\ body[Bodies] = "none"
    /\ body' = [body EXCEPT ![Bodies] = "fetching"]
    /\ UNCHANGED <<selection, span, tries, marks, loader>>

\* 200, 404 (a result like any other), or another status, which is final.
BodyAnswer(s) ==
    /\ body[s] \in {"fetching", "checking"}
    /\ \E a \in {"ok", "unavailable", "error"} : body' = [body EXCEPT ![s] = a]
    /\ tries' = [tries EXCEPT ![s] = 0]
    /\ UNCHANGED <<selection, span>>
    /\ Commits

\* Mutant: the attempts are counted from one.
BodyUnreachableOnceMore(s) ==
    /\ body[s] \in {"fetching", "checking"}
    /\ IF tries[s] <= 2 /\ Bodies = s
       THEN tries' = [tries EXCEPT ![s] = @ + 1] /\ UNCHANGED body
       ELSE tries' = [tries EXCEPT ![s] = 0] /\ body' = [body EXCEPT ![s] = "error"]
    /\ UNCHANGED <<selection, span>>
    /\ Commits

\* No answer: retry(count) says yes to the first two failures, if anybody still looks.
BodyUnreachable(s) ==
    /\ body[s] \in {"fetching", "checking"}
    /\ IF tries[s] < 2 /\ Bodies = s
       THEN tries' = [tries EXCEPT ![s] = @ + 1] /\ UNCHANGED body
       ELSE tries' = [tries EXCEPT ![s] = 0] /\ body' = [body EXCEPT ![s] = "error"]
    /\ UNCHANGED <<selection, span>>
    /\ Commits

----------------------------------------------------------------------------
(* ChatViewer's effect and the estimator *)

\* The effect, on mount and whenever another body has taken the place: the last run is
\* cleaned up, the segments go, and an estimate is asked for if anything was cached.
Effect ==
    /\ Showing # Nothing
    /\ viewer # Showing
    /\ viewer' = Showing
    /\ segments' = Nothing
    /\ LET s == Showing[2]
       IN IF Cached[s] = 0
          THEN estimates' = Cancelled /\ UNCHANGED loader
          ELSE /\ estimates' = Cancelled \cup {[of |-> s, live |-> TRUE]}
               /\ loader' = [f \in Tokenizer |->
                     IF f = Family[s] /\ loader[f] = "none" THEN "loading" ELSE loader[f]]
    /\ UNCHANGED <<selection, queries>>

\* The promise is kept, so a tokenizer that could not be loaded stays that way.
Load(f) ==
    /\ loader[f] = "loading"
    /\ \E r \in {"ok", "failed"} : loader' = [loader EXCEPT ![f] = r]
    /\ UNCHANGED <<selection, queries, marks>>

\* Mutant: the cancelled flag is not looked at.
EstimatedAnyway(e) ==
    /\ Family[e.of] # "none" => loader[Family[e.of]] \in {"ok", "failed"}
    /\ estimates' = estimates \ {e}
    /\ \E toks \in Estimate : segments' = [of |-> e.of, tokens |-> toks]
    /\ UNCHANGED <<selection, queries, viewer, loader>>

\* Mutant: the estimator gives up if the tokenizer is not there.
EstimatedExactly(e) ==
    /\ Family[e.of] # "none" => loader[Family[e.of]] = "ok"
    /\ estimates' = estimates \ {e}
    /\ IF e.live
       THEN \E toks \in Estimate : segments' = [of |-> e.of, tokens |-> toks]
       ELSE UNCHANGED segments
    /\ UNCHANGED <<selection, queries, viewer, loader>>

\* With the model's tokenizer, or by the heuristic if there is none or it failed.
Estimated(e) ==
    /\ Family[e.of] # "none" => loader[Family[e.of]] \in {"ok", "failed"}
    /\ estimates' = estimates \ {e}
    /\ IF e.live
       THEN \E toks \in Estimate : segments' = [of |-> e.of, tokens |-> toks]
       ELSE UNCHANGED segments
    /\ UNCHANGED <<selection, queries, viewer, loader>>

TraceNext ==
    \/ Record
    \/ \E stale \in BOOLEAN :
          ListAnswer(stale) \/ SelectRoot(stale) \/ \E s \in Span : SelectSpan(s, stale)
    \/ FetchSpan \/ FetchBody
    \/ \E s \in Span : SpanAnswer(s) \/ BodyAnswer(s) \/ BodyUnreachable(s)
    \/ Effect
    \/ \E f \in Tokenizer : Load(f)
    \/ \E e \in estimates : Estimated(e)

\* Timers, the network and React's scheduler run on; the user does as he likes.
Fairness ==
    /\ WF_traceVars(FetchSpan) /\ WF_traceVars(FetchBody) /\ WF_traceVars(Effect)
    /\ \A s \in Span :
          /\ WF_traceVars(SpanAnswer(s))
          /\ WF_traceVars(BodyAnswer(s) \/ BodyUnreachable(s))
          /\ WF_traceVars(\E e \in estimates : e.of = s /\ Estimated(e))
    /\ \A f \in Tokenizer : WF_traceVars(Load(f))

TraceSpec == TraceInit /\ [][TraceNext]_traceVars /\ Fairness

----------------------------------------------------------------------------
(* annotateCachedPrefix *)

Mark(state, cached, estimated) == [state |-> state, cached |-> cached, estimated |-> estimated]

\* Tokens of the parts up to the i-th.
Consumed(tokens) ==
    LET c[i \in 0..Parts] == IF i = 0 THEN 0 ELSE c[i - 1] + tokens[i] IN c

Least(a, b) == IF a < b THEN a ELSE b

\* Mutant: the part that reaches past the cached tokens counts whole.
AnnotatedWhole(tokens, cached) ==
    LET consumed == Consumed(tokens)
    IN [i \in 1..Parts |-> IF consumed[i - 1] >= cached THEN Mark("none", 0, tokens[i])
                           ELSE Mark("cached", tokens[i], tokens[i])]

Annotated(tokens, cached) ==
    LET consumed == Consumed(tokens)
        Part(i) ==
            LET n == IF consumed[i - 1] >= cached THEN 0
                     ELSE Least(consumed[i], cached) - consumed[i - 1]
            IN Mark(IF n <= 0 THEN "none" ELSE IF n >= tokens[i] THEN "cached" ELSE "partial",
                    n, tokens[i])
    IN [i \in 1..Parts |-> Part(i)]

----------------------------------------------------------------------------
(* Properties *)

\* ChatViewer.tsx:108-124: whatever was selected, loaded or answered in between, once its
\* effect has run the marks of a request are estimates of that request.
MarksOfShown ==
    Showing # Nothing /\ viewer = Showing /\ segments # Nothing => segments.of = Showing[2]

\* What keeps it true: segments, and the estimates that may still write them, are those of
\* the request the effect last ran for, and go with its viewer.
MarksFollow ==
    /\ segments # Nothing => viewer # Nothing /\ segments.of = viewer[2]
    /\ \A e \in estimates : e.live => viewer # Nothing /\ e.of = viewer[2]

\* ChatViewer.tsx:648: the marks are a prefix.  They add up to what was cached, as far as
\* the estimates go; a part that is marked follows only parts that are marked whole, or
\* that are empty.
MarksArePrefix ==
    segments # Nothing =>
        LET m == Annotated(segments.tokens, Cached[segments.of])
            total == Consumed(segments.tokens)[Parts]
            marked == Consumed([i \in 1..Parts |-> m[i].cached])[Parts]
        IN /\ marked = Least(total, Cached[segments.of])
           /\ \A i, j \in 1..Parts : i < j /\ m[j].state # "none" =>
                  m[i].state = "cached" \/ m[i].estimated = 0

\* A span that stays selected is annotated in the end, whatever failed at first, unless
\* it or its body cannot be had.
AnnotationComes ==
    \A s \in Span :
        sel = s /\ Cached[s] > 0 ~>
            \/ sel # s
            \/ span[s] = "error" \/ body[s] \in {"error", "unavailable"}
            \/ segments # Nothing /\ segments.of = s
=============================================================================
