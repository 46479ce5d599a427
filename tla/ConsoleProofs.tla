---------------------------- MODULE ConsoleProofs ----------------------------
(***************************************************************************)
(* Theorems about the console's pages, which share nothing but the screen. *)
(*                                                                         *)
(* ConsolePages: the pages show what was changed through them, for any     *)
(* number of projects, changes and calls under way.  FreshOnceSettled      *)
(* speaks of the list that is on show; it is inductive only with what it   *)
(* depends on: an answer on its way has seen every change whose success    *)
(* was handled, unless it is marked overtaken, and nothing has been        *)
(* handled that the table does not hold.                                   *)
(*                                                                         *)
(* TraceDetail: the marks on a request are its own, and a prefix, for any  *)
(* spans, parts and estimates.                                             *)
(***************************************************************************)
EXTENDS ConsolePages, TraceDetail, WellFoundedInduction, TLAPS

----------------------------------------------------------------------------
(* The pages about projects *)

\* A call the server has applied names the project it is about, and the change it made.
Applied == \A c \in calls : c.st # "sent" => c.of \in Project /\ c.at <= Len(log)

Types == TypeOK /\ Applied

\* An answer that is on its way, and is not overtaken, will show what was handled.
OnItsWay == fetching = "read" /\ ~overtaken => readAt >= mine

IInv == Types /\ mine <= Len(log) /\ OnItsWay /\ FreshOnceSettled

----------------------------------------------------------------------------
(* What the helpers keep *)

LEMMA ResumedAreCalls == Resumed \subseteq calls
BY DEF Resumed

\* Leaving a page turns calls into calls, and changes nothing else about them.
LEMMA LeftAreCalls ==
    ASSUME NEW cs \in SUBSET Call
    PROVE  /\ Left(cs) \in SUBSET Call
           /\ \A d \in Left(cs) : \E c \in cs : d.st = c.st /\ d.of = c.of /\ d.at = c.at
BY DEF Left, Call, Op

LEMMA LaterIsOne ==
    ASSUME NEW m \in Nat, NEW n \in Nat, NEW k \in Nat, m <= k, n <= k
    PROVE  Later(m, n) \in Nat /\ Later(m, n) <= k
BY DEF Later

\* One more change: the table grows by it.
LEMMA TableGrows ==
    ASSUME TypeOK, NEW op \in Op, NEW p \in Project, log' = Append(log, Change(op, p))
    PROVE  /\ log' \in Seq([op : Op, of : Project])
           /\ Len(log) \in Nat /\ Len(log') = Len(log) + 1
BY DEF TypeOK, Change

\* An invalidation leaves no fetch whose answer would pass for newer than it is.
LEMMA InvalidateKeeps ==
    ASSUME TypeOK, Invalidate
    PROVE  /\ age' \in 0..2 /\ fetching' \in {"sent", "read"} /\ overtaken' \in BOOLEAN
           /\ fetching' = "read" => overtaken'
<1>1. age' \in 0..2
  BY DEF Invalidate
<1>2. CASE fetching # "no" /\ list = None
  <2>1. fetching' = fetching /\ overtaken' = (overtaken \/ fetching = "read")
    BY <1>2 DEF Invalidate
  <2>2. fetching \in {"sent", "read"} /\ overtaken \in BOOLEAN
    BY <1>2 DEF TypeOK
  <2>3. overtaken' \in BOOLEAN
    BY <2>1, Zenon
  <2>4. fetching' = "read" => overtaken'
    BY <2>1, Zenon
  <2> QED
    BY <1>1, <2>1, <2>2, <2>3, <2>4
<1>3. CASE ~(fetching # "no" /\ list = None)
  <2>1. fetching' = "sent" /\ overtaken' = FALSE
    BY <1>3 DEF Invalidate
  <2> QED
    BY <1>1, <2>1
<1> QED
  BY <1>2, <1>3

LEMMA MountKeeps ==
    ASSUME TypeOK, NEW at, Mount(at)
    PROVE  /\ fetching' \in {"no", "sent", "read"} /\ overtaken' \in BOOLEAN
           /\ \/ fetching' = "sent"
              \/ UNCHANGED <<fetching, overtaken>>
BY DEF Mount, TypeOK

----------------------------------------------------------------------------
(* The invariant *)

LEMMA InvInit == Init => IInv
<1> SUFFICES ASSUME Init PROVE IInv
  OBVIOUS
<1>1. log \in Seq([op : Op, of : Project]) /\ Len(log) = 1
  BY FirstIsOne DEF Init, Change, Op
<1>2. page \in Page
  BY DEF Init
<1>3. calls \in SUBSET Call
  BY DEF Init
<1>4. failed \in BOOLEAN /\ overtaken \in BOOLEAN
  BY DEF Init
<1>5. TypeOK
  BY <1>1, <1>2, <1>3, <1>4 DEF Init, TypeOK
<1> QED
  BY <1>1, <1>5 DEF Init, IInv, Types, Applied, OnItsWay, FreshOnceSettled

\* The list: only its variables move, and calls that waited go.
LEMMA ListStep ==
    ASSUME IInv, Read \/ Answer \/ Fail \/ Age \/ Reconnect
    PROVE  IInv'
<1> USE DEF IInv, Types, OnItsWay, FreshOnceSettled
<1>0. Len(log) \in Nat
  BY DEF TypeOK
<1>1. CASE Read
  BY <1>0, <1>1, NoneIsNoList DEF Read, TypeOK, Applied
<1>2. CASE Answer
  <2>1. /\ fetching' = "no" /\ list' = readAt /\ age' = 0 /\ failed' = FALSE
        /\ calls' = Resumed /\ fetching = "read"
        /\ UNCHANGED <<log, page, readAt, overtaken, mine>>
    BY <1>2 DEF Answer
  <2>2. calls' \subseteq calls
    BY <2>1, ResumedAreCalls
  <2>3. TypeOK'
    <3>1. failed' = FALSE
      BY <2>1
    <3>2. failed' \in BOOLEAN
      BY <3>1, Zenon
    <3> QED
      BY <2>1, <2>2, <3>2 DEF TypeOK
  <2>4. Applied'
    BY <2>1, <2>2 DEF Applied
  <2>5. ~overtaken' => list' >= mine'
    BY <2>1
  <2> QED
    BY <2>1, <2>3, <2>4, <2>5
<1>3. CASE Fail
  BY <1>0, <1>3, ResumedAreCalls DEF Fail, TypeOK, Applied
<1>4. CASE Age
  BY <1>0, <1>4 DEF Age, TypeOK, Applied
<1>5. CASE Reconnect
  BY <1>0, <1>5 DEF Reconnect, TypeOK, Applied
<1> QED
  BY <1>1, <1>2, <1>3, <1>4, <1>5

\* A link keeps what is cached; another document starts with nothing.
LEMMA MoveStep ==
    ASSUME IInv, NEW to \in Page, Follow(to) \/ Reload(to)
    PROVE  IInv'
<1> USE DEF IInv, Types, OnItsWay, FreshOnceSettled
<1>0. Len(log) \in Nat /\ calls \in SUBSET Call
  BY DEF TypeOK
<1>1. CASE Follow(to)
  <2>1. Mount(to.at)
    BY <1>1 DEF Follow
  <2>2. UNCHANGED <<log, list, age, readAt, failed, mine>> /\ page' = to /\ calls' = Left(calls)
    BY <1>1 DEF Follow
  <2>3. TypeOK'
    BY <1>0, <2>1, <2>2, MountKeeps, LeftAreCalls DEF TypeOK
  <2>4. Applied'
    BY <1>0, <2>2, LeftAreCalls DEF Applied
  <2> QED
    BY <2>1, <2>2, <2>3, <2>4, MountKeeps
<1>2. CASE Reload(to)
  <2>1. /\ page' = to /\ list' = None /\ age' = 2 /\ fetching' = "sent"
        /\ failed' = FALSE /\ overtaken' = FALSE /\ calls' = {} /\ mine' = 0
        /\ UNCHANGED <<log, readAt>>
    BY <1>2 DEF Reload
  <2>2. calls' \in SUBSET Call /\ failed' \in BOOLEAN /\ overtaken' \in BOOLEAN
    BY <2>1
  <2>3. TypeOK'
    BY <2>1, <2>2 DEF TypeOK
  <2>4. Applied'
    BY <2>1 DEF Applied
  <2> QED
    BY <1>0, <2>1, <2>3, <2>4
<1> QED
  BY <1>1, <1>2

\* What happens at the server: the table only grows, and a call that was applied has its
\* change in it.
LEMMA ServerStep ==
    ASSUME IInv, NEW op \in Op, NEW p \in Project,
           \/ Submit(op) \/ Elsewhere(op, p)
           \/ \E c \in calls : Refuse(c) \/ Apply(c, p)
    PROVE  IInv'
<1> USE DEF IInv, Types, OnItsWay, FreshOnceSettled
<1>0. Len(log) \in Nat /\ calls \in SUBSET Call
  BY DEF TypeOK
<1>1. CASE Submit(op)
  <2>1. [op |-> op, of |-> page.of, st |-> "sent", at |-> 0, live |-> TRUE] \in Call
    BY DEF Call, TypeOK, Page
  <2>2. /\ calls' = calls \cup {[op |-> op, of |-> page.of, st |-> "sent", at |-> 0, live |-> TRUE]}
        /\ UNCHANGED <<log, page, query, mine>>
    BY <1>1 DEF Submit
  <2>3. TypeOK'
    BY <1>0, <2>1, <2>2 DEF TypeOK, query
  <2>4. Applied'
    BY <2>2 DEF Applied
  <2> QED
    BY <2>2, <2>3, <2>4 DEF query
<1>2. CASE Elsewhere(op, p)
  <2>1. log' = Append(log, Change(op, p)) /\ UNCHANGED <<page, query, calls, mine>>
    BY <1>2 DEF Elsewhere
  <2>2. log' \in Seq([op : Op, of : Project]) /\ Len(log') = Len(log) + 1
    BY <2>1, TableGrows
  <2>3. Applied'
    BY <1>0, <2>1, <2>2 DEF Applied, Call
  <2> QED
    BY <1>0, <2>1, <2>2, <2>3 DEF TypeOK, query
<1>3. ASSUME NEW c \in calls, Refuse(c) PROVE IInv'
  BY <1>0, <1>3 DEF Refuse, TypeOK, query, Applied
<1>4. ASSUME NEW c \in calls, Apply(c, p) PROVE IInv'
  <2> DEFINE d == [c EXCEPT !.st = "applied", !.of = p, !.at = Len(log')]
  <2>1. /\ log' = Append(log, Change(c.op, p)) /\ calls' = (calls \ {c}) \cup {d}
        /\ UNCHANGED <<page, query, mine>>
    BY <1>4 DEF Apply
  <2>2. c \in Call /\ c.op \in Op
    BY <1>0, <1>4 DEF Call
  <2>3. log' \in Seq([op : Op, of : Project]) /\ Len(log') = Len(log) + 1
    BY <2>1, <2>2, TableGrows
  <2>4. d \in Call /\ d.of = p /\ d.at = Len(log')
    <3>1. Len(log') \in Nat
      BY <1>0, <2>3
    <3> QED
      BY <2>2, <3>1 DEF Call
  <2> HIDE DEF d
  <2>5. Applied'
    BY <1>0, <2>1, <2>3, <2>4 DEF Applied, Call
  <2>6. TypeOK'
    BY <1>0, <2>1, <2>3, <2>4 DEF TypeOK, query
  <2> QED
    BY <1>0, <2>1, <2>3, <2>5, <2>6 DEF TypeOK, query
<1> QED
  BY <1>1, <1>2, <1>3, <1>4

\* The success of a change is handled: the fetch that was under way is another one now, or
\* is marked.
LEMMA SuccessStep ==
    ASSUME IInv, NEW c \in calls, Renewed(c) \/ MovedOn(c)
    PROVE  IInv'
<1> USE DEF IInv, Types, OnItsWay, FreshOnceSettled
<1>1. /\ c.st = "applied" /\ Invalidate /\ mine' = Later(mine, c.at)
      /\ UNCHANGED <<log, list, readAt, failed>>
  BY DEF Renewed, MovedOn
<1>2. Len(log) \in Nat /\ calls \in SUBSET Call /\ c \in Call
  BY DEF TypeOK
<1>3. c.of \in Project /\ c.at \in Nat /\ c.at <= Len(log)
  BY <1>1, <1>2 DEF Applied, Call
<1>4. mine' \in Nat /\ mine' <= Len(log)
  BY <1>1, <1>2, <1>3, LaterIsOne DEF TypeOK
<1>5. /\ age' \in 0..2 /\ fetching' \in {"sent", "read"} /\ overtaken' \in BOOLEAN
      /\ fetching' = "read" => overtaken'
  BY <1>1, InvalidateKeeps
<1>6. page' \in Page /\ calls' \in SUBSET Call /\ Applied'
  <2>1. CASE Renewed(c)
    <3> DEFINE d == [c EXCEPT !.st = "waiting"]
    <3>1. UNCHANGED page /\ calls' = (Resumed \ {c}) \cup {d}
      BY <2>1 DEF Renewed
    <3>2. d \in Call /\ d.of = c.of /\ d.at = c.at
      BY <1>2 DEF Call
    <3> HIDE DEF d
    <3> QED
      BY <1>1, <1>2, <1>3, <3>1, <3>2, ResumedAreCalls DEF TypeOK, Applied
  <2>2. CASE MovedOn(c)
    <3> DEFINE rest == Resumed \ {c}
    <3>1. /\ page' = IF c.op = "create" THEN [at |-> "setup", of |-> c.of]
                     ELSE [at |-> "home", of |-> None]
          /\ calls' = rest \/ calls' = Left(rest)
      BY <2>2 DEF MovedOn
    <3>2. page' \in Page
      BY <1>3, <3>1 DEF Page
    <3>3. rest \in SUBSET Call /\ rest \subseteq calls
      BY <1>2, ResumedAreCalls
    <3> HIDE DEF rest
    <3>4. \A e \in calls' : \E b \in rest : e.st = b.st /\ e.of = b.of /\ e.at = b.at
      BY <3>1, <3>3, LeftAreCalls
    <3>5. calls' \in SUBSET Call
      BY <3>1, <3>3, LeftAreCalls
    <3>6. Applied'
      BY <1>1, <3>3, <3>4 DEF Applied
    <3> QED
      BY <3>2, <3>5, <3>6
  <2> QED
    BY <2>1, <2>2
<1>7. TypeOK'
  BY <1>1, <1>4, <1>5, <1>6 DEF TypeOK
<1> QED
  BY <1>1, <1>4, <1>5, <1>6, <1>7

LEMMA Stuttering ==
    ASSUME IInv, UNCHANGED vars
    PROVE  IInv'
BY DEF IInv, Types, TypeOK, Applied, OnItsWay, FreshOnceSettled, vars, query

LEMMA InvStep == IInv /\ [Next]_vars => IInv'
<1> SUFFICES ASSUME IInv, [Next]_vars PROVE IInv'
  OBVIOUS
<1>1. CASE Read \/ Answer \/ Fail \/ Age \/ Reconnect
  BY <1>1, ListStep
<1>2. CASE \E to \in Page : Follow(to) \/ Reload(to)
  BY <1>2, MoveStep
<1>3. CASE \E op \in Op : Submit(op) \/ \E p \in Project : Elsewhere(op, p)
  BY <1>3, ServerStep, FirstIsOne
<1>4. CASE \E c \in calls : Refuse(c) \/ Renewed(c) \/ MovedOn(c) \/ \E p \in Project : Apply(c, p)
  <2>1. "create" \in Op
    BY DEF Op
  <2> QED
    BY <1>4, <2>1, ServerStep, SuccessStep, FirstIsOne
<1>5. CASE UNCHANGED vars
  BY <1>5, Stuttering
<1> QED
  BY <1>1, <1>2, <1>3, <1>4, <1>5 DEF Next

LEMMA Invariant == Spec => []IInv
BY InvInit, InvStep, PTL DEF Spec

----------------------------------------------------------------------------
(* The results *)

\* Whatever is created, deleted and left in between, the route of the console names a
\* project wherever it needs one (the jump to Setup after a creation, ProjectsHome.tsx:53).
THEOREM TypeCorrect == Spec => []TypeOK
<1>1. IInv => TypeOK
  BY DEF IInv, Types
<1> QED
  BY <1>1, Invariant, PTL

\* Once no fetch is under way the pages show every change that was made through them and
\* whose success was handled, except after a failed fetch, or a first one that was
\* overtaken (ProjectsHome.tsx:53, Settings.tsx:27, Setup.tsx:38).
THEOREM ChangesAreShown == Spec => []FreshOnceSettled
<1>1. IInv => FreshOnceSettled
  BY DEF IInv
<1> QED
  BY <1>1, Invariant, PTL

----------------------------------------------------------------------------
(* The trace page: what is selected and what is mounted *)

\* What the page derives from its state is a span, or nothing.
LEMMA MountedTypes ==
    ASSUME TraceTypeOK
    PROVE  /\ Panel = "detail" => Active \in Span
           /\ Bodies \in Span \cup {Nothing}
           /\ Showing \in ({"detail", "summary"} \X Span) \cup {Nothing}
<1>1. Active \in Span \cup {Nothing} /\ Latest \in Span \cup {Nothing}
  BY SpansListed DEF TraceTypeOK, Active, Latest
<1>2. Panel \in {"detail", "summary"} /\ (Panel = "detail" => Active \in Span)
  BY <1>1 DEF Panel
<1>3. Bodies \in Span \cup {Nothing}
  BY <1>1, <1>2 DEF Bodies, Detail
<1> QED
  BY <1>2, <1>3 DEF Showing

\* A commit leaves the marks of the viewer that stays, or none.
LEMMA CommitsTypes ==
    ASSUME TraceTypeOK, Commits
    PROVE  /\ viewer' \in ({"detail", "summary"} \X Span) \cup {Nothing}
           /\ segments' \in [of : Span, tokens : Estimate] \cup {Nothing}
           /\ estimates' \subseteq [of : Span, live : BOOLEAN]
           /\ loader' \in [Tokenizer -> {"none", "loading", "ok", "failed"}]
<1>1. Cancelled \subseteq [of : Span, live : BOOLEAN]
  BY DEF Cancelled, TraceTypeOK
<1> QED
  BY <1>1 DEF Commits, TraceTypeOK, marks

LEMMA AskedAgainTypes ==
    ASSUME NEW S, {"none", "checking"} \subseteq S, NEW q \in [Span -> S], NEW s, NEW stale
    PROVE  AskedAgain(q, s, stale) \in [Span -> S]
BY DEF AskedAgain

LEMMA TraceInitTypes == TraceInit => TraceTypeOK
<1> SUFFICES ASSUME TraceInit PROVE TraceTypeOK
  OBVIOUS
<1>1. Len(Items) \in Nat
  BY SpansListed
<1> QED
  BY <1>1 DEF TraceInit, TraceTypeOK

\* The user moves, the list comes.
LEMMA MoveTypes ==
    ASSUME TraceTypeOK, NEW stale \in BOOLEAN,
           Record \/ ListAnswer(stale) \/ SelectRoot(stale) \/ \E s \in Span : SelectSpan(s, stale)
    PROVE  TraceTypeOK'
<1> USE SpansListed DEF TraceTypeOK, selection, queries, marks
<1>1. CASE Record
  BY <1>1 DEF Record
<1> DEFINE B == {"none", "fetching", "ok", "error", "unavailable", "checking"}
<1>2. ASSUME NEW s PROVE AskedAgain(body, s, stale) \in [Span -> B]
  BY AskedAgainTypes
<1>3. ASSUME NEW s PROVE AskedAgain(span, s, FALSE) \in [Span -> {"none", "fetching", "ok", "error"}]
  BY DEF AskedAgain
<1> HIDE DEF B
<1>4. CASE ListAnswer(stale)
  <2>1. body' \in [Span -> B] /\ Commits
    BY <1>2, <1>4 DEF ListAnswer, B
  <2> QED
    BY <1>4, <2>1, CommitsTypes DEF ListAnswer, B
<1>5. CASE SelectRoot(stale)
  <2>1. body' \in [Span -> B] /\ Commits
    BY <1>2, <1>5 DEF SelectRoot
  <2> QED
    BY <1>5, <2>1, CommitsTypes DEF SelectRoot, B
<1>6. ASSUME NEW s \in Span, SelectSpan(s, stale) PROVE TraceTypeOK'
  <2>1. /\ body' \in [Span -> B] /\ Commits
        /\ span' \in [Span -> {"none", "fetching", "ok", "error"}]
    BY <1>2, <1>3, <1>6 DEF SelectSpan
  <2> QED
    BY <1>6, <2>1, CommitsTypes DEF SelectSpan, B
<1> QED
  BY <1>1, <1>4, <1>5, <1>6

\* The queries of a span and of a body, with two retries.
LEMMA QueryTypes ==
    ASSUME TraceTypeOK, NEW s \in Span,
           FetchSpan \/ FetchBody \/ SpanAnswer(s) \/ BodyAnswer(s) \/ BodyUnreachable(s)
    PROVE  TraceTypeOK'
<1> USE DEF TraceTypeOK, selection, queries, marks
<1>1. CASE FetchSpan
  BY <1>1 DEF FetchSpan
<1>2. CASE FetchBody
  BY <1>2 DEF FetchBody
<1>3. CASE SpanAnswer(s)
  BY <1>3, CommitsTypes DEF SpanAnswer
<1>4. CASE BodyAnswer(s)
  BY <1>4, CommitsTypes DEF BodyAnswer
<1>5. CASE BodyUnreachable(s)
  <2>1. /\ tries' \in [Span -> 0..2]
        /\ body' \in [Span -> {"none", "fetching", "ok", "error", "unavailable", "checking"}]
    BY <1>5 DEF BodyUnreachable
  <2> QED
    BY <1>5, <2>1, CommitsTypes DEF BodyUnreachable
<1> QED
  BY <1>1, <1>2, <1>3, <1>4, <1>5

\* ChatViewer's effect and the estimator.
LEMMA EstimateTypes ==
    ASSUME TraceTypeOK,
           Effect \/ (\E f \in Tokenizer : Load(f)) \/ \E e \in estimates : Estimated(e)
    PROVE  TraceTypeOK'
<1> USE DEF TraceTypeOK, selection, queries, marks
<1>1. CASE Effect
  <2>1. Showing \in {"detail", "summary"} \X Span /\ Showing[2] \in Span
    BY <1>1, MountedTypes DEF Effect
  <2>2. Cancelled \subseteq [of : Span, live : BOOLEAN]
    BY DEF Cancelled
  <2>3. estimates' \subseteq Cancelled \cup {[of |-> Showing[2], live |-> TRUE]}
    BY <1>1 DEF Effect
  <2>4. estimates' \subseteq [of : Span, live : BOOLEAN]
    <3>1. ASSUME NEW s \in Span PROVE [of |-> s, live |-> TRUE] \in [of : Span, live : BOOLEAN]
      OBVIOUS
    <3> QED
      BY <2>1, <2>2, <2>3, <3>1
  <2>5. loader' \in [Tokenizer -> {"none", "loading", "ok", "failed"}]
    BY <1>1 DEF Effect
  <2>6. viewer' = Showing /\ segments' = Nothing /\ UNCHANGED <<selection, queries>>
    BY <1>1 DEF Effect
  <2> HIDE DEF TraceTypeOK
  <2>7. viewer' \in ({"detail", "summary"} \X Span) \cup {Nothing}
    BY <2>1, <2>6
  <2> QED
    BY <2>4, <2>5, <2>6, <2>7 DEF TraceTypeOK
<1>2. ASSUME NEW f \in Tokenizer, Load(f) PROVE TraceTypeOK'
  BY <1>2 DEF Load
<1>3. ASSUME NEW e \in estimates, Estimated(e) PROVE TraceTypeOK'
  BY <1>3 DEF Estimated
<1> QED
  BY <1>1, <1>2, <1>3

\* The trace's types: what is selected is a span of it, and no body is tried a fourth time.
THEOREM TraceTypes == TraceSpec => []TraceTypeOK
<1>1. TraceTypeOK /\ [TraceNext]_traceVars => TraceTypeOK'
  <2> SUFFICES ASSUME TraceTypeOK, [TraceNext]_traceVars PROVE TraceTypeOK'
    OBVIOUS
  <2>1. CASE UNCHANGED traceVars
    BY <2>1 DEF traceVars, selection, queries, marks, TraceTypeOK
  <2>2. CASE TraceNext
    <3>1. Items[1] \in Span
      BY SpansListed
    <3> QED
      BY <2>2, <3>1, MoveTypes, QueryTypes, EstimateTypes DEF TraceNext
  <2> QED
    BY <2>1, <2>2
<1> QED
  BY <1>1, TraceInitTypes, PTL DEF TraceSpec

----------------------------------------------------------------------------
(* The trace page: whose marks are shown *)

\* A viewer that goes takes its segments along, and its estimates will not be heard.
LEMMA CommitsFollow ==
    ASSUME TraceTypeOK, MarksFollow, Commits
    PROVE  MarksFollow'
<1>1. \A e \in Cancelled : ~e.live
  BY DEF Cancelled, TraceTypeOK
<1> QED
  BY <1>1 DEF Commits, MarksFollow, marks

LEMMA StepMarksFollow ==
    ASSUME TraceTypeOK, MarksFollow, [TraceNext]_traceVars
    PROVE  MarksFollow'
<1>1. CASE UNCHANGED marks
  BY <1>1 DEF marks, MarksFollow
<1>2. CASE Effect
  <2>1. Showing # Nothing /\ viewer' = Showing /\ segments' = Nothing
    BY <1>2 DEF Effect
  <2>2. \A e \in Cancelled : ~e.live
    BY DEF Cancelled, TraceTypeOK
  <2>3. estimates' \subseteq Cancelled \cup {[of |-> Showing[2], live |-> TRUE]}
    BY <1>2 DEF Effect
  <2> QED
    BY <2>1, <2>2, <2>3 DEF MarksFollow
<1>3. ASSUME NEW e \in estimates, Estimated(e) PROVE MarksFollow'
  BY <1>3 DEF Estimated, MarksFollow
<1>4. CASE Commits
  BY <1>4, CommitsFollow
<1> QED
  BY <1>1, <1>2, <1>3, <1>4 DEF TraceNext, Record, ListAnswer, SelectSpan, SelectRoot, FetchSpan,
     FetchBody, SpanAnswer, BodyAnswer, BodyUnreachable, Load, traceVars

\* Segments, and estimates under way that may write them, belong to the viewer.
THEOREM MarksFollowTheViewer == TraceSpec => []MarksFollow
<1>1. TraceInit => MarksFollow
  BY DEF TraceInit, MarksFollow
<1> QED
  BY <1>1, StepMarksFollow, TraceTypes, PTL DEF TraceSpec

\* Whatever was selected, loaded or answered in between, once ChatViewer's effect has run
\* the marks of a request are estimates of that request (ChatViewer.tsx:108-124).
THEOREM MarksAreOfShown == TraceSpec => []MarksOfShown
<1>1. MarksFollow => MarksOfShown
  BY DEF MarksFollow, MarksOfShown
<1> QED
  BY <1>1, MarksFollowTheViewer, PTL

----------------------------------------------------------------------------
(* The trace page: the marks are a prefix *)

\* What holds at 0 and goes on from each number to the next holds up to n.
LEMMA CountingUp ==
    ASSUME NEW n \in Nat, NEW S, 0 \in S, \A i \in 1..n : i - 1 \in S => i \in S
    PROVE  \A i \in 0..n : i \in S
<1> DEFINE missing == (0..n) \ S
<1>1. SUFFICES ASSUME missing # {} PROVE FALSE
  OBVIOUS
<1>2. missing \subseteq Nat
  OBVIOUS
<1> HIDE DEF missing
<1>3. PICK g \in missing : \A h \in missing : <<h, g>> \notin OpToRel(<, Nat)
  BY <1>1, <1>2, NatLessThanWellFounded, WFMin
<1>4. ASSUME NEW h \in missing PROVE ~(h < g)
  <2>1. <<h, g>> \in Nat \X Nat /\ <<h, g>>[1] = h /\ <<h, g>>[2] = g
    BY <1>2
  <2> QED
    BY <1>3, <2>1, Zenon DEF OpToRel
<1>5. g \in 1..n /\ g \notin S /\ g - 1 \in 0..n /\ g - 1 < g
  BY DEF missing
<1>6. g - 1 \in S
  BY <1>4, <1>5 DEF missing
<1> QED
  BY <1>5, <1>6

\* The sums of parts there are: as far as n there are some, so there are up to Parts.
LEMMA SumsExist ==
    ASSUME NEW tokens \in [1..Parts -> Nat]
    PROVE  \E c : c = [i \in 0..Parts |-> IF i = 0 THEN 0 ELSE c[i - 1] + tokens[i]]
<1> DEFINE Sums(n) == {c \in [0..n -> Nat] : c[0] = 0 /\ \A i \in 1..n : c[i] = c[i - 1] + tokens[i]}
           able == {n \in 0..Parts : Sums(n) # {}}
<1>0. Parts \in Nat
  BY Sizes
<1>1. 0 \in able
  <2>1. [i \in 0..0 |-> 0] \in Sums(0)
    OBVIOUS
  <2> QED
    BY <1>0, <2>1
<1>2. ASSUME NEW n \in 1..Parts, n - 1 \in able PROVE n \in able
  <2>1. PICK c \in Sums(n - 1) : TRUE
    BY <1>2
  <2> DEFINE d == [i \in 0..n |-> IF i = n THEN c[n - 1] + tokens[n] ELSE c[i]]
  <2>2. /\ n \in Nat /\ n > 0 /\ n - 1 \in Nat /\ tokens[n] \in Nat
        /\ c \in [0..(n - 1) -> Nat] /\ c[0] = 0
        /\ \A i \in 1..(n - 1) : c[i] = c[i - 1] + tokens[i]
    BY <1>0, <2>1
  <2>3. d \in [0..n -> Nat] /\ d[0] = 0 /\ \A i \in 1..n : d[i] = d[i - 1] + tokens[i]
    <3>1. ASSUME NEW i \in 0..n PROVE d[i] \in Nat
      BY <2>2
    <3>2. d[0] = 0
      BY <2>2
    <3>3. ASSUME NEW i \in 1..n PROVE d[i] = d[i - 1] + tokens[i]
      BY <2>2
    <3> QED
      BY <3>1, <3>2, <3>3
  <2>4. d \in Sums(n)
    BY <2>3
  <2> HIDE DEF d, Sums
  <2>5. Sums(n) # {} /\ n \in 0..Parts
    BY <1>0, <2>4
  <2> QED
    BY <2>5
<1> HIDE DEF able
<1>3. \A n \in 0..Parts : n \in able
  BY <1>0, <1>1, <1>2, CountingUp
<1>4. PICK c : /\ c \in [0..Parts -> Nat] /\ c[0] = 0
               /\ \A i \in 1..Parts : c[i] = c[i - 1] + tokens[i]
  <2>1. Parts \in able
    BY <1>0, <1>3
  <2>2. Sums(Parts) # {}
    BY <2>1 DEF able
  <2> QED
    BY <2>2
<1>5. c = [i \in 0..Parts |-> IF i = 0 THEN 0 ELSE c[i - 1] + tokens[i]]
  BY <1>0, <1>4
<1> QED
  BY <1>5

\* Consumed adds up.
LEMMA ConsumedSums ==
    ASSUME NEW tokens \in [1..Parts -> Nat]
    PROVE  /\ Consumed(tokens) \in [0..Parts -> Nat]
           /\ Consumed(tokens)[0] = 0
           /\ \A i \in 1..Parts : Consumed(tokens)[i] = Consumed(tokens)[i - 1] + tokens[i]
<1> DEFINE Adds(c) == c = [i \in 0..Parts |-> IF i = 0 THEN 0 ELSE c[i - 1] + tokens[i]]
           c == Consumed(tokens)
<1>0. Parts \in Nat
  BY Sizes
<1>1. \E d : Adds(d)
  BY SumsExist
<1>2. c = CHOOSE d : Adds(d)
  BY DEF Consumed
<1> HIDE DEF Adds, c
<1>3. Adds(c)
  BY <1>1, <1>2
<1>4. c[0] = 0 /\ \A i \in 1..Parts : c[i] = c[i - 1] + tokens[i]
  BY <1>0, <1>3 DEF Adds
<1> DEFINE numbers == {i \in 0..Parts : c[i] \in Nat}
<1>5. 0 \in numbers
  BY <1>0, <1>4
<1>6. ASSUME NEW i \in 1..Parts, i - 1 \in numbers PROVE i \in numbers
  BY <1>0, <1>4, <1>6
<1> HIDE DEF numbers
<1>7. \A i \in 0..Parts : i \in numbers
  BY <1>0, <1>5, <1>6, CountingUp
<1>8. c \in [0..Parts -> Nat]
  BY <1>3, <1>7 DEF numbers, Adds
<1> QED
  BY <1>4, <1>8 DEF c

\* What has been consumed does not grow smaller.
LEMMA ConsumedGrows ==
    ASSUME NEW tokens \in [1..Parts -> Nat], NEW i \in 0..Parts, NEW j \in 0..Parts, i <= j
    PROVE  Consumed(tokens)[i] <= Consumed(tokens)[j]
<1> DEFINE c == Consumed(tokens)
           above == {k \in 0..Parts : i <= k => c[i] <= c[k]}
<1>0. /\ Parts \in Nat /\ c \in [0..Parts -> Nat]
      /\ \A k \in 1..Parts : c[k] = c[k - 1] + tokens[k]
  BY Sizes, ConsumedSums
<1> HIDE DEF c
<1>1. 0 \in above
  BY <1>0
<1>2. ASSUME NEW k \in 1..Parts, k - 1 \in above PROVE k \in above
  <2>1. c[k] = c[k - 1] + tokens[k] /\ c[k] \in Nat /\ c[k - 1] \in Nat /\ tokens[k] \in Nat
        /\ c[i] \in Nat /\ i \in Nat
    BY <1>0
  <2>2. CASE i <= k - 1
    BY <1>0, <1>2, <2>1, <2>2
  <2>3. CASE i = k \/ i > k
    BY <1>0, <2>1, <2>3
  <2> QED
    BY <2>1, <2>2, <2>3
<1> HIDE DEF above
<1>3. j \in above
  BY <1>0, <1>1, <1>2, CountingUp
<1> QED
  BY <1>3 DEF above, c

\* How many of a part's tokens are marked, and how it is marked.
LEMMA AnnotatedPart ==
    ASSUME NEW tokens \in [1..Parts -> Nat], NEW cached \in Nat, NEW i \in 1..Parts
    PROVE  LET c == Consumed(tokens)
               m == Annotated(tokens, cached)[i]
           IN /\ m.estimated = tokens[i] /\ m.cached \in Nat
              /\ m.cached = Least(c[i], cached) - Least(c[i - 1], cached)
              /\ m.state # "none" => c[i - 1] < cached
              /\ c[i] <= cached => m.state = "cached" \/ tokens[i] = 0
<1> DEFINE c == Consumed(tokens)
           n == IF c[i - 1] >= cached THEN 0 ELSE Least(c[i], cached) - c[i - 1]
           m == Annotated(tokens, cached)[i]
<1>1. /\ c[i] \in Nat /\ c[i - 1] \in Nat /\ c[i] = c[i - 1] + tokens[i] /\ tokens[i] \in Nat
  <2>1. Parts \in Nat /\ i \in 0..Parts /\ i - 1 \in 0..Parts
    BY Sizes
  <2>2. /\ c \in [0..Parts -> Nat]
        /\ c[i] = c[i - 1] + tokens[i]
    BY ConsumedSums
  <2> HIDE DEF c
  <2> QED
    BY <2>1, <2>2
<1>2. m = Mark(IF n <= 0 THEN "none" ELSE IF n >= tokens[i] THEN "cached" ELSE "partial",
               n, tokens[i])
  BY DEF Annotated
<1> HIDE DEF c, m
<1>3. /\ m.cached = n /\ m.estimated = tokens[i]
      /\ m.state = IF n <= 0 THEN "none" ELSE IF n >= tokens[i] THEN "cached" ELSE "partial"
  BY <1>2 DEF Mark
<1>4. n \in Nat /\ n = Least(c[i], cached) - Least(c[i - 1], cached)
  BY <1>1 DEF Least
<1>5. m.state # "none" => c[i - 1] < cached
  BY <1>1, <1>3
<1>6. c[i] <= cached => m.state = "cached" \/ tokens[i] = 0
  BY <1>1, <1>3 DEF Least
<1>7. /\ m.estimated = tokens[i] /\ m.cached \in Nat
      /\ m.cached = Least(c[i], cached) - Least(c[i - 1], cached)
  BY <1>3, <1>4
<1> QED
  BY <1>5, <1>6, <1>7 DEF c, m

\* The marks add up to what was cached, as far as the estimates go.
LEMMA MarkedSum ==
    ASSUME NEW tokens \in [1..Parts -> Nat], NEW cached \in Nat
    PROVE  Consumed([i \in 1..Parts |-> Annotated(tokens, cached)[i].cached])[Parts]
               = Least(Consumed(tokens)[Parts], cached)
<1> DEFINE c == Consumed(tokens)
           marked == [i \in 1..Parts |-> Annotated(tokens, cached)[i].cached]
           d == Consumed(marked)
           same == {i \in 0..Parts : d[i] = Least(c[i], cached)}
<1>0. Parts \in Nat
  BY Sizes
<1>1. marked \in [1..Parts -> Nat]
  BY AnnotatedPart
<1>2. \A i \in 1..Parts : marked[i] = Least(c[i], cached) - Least(c[i - 1], cached)
  BY AnnotatedPart
<1> HIDE DEF marked
<1>3. /\ c \in [0..Parts -> Nat] /\ c[0] = 0
      /\ d \in [0..Parts -> Nat] /\ d[0] = 0
      /\ \A i \in 1..Parts : d[i] = d[i - 1] + marked[i]
  BY <1>1, ConsumedSums
<1> HIDE DEF c, d
<1>4. 0 \in same
  BY <1>0, <1>3 DEF Least
<1>5. ASSUME NEW i \in 1..Parts, i - 1 \in same PROVE i \in same
  <2>1. /\ d[i] = d[i - 1] + marked[i] /\ d[i - 1] = Least(c[i - 1], cached)
        /\ marked[i] = Least(c[i], cached) - Least(c[i - 1], cached)
        /\ c[i] \in Nat /\ c[i - 1] \in Nat
    BY <1>0, <1>2, <1>3, <1>5
  <2>2. d[i] = Least(c[i], cached)
    BY <2>1 DEF Least
  <2> QED
    BY <2>2
<1> HIDE DEF same
<1>6. \A i \in 0..Parts : i \in same
  BY <1>0, <1>4, <1>5, CountingUp
<1>7. Parts \in same
  BY <1>0, <1>6
<1> QED
  BY <1>7 DEF same, c, d, marked

\* A part that is marked follows only parts that are marked whole, or that are empty.
LEMMA MarkedFollow ==
    ASSUME NEW tokens \in [1..Parts -> Nat], NEW cached \in Nat,
           NEW i \in 1..Parts, NEW j \in 1..Parts, i < j,
           Annotated(tokens, cached)[j].state # "none"
    PROVE  \/ Annotated(tokens, cached)[i].state = "cached"
           \/ Annotated(tokens, cached)[i].estimated = 0
<1> DEFINE c == Consumed(tokens)
<1>1. c[j - 1] < cached
  BY AnnotatedPart
<1>2. i \in 0..Parts /\ j - 1 \in 0..Parts /\ i <= j - 1
  BY Sizes
<1>3. c[i] <= c[j - 1]
  BY <1>2, ConsumedGrows
<1>4. c[i] \in Nat /\ c[j - 1] \in Nat
  BY <1>2, ConsumedSums
<1>5. c[i] <= cached
  BY <1>1, <1>3, <1>4
<1> QED
  BY <1>5, AnnotatedPart

\* The marks of a request are a prefix of it, and add up to what the upstream said was
\* cached, whatever the parts are estimated at (ChatViewer.tsx:648).
THEOREM MarksAreAPrefix == TraceSpec => []MarksArePrefix
<1>1. ASSUME TraceTypeOK PROVE MarksArePrefix
  <2>1. SUFFICES ASSUME segments # Nothing PROVE MarksArePrefix
    BY DEF MarksArePrefix
  <2> DEFINE tokens == segments.tokens
             cached == Cached[segments.of]
  <2>2. tokens \in [1..Parts -> Nat] /\ cached \in Nat
    BY <1>1, <2>1, Sizes DEF TraceTypeOK, Estimate
  <2> HIDE DEF tokens, cached
  <2>3. Consumed([i \in 1..Parts |-> Annotated(tokens, cached)[i].cached])[Parts]
            = Least(Consumed(tokens)[Parts], cached)
    BY <2>2, MarkedSum
  <2>4. \A i, j \in 1..Parts : i < j /\ Annotated(tokens, cached)[j].state # "none" =>
            \/ Annotated(tokens, cached)[i].state = "cached"
            \/ Annotated(tokens, cached)[i].estimated = 0
    BY <2>2, MarkedFollow
  <2> QED
    BY <2>3, <2>4 DEF MarksArePrefix, tokens, cached
<1> QED
  BY <1>1, TraceTypes, PTL
=============================================================================
