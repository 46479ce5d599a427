# ailens360 in TLA+

ailens360 is a logging proxy for LLM APIs. Clients send their requests through a **proxy**, which
forwards them to the upstream, streams the answer back, stores both bodies in MinIO and puts a trace
event into a Redis stream. **Collectors** take the events out of the stream and write them to a
month-partitioned Postgres table. An **api** process serves the dashboard and administers the
projects, whose keys the proxies look up through a two-tier cache. All three are roles of one Go
binary; each may run in several copies. The dashboard is a single-page **console** in React, run by
every user's browser in as many tabs as he likes.

This directory holds TLA+ models of those parts, the TLC configurations that check them and TLAPS
proofs about them. Paths below are relative to `src/`.

## 1. Inventory

| Component | State it keeps | Operations | What is hard about it | What makes it correct |
|---|---|---|---|---|
| Proxy request path `internal/proxy/handler.go`, `intercept/writer.go` | one request: timeline, capture buffer, two uploads, parser | `serve`, `emitError`, `uploadRequestAsync` | three goroutines and three pipes; client, upstream and MinIO fail at any point | every forwarded request leaves one event that tells the truth; serve ends; the client is served whatever MinIO does |
| Body store `internal/bodystore` | objects under `{project}/{YYYYMM}/{trace}/` | `UploadBytes`, `NewStreamingUploader`, `DeletePrefix`, `Get` | partial uploads, a reader that stops reading | a key names a whole body |
| Sink `internal/proxy/sink.go` | none (the Redis stream) | `Submit` | the reply of XADD lost, re-sent by the client library | an event is submitted once per call |
| Collector `internal/collector/consumer.go` | consumer group: last-delivered id, pending list; a batch per goroutine | `Start`, `Stop`, `readLoop`, `claimLoop`, `processBatch` | crash or shutdown between COPY, counters and XACK; the same entry in two hands | at-least-once delivery, exactly-once rows and counters |
| Transformer `internal/collector/pipeline.go` | none | `Transform` | which of several token counts wins | a row bills what the upstream reported |
| Realtime metrics `internal/metrics/realtime.go` | per-second counters in Redis | `RecordBatch`, `ProjectLive` | pipelines that fail half way | a trace is counted once |
| Project cache `internal/cache`, `internal/project/resolver.go` | an LRU per process, Redis | `Get`, `Set`, `Delete`, `subscribe`, `Resolve`, `Invalidate` | fills that overtake invalidations, lost broadcasts | a revoked key stops resolving |
| Project administration `internal/project/service.go`, `internal/api/handler/handlers.go` | projects table | create, update, reset key, delete | several statements without a transaction | a retry repairs what a failure left |
| Partition maintainer `internal/partition/maintainer.go` | partitions of `traces` | `Start`, `Ensure` (create, drop, purge), `Stop` | several collectors at once, month ends, failures between DROP and purge | retention is kept, rows find their partition, bodies go with their rows |
| Repositories and schema `internal/storage` | tables | `BatchCreate`, `DeleteByProject`, queries | COPY is all or nothing; the primary key includes `created_at` | no duplicate rows |
| Parsers `internal/proxy/stream`, `pkg/sse` | model, usage, finish reason, timeline | `Feed`, `ParseFull` | chunk and event boundaries, dialects of usage | disjoint token categories |
| Pricing `internal/pricing` | price table, warm copy in Redis | `Cost`, `lookup`, `loadOnce` | tiers, prefixes, stale copies | cost is a function of model and usage |
| Wiring, auth, middleware, configuration, tokenizer, ids | little or none | | | |
| Console: session `frontend/src/lib/auth.ts`, `lib/api.ts`, `App.tsx`, `pages/Landing.tsx`, `components/LoginModal.tsx`, `AppShell.tsx` | the token in localStorage; per tab a flag, the route, the modal | log in, log out, move, request, 401 | several tabs, storage events, effects that run late, answers to requests of an older session | a tab shows what its flag and path say; a session ends only for a cause; who has no token is pushed out |
| Console: projects `pages/ProjectsHome.tsx`, `project/Settings.tsx`, `project/Setup.tsx` | one cached list, mutations under way | create, rename, reset key, delete, move | refetches joined, cancelled, failed, overtaken | the pages show every change that was made through them |
| Console: one trace `pages/project/TraceDetail.tsx`, `components/BodyViewer.tsx`, `lib/chatTokenEstimator.ts` | selection, queries per span, tokenizer promises, the estimate | select, fetch, retry, estimate | answers for what is no longer selected | marks are of the request shown, a prefix of it, and come in the end |
| Console: chat viewer `components/ChatViewer.tsx` | the fold of a stream's events | `assembleStream`, `extractMessages`, render | three dialects, interleaved blocks, repeats, streams that break | every fragment once, in place; a stream reads like the whole answer |
| Console: trace list, overview, texts | filters in the URL, polled queries | | | |

How they interact: proxy → MinIO (bodies), proxy → Redis stream → collector → Postgres and Redis
counters; api → Postgres → Redis DEL and Pub/Sub → proxies' caches; console → api (HTTP, a bearer
token); tab → tab (storage events); maintainers (one inside each collector) → Postgres DDL and
MinIO; api → Postgres and MinIO for a project's deletion.

`PROJECT.json` lists every component with what is modelled of it, and every hazard with its line and
the properties that watch it.

## 2. Modules

| Module | Models |
|---|---|
| `Collector` | the stream, its consumer group and the collectors' goroutines, step by step |
| `TraceLog` | what the ingest path promises: an exactly-once log. `Collector!ImplementsLog` is its `Spec` under a refinement mapping |
| `MCCollector`, `MCDataLifecycle`, `MCBilling`, `MCPricing`, `MCTraceDetail` | symmetry sets, a price table and a trace for TLC |
| `CollectorProofs` | theorems about `Collector`, with the refinement |
| `ProjectCache` | the life of one project key in two cache tiers |
| `ProxyRequest` | one request: serve, parser, uploads, client, upstream |
| `ProxyProofs` | theorems about both; `ProjectCache`'s common names are its own (`CacheInit`, `CacheSpec`, ...) so that one module can extend the two |
| `DataLifecycle`, `DataLifecycleProofs` | rows, bodies, partitions and their deletion over the months |
| `Pricing`, `PricingProofs` | the refreshers of the price tables and the copy in Redis they share |
| `Billing`, `BillingProofs` | one answer's text and usage, from the upstream's words to the priced trace |
| `Session`, `SessionProofs` | the console's token, flags, guards and login modal, over several tabs |
| `ConsolePages` | the pages that read and change projects, over one cached list |
| `TraceDetail` | the trace page: selection, queries, estimates, cache marks |
| `ConsoleProofs` | theorems about both, likewise: `TraceInit`, `TraceSpec`, ... |
| `ChatStream`, `ChatStreamProofs` | a recorded stream folded into chat bubbles, and the same answer in one piece |

### Collector

A stream entry is its position. `Submit`/`SubmitFails`/`Resend` are `StreamSink.Submit` and the
Redis client's retry; `ReadGroup` is XREADGROUP with `processBatch` begun, `Reclaim` XAUTOCLAIM from
`0-0`; `Insert`, `RecordBatch` and `Ack` are the three calls of `processBatch`, each with its failure.
A COPY is refused as a whole by the primary key (rows stored already, twice in a batch) or for an
unstorable row. `Start`, `Stop`, `Exit`, `Crash` are the process; `detached` is `processBatch`'s
choice of a fresh context when its own is cancelled. The owner of a pending entry is left out:
neither XAUTOCLAIM nor XACK asks for it. `Start` creates the group at `$`: events submitted before
belong to nobody (they are not `Covered`), as in the code.

### ProjectCache

The life of one key, because no call relates two keys and keys are never given out again. Each Redis
or Postgres call is a step. Entries carry their remaining lifetime; `Tick` ages everything. Two
things are assumed: a resolve does not hold a value longer than `MaxHold` ticks before it caches it
(without such a bound nothing at all could be said about staleness), and all clocks go at one pace.

### ProxyRequest

`serve` copies chunks to client, store pipe and parser pipe in turn; a pipe write is a rendezvous
with its reader. `store` is the `PutObject` goroutine, `parser` is `Feed`, `reqUpload` the upload of
the request body. A chunk brings content, the terminal event of the stream, or neither, and may stop
before the blank line that closes its event: then the SSE scanner holds the event (`unclosed`) until
the next chunk or the end of the pipe. What the scanner does to lines and fields is left out.

### DataLifecycle

Months are numbers. A request is opened, answered, enqueued and inserted; every statement of
`Ensure` and of `DeleteProject` is a step with a failure, and a collector may crash at any of them.
`NextMonth` assumes that a request in the proxy and a pass of `Ensure` see at most one month's end.
A request has one body; what holds for it holds for each.

### Billing

One answer in one of four dialects (chat completions, responses, Anthropic, Gemini), streamed chunk
by chunk (`Feed`: `MessageStart`, `Say`, `ToolCall`, `HiddenDelta`, `TextDone`, `Finish`,
`UsageChunk`) or as one body, cut after any chunk; then `Finalize` or `ParseNonStream`, then
`Transform` with the catalogue's `Cost`. The upstream is outside: `Wires` are the usage payloads it
may send, none included. Its prompt has uncached, cached and cache-written tokens, and `apart` says
whether its input count leaves the cached ones out (Anthropic's does; an OpenAI-compatible one may,
against its dialect). A text delta is one token and one rune that is no space. `heard` is history:
the last payload the parser took. `Prices` are arbitrary, `NoPrice` stands for a model the
catalogue does not know.

Left out of it: chunks that do not decode (they change nothing), the model's name and the lookup of
its price by exact name, alias and prefix, the `tiktoken` encoders (a library; the heuristic that
stands in for them is modelled as `Count`), text of blanks only, which counts 0, tokens of thought
(recorded, never priced) and `response.failed`. The collector's row is one field of one trace here:
`Collector` has the batches.

### Pricing

A refresher per process (`Refresher.Start`, `loop`, `loadOnce`). A table is the time at which
models.dev gave it out, so "older" is "smaller"; the seed prices are older than all. The three calls
of a load (GET, fetch, SET) are steps with failures; a collector has no source and keeps what it has.
Time is real here: `Tick` waits for a ticker that is due and for a load at its timeout. The apis
start at time 0, collectors at any time; anything may stop in the middle of a load and start again.
Which price a model has in a table is `Billing`'s arbitrary `Prices`.

### Session

`store` is the token in localStorage, numbered by the login that wrote it; the server (outside)
knows which are issued and which have expired. `Write` is `setAuth`/`clearAuth`: it tells the tab's
own component at once and leaves a `note` for the others, which `Deliver` hands over (the `storage`
event). `useAuthed` reads the token in the first render and subscribes in an effect; a change in
between is `missed`, nobody repeats it. `Effects` runs what the last render left due: the
subscription, `RequireAuth`'s `Navigate`, the landing page's effect, the modal's. React 18 runs the
render and the effects of a click in one go, so clicks (`OpenConsole`, `CloseLogin`, `Submit`,
`Logout`, `Follow`) include them; answers (`LoggedIn`, `Refused`, `Settled`) and storage events do
not. Requests keep the token they were sent with and are never aborted.

### ConsolePages

The list is a number: how many changes of the projects table it has seen. Fetches, their two steps
(`Read` at the server, `Answer` on arrival), cancellation (`Invalidate`), ages and the promise of
`invalidateQueries` follow react-query v5, which is outside; the options are the code's (5 s by
default, 30 s in sidebar, Setup and Settings; no retry; `refetchOnWindowFocus` off). A mutation is
a call in `calls`: `Submit`, `Apply` or `Refuse`, then its handler: `Renewed` (rename, reset key:
`onSuccess` returns the promise) or `MovedOn` (create, delete: it navigates and does not wait).

### TraceDetail

`ListAnswer`, `SelectSpan`, `SelectRoot` change what is `Active`, and `Detail`, `Latest`, `Bodies`,
`Showing` say which panel, body and chat viewer that mounts; what a step unmounts is part of it
(`Commits`). `FetchSpan`/`SpanAnswer`, `FetchBody`/`BodyAnswer`/`BodyUnreachable` are the queries with
`BodyViewer`'s retry rule. `Effect` is the effect that asks for an estimate and cancels the one before,
`Load` the promise of a tokenizer, kept with its failure, `Estimated` the answer. How many tokens a part
is estimated at is any of `Size`. `Annotated` is `annotateCachedPrefix`. The export of a prompt for an
analysis by a model is left out: started for a span and finished for another it overwrites the
clipboard late, which is what the user asked for.

### ChatStream

An answer is a list of blocks, each with the fragments sent of it; a fragment is its number. The
upstream begins and extends blocks of several choices in any order, and a stream may end after any
frame. `OpenAI…`, `Responses…`, `Anthropic…` are what `assemble…Stream` does with each frame; the
closing events of Responses that repeat the text or a call's arguments are among them. `Whole…` is what
`extractMessages` makes of the same answer sent in one piece. Frames are taken as parsed; requests,
tool definitions, images, folding and colours are left out.

## 3. Runs

| Run | Question | Bounds | Result |
|---|---|---|---|
| `collector_safety` | is anything acknowledged unstored, counted twice, delivered after its XACK; is it a `TraceLog`? | 2 collectors (4 goroutines), a good and a malformed event, each possibly twice; 2 faults, 1 shutdown | passes |
| `collector_liveness` | is everything stored in the end? | 1 collector, 3 events, 1 fault, 1 shutdown | passes: yes, unless the pending list is wedged |
| `project_cache` | how long does a revoked key resolve? | 2 proxies, 2 admin requests, L1 2, L2 3, hold 1 ticks | passes |
| `proxy_request` | one event, true verdict, whole bodies, termination | answers of up to 3 chunks | passes |
| `data_lifecycle` | retention, partitions, bodies of visible rows, deleted projects | 2 maintainers, 2 requests, 1 project, 3 months, 1 failure or crash | passes |
| `data_purge_lost` | are the bodies of dropped months purged? | 1 maintainer, 1 request, 1 failure | **violated** |
| `billing` | is the trace billed what the upstream reported, nothing twice, estimates only where counts are missing? | up to 2 prompt tokens of each kind, 3 generated; prices with two tiers, one tier, none | passes |
| `pricing` | how old do prices get, how many loads does a collector miss, do tables go backwards? | 2 apis, 1 collector; interval 2, TTL 4, timeout 1, clock to 14; 1 fault | passes |
| `session` | who is shown what, why does a session end, is everybody without one pushed out? | 2 tabs (one of them awake), 2 logins, 1 request per tab | passes (173,000 states) |
| `console_pages` | is what was changed on show once no fetch is under way? | 2 projects, 3 changes, 2 calls under way | passes (477,000 states) |
| `trace_detail` | whose estimate marks the request shown, what does it mark, does it come? | 3 spans (one uncached, one with a tokenizer, one without), 3 parts of 0 or 2 tokens | passes (351,000 states) |
| `chat_stream` | is every fragment shown once, and a stream like the whole answer? | 2 choices, 3 blocks, 3 fragments | passes (59,000 states) |

Why the bounds are enough. In `Collector` the interesting cases need two goroutines with one entry
(four exist), a batch of a good and a bad entry (`BatchSize` 2), a duplicate (`Resend`) and a fault
after a fault. In `ProjectCache` two resolves, two overlapping rotations and lifetimes in the order
of the defaults. In `ProxyRequest` the parser lags at most one chunk behind, so three chunks give
every position of the terminal event. In `DataLifecycle` a month expires in the third with a
retention of one; two maintainers give every overlap of creating, dropping and purging. In `Billing`
the tiers start at 1 and 2 tokens, so prompts lie below, between and above them, and the uncached
part alone on another side than the whole; three tokens allow a count in the middle of a stream, one
at its end and one after it. In `Pricing` 14 ticks are three lives of the copy, and each of the bounds
in its properties is attained: one less, and the run fails. In `Session` two tabs and two logins are
a session that ends while requests sent in it are on their way, and the next one; the proofs lift
the bound for safety. In `ConsolePages` two calls are a refetch that cancels another's, three changes
one by somebody else between two of one's own (four changes pass as well, in 5.8 million states; the
proof is for any number). In `TraceDetail` a span can be left for another while a third stands for
the trace; the cached tokens end before, inside, between and after the parts. In `ChatStream` three
blocks are interleaved, in one choice or in two, with three fragments to mix up.
`CHECK_DEADLOCK FALSE` stands where the system really comes to rest: all events and faults spent, a
request over, the last month reached.

### What does not hold

- `data_purge_lost` (a run): the months to purge are only in memory; after a failure or a crash
  between DROP and purge nobody comes back for them.

Four more definitions state what a comment says and the code does not do. To see a counterexample,
check the named definition alone:
- `Collector!EveryDeliveredStored` (a property; no fault, two shutdowns): `Stop` between COPY and XACK
  leaves a stored entry pending. Claimed again, its COPY fails on the primary key, with every entry in
  the same batch; `reclaim` always starts at `0-0`, so the same batch fails for ever. The comment in
  `consumer.go:227` counts on another shot. `StoredUnlessWedged` says that nothing else goes wrong.
- `ProjectCache!OldKeyStopsResolving` (an invariant): a resolve that has read the row before a rotation
  writes it to Redis after the DEL. `RevokedKeyDies` bounds how long that can last.
- `ProxyRequest!ClientKeepsReceiving` (a property, under `Spec` instead of `FairSpec`):
  `swallowingWriter` swallows errors, not silence; a MinIO that never answers stops the client's stream.
- `ProxyRequest!AnsweredBeforeSubmit` (an invariant): `middleware.Logging`'s writer hides the Flusher,
  so `cw.Flush` does nothing and the tail of an answer is delivered after `Submit` (`sink.go:19`).

Met while modelling, plain from the code and not worth a run:
- `maintainer.go:177` says that with a retention of 3 in June, March is dropped; the strict
  comparison keeps it (a month more than promised, never less: `KeptForRetention`).
- Nothing trims the stream, so XLEN, which `docs/deployment.md:419` recommends to watch for a
  backlog, only grows.
- `docs/architecture.md:192` says a request whose client leaves is `aborted`; one whose answer is not
  a stream stays `success` (`Status` in `ProxyRequest`).
- `proxy/stream/openai_parser.go:208` appends the text of `response.output_text.done`, which the deltas have
  given already: an answer without usage is then estimated at twice its output (`TextDone`).
- `proxy/stream/types.go:48` calls the cached tokens a subset of `InputTokens`; all the parsers
  make them disjoint, and `Cost` counts on it (`NothingBilledTwice`).
- `pricing/source.go:33-36` and (among names of one length) `pricing.go:222` choose in map order: with two
  providers that list a model, its price may differ from one process to the next.
- `docs/architecture.md:520` makes a missing total the sum of the four counts; `pipeline.go:64` adds
  input and output only, so cached tokens are missing from it.
- `pricing/refresher.go:28` ("a background ticker re-fetches every Interval") and its comment at 107
  (a hit is made good by the ticker): the ticker calls the same `loadOnce`, which returns on a hit.
  With the defaults a price is fetched every 24 h at best and can be 36 h old (`PricesCurrent`), and
  between the copy's end and the next tick of an api a starting collector finds no copy and bills
  seed prices (`WarmReturns`, `CollectorsCatchUp`), against the comment at `refresher.go:137`.
- `ChatViewer.tsx:98-101` promises one bubble shape for streams and whole answers. Thinking blocks of
  Anthropic are shown for a whole answer (as JSON) and dropped from a stream, a refusal of Responses is
  shown in a stream and empty in a whole answer (`CommonGround` in `ChatStream`).
- `lib/api.ts:28` clears whatever token is there: a late 401 of an old session, or a mistyped password
  in one tab, logs every tab out (`EndsForCause` names both). `Landing`'s effect skips from `/login` to
  `/projects` and forgets the page one came from when the login was made in another tab.
- `ProjectsHome.tsx:54` ("jump straight into the new project"): react-query does not cancel a first
  load. A creation that overtakes it lands on the setup page of a project the list does not have, and
  the list passes for fresh for 30 s: a skeleton until then (`overtaken` in `ConsolePages`).
- The same handler navigates when the user has left the page meanwhile; and a reset of the key reports
  success with the old key on show when another invalidation cancels the refetch it waits for.
- `Traces.tsx:113` calls `has_data` authoritative; it is read once and kept for 60 s, so a project whose
  first traces come later shows the onboarding text where a filter merely has no match.

## 4. Fairness

- `Collector!Fairness`: goroutines are scheduled and their calls return (a call on a cancelled
  context returns with an error); a process that is down is started again
  (`docker-compose.yml`: `restart: unless-stopped`); pending entries age. Faults and shutdowns are
  never forced.
- `ProxyRequest!Fairness`: goroutines run; the upstream call has the HTTP client's timeout; the
  client takes bytes or goes away; the request's upload has a timeout. `FairSpec` adds that MinIO
  answers or fails, which nothing in the code guarantees.
- `DataLifecycle!FairSpec`: the ticker of every maintainer goes on and a pass, once begun, proceeds.
- `Session!Fairness`, for tabs that are awake: effects run, answers come, and the page that polls
  (every few seconds, `refetchInterval`) asks again and again. Strong fairness stands where moving
  about the console disables and enables the step. Nothing is assumed of the user or of the other tabs.
- `TraceDetail!Fairness`: React's scheduler, the network (which answers or fails) and the tokenizers'
  promises go on; the user selects what he likes.
- `ConsolePages` and `ChatStream` have no liveness property: an answer that never comes is the
  browser's affair, and the fold has no steps of its own.

## 5. Proofs

All theorems are proved for every value of the constants under the named assumptions of the modules
(`ConstantsOK`, `TTLsPositive`, `MaxChunksOK`, `ConfigOK`, `BoundsOK`: finite positive bounds;
`Bounds`: choices are numbered and one of them is 0; `PricesOK`: no two tiers of a price start at one
size; `ProcessesOK`: a process is an api or a collector; `TimesOK`: a load is shorter than the interval,
the TTL at least two intervals).

| Module | Theorems | Argument |
|---|---|---|
| `CollectorProofs` | `TypeCorrect`, `IngestLosesNothing`, `RealtimeCountsOnce`, `AcknowledgedForGood`, `CollectorImplementsTraceLog` | `IngestInv`. "Not counted twice" is not inductive alone: `Phases` adds that whoever is past its COPY holds stored rows, that nobody has counted them before, and that no two goroutines are about to count one event; it holds because the COPY refuses a stored row. `InGroup` keeps pending entries and batches between the group's start and its last-delivered position. The refinement maps entries the group covers to the log, pending and undelivered ones to `outstanding`; every step is one of the log's or a stutter. |
| `ProxyProofs`, of `ProjectCache` | `CacheTypes`, `RevokedKeysDie`, `ClearedKeysStayOut` | `CacheInv`: a resolve halfway carries a value no older than the time it has held it (`HeldIsYoung`, `HeldAtClear`), so what it writes expires within the sum of the lifetimes. |
| `PricingProofs` | `TypeCorrect`, `PricesAreCurrent`, `TheCopyReturns`, `TablesDoNotRollBack`, `CollectorsFindTheCopy` | `PricingInv`: a copy was written in the load that fetched it and expires a TTL later (`CopyAge`), so a hit is no older than TTL and timeout; the ticker is an interval ahead of the load (`OnTime`), which carries that to the next load (`LeftByLoad`). No catalog is newer than the copy by more than a load, except the one on its way to Redis (`CopyIsNew`). `CatchUpInv`, for a system without faults: the apis have been loading since the start (`ApisLoad`), so the copy is missing for less than an interval and a load; a collector that has missed it finds it in its next load, or had missed it that many intervals ago already (`FoundNext`); a third miss would lie outside the gap. |
| `ProxyProofs`, of `ProxyRequest` | `TypeCorrect`, `ForwardedIsTraced`, `StreamVerdict`, `KeysNameBodies` | `RequestInv`: what the client got is heard, in the scanner's or the parser's hands or on its way (`NothingUnheard`), and stored or on its way while PutObject has not failed (`NothingUnstored`); the event repeats what serve knew (`Judged`). |
| `DataLifecycleProofs` | `TypeCorrect`, `RetentionIsKept`, `RowsFindTheirPartition`, `RowsKeepTheirBodies`, `DeletedProjectsLeaveNothing` | `LifecycleInv`: a pass drops only what is expired and time makes nothing younger (`DropsExpired`); what a pass has not created yet is in `todo` (`CreatesAhead`), so from its end on every month up to `PreCreate` after its beginning has a partition until it is past (`PartitionsAhead`). `BodyInv`, on top of it: a pass is at most one month behind (`PassIsRecent`), so a dropped month is never created again (`Gone` is stable, because a pass creates months from its own on); only such months are purged (`PurgesGone`); so a body that is named and missing went with its month or its project (`BodiesFollow`), and a row's month is not after its body's. `DeletesSettled`: a request that was over when a deletion began gets no row and no body any more, and the deletion has taken its rows before its bodies, and both before the project. |
| `BillingProofs` | `TypeCorrect`, `ChargesAreDisjoint`, `EstimatesFillIn`, `ContentTimesOrdered`, `BillsAreRight` | `BillingInv`: the parser's counts stay within the upstream's (`ParserFits`), so do the event's (`EventFits`). `BillInv` adds that a regular upstream's last counts are exactly the parser's (`CountsExact`) and the event's (`EventExact`), and that text means something was generated. `BilledAsReported` then is arithmetic, once `Effective`'s CHOOSE is known to give the rate of the one highest tier below the prompt, which is there because numbers are well-founded. |
| `SessionProofs` | `TypeCorrect`, `FlagsAgree`, `PathsAreShown`, `SessionsEndForCause` | `FlagAgrees` is inductive: every write leaves a note or marks the tab that could not hear it. `ShowsItsPath` is so with `Settles`: a tab that is not listening has effects due, and one without shows what it should. `EndsForCause` follows step by step. |
| `ConsoleProofs`, of `ConsolePages` | `TypeCorrect`, `ChangesAreShown` | `IInv`: an answer on its way has seen every change whose success was handled, or is marked overtaken (`OnItsWay`); nothing was handled that the table does not hold (`Applied`). An invalidation replaces the fetch, so the invariant holds anew. |
| `ConsoleProofs`, of `TraceDetail` | `TraceTypes`, `MarksAreOfShown`, `MarksAreAPrefix` | `MarksFollow`: segments on show, and estimates that may still write them, are those of the request the effect last ran for; a commit that unmounts the viewer cancels them. The marks are arithmetic over partial sums: that the recursive function `Consumed` exists, adds up and grows is shown from a least counterexample (`CountingUp`, from `WFMin`), and that the marks add up to the cached tokens likewise. |
| `ChatStreamProofs` | `Mirrored`, `TypeCorrect`, `EveryFragmentOnce`, `StreamReadsLikeWhole` | `IInv`, which is about what was said and about what the viewer built of it. Said: the fragments are the first numbers (`Numbered`), each in one block and in order (`Apart`), and where blocks come one after the other so do their fragments (`InTurn`). Built: the Anthropic parts are the blocks, one each (`AnthropicMirror`); the Responses answer has every fragment of a text or refusal in order, and every call under its key (`ResponsesMirror`), which is why the closing events find nothing to add (`NothingNew`); each choice's entry has the choice's text, reasoning and calls, the calls under the index the upstream gave them (`OpenAIMirror`). `ShownOnce` follows from an arrangement, which blocks each item of the screen shows (`Arranged`); `StreamedLikeWhole` from the bubbles being the same, except that a Responses body has several texts in a row where its stream has one: those are read as one (`TextsJoin`), because the numbers in order are one list only (`OnlyAscending`, `OneRising`). |

The theorems `AcknowledgedForGood`, `ContentTimesOrdered` and `TheCopyReturns` are of properties
(`SettledForGood`, `TimesOrdered`, `WarmReturns`) that no run lists any more: the proof covers them for
every value of the constants. Only model-checked: the liveness properties (`StoredUnlessWedged`,
`RequestEnds`, `PushedOut`, `AnnotationComes`): liveness under fairness is beyond the prover. Every
safety property that a passing run lists is a theorem.

`ChatStream` sorts and joins, and the library's theorems by induction are out of the prover's reach.
So its model says what the code's sorts and loops come to: `Ascending`, the one list of a set of numbers
in order, for sorting and filtering, and recursive functions for the loops. That such a list and such
a function exist, and that the list is the only one, is shown from a least counterexample (`LinedUp`,
`OnlyAscending`, `CountingUp`). The library's `FlattenSeq` is used where a list has one element or none,
and in `OutputText`, of which the proof needs one case only: empty texts join to the empty one.

`CollectorsFindTheCopy` and `CatchUpInvariant` have a hypothesis, `LoadsAreApart`: there is an api, and an
interval is two timeouts or more (by default it is 12 h to 30 s). It is needed, and the run's constants
satisfy it: with interval 3, timeout 2 and TTL 6 TLC finds a collector that misses the copy three times
while one load of the api takes its whole timeout. `Refresher.Start` accepts any positive interval, so a
refresh interval of less than a minute would give up this property; the other theorems keep to
`TimesOK`.

## 6. Not modelled, and the plan

Not modelled: configuration, logging, id generation, admin authentication (a comparison of hashes
and a signed token), header rewriting and read-only queries of the api. They keep no state another
component relies on. Of the console: the trace list and the overview (polled queries keyed by their
filters, so that an answer lands only under its own), texts, number formats, icons and the prompt of
the analysis export; what forms hold before they are sent (Settings replaces a name half typed when
the list changes under it). Redis' memory: XADD sets no MaxLen, so the stream grows until `Submit` fails,
which is modelled, whatever the reason.

What could come next:
1. `ProxyRequest` and `Collector` together: the request's event as the entry submitted, so that
   "forwarded" implies "in the table in the end", up to the losses named here.
2. The realtime window: `ProjectLive`'s read over the per-second buckets against `RecordBatch`'s
   writes and their expiry.
3. The catalogue's lookup by name, alias and prefix, against a reference, and the lines and fields of
   the SSE scanner.
