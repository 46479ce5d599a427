------------------------------- MODULE Billing -------------------------------
(***************************************************************************)
(* From an upstream's answer to a priced trace.  The proxy's parser reads  *)
(* the answer in one of four dialects and keeps text, token counts and the *)
(* times of the first and last generated content; Finalize (a stream) or   *)
(* ParseNonStream (one JSON body) copies them into the event, where cached *)
(* and uncached prompt tokens are disjoint; Transform estimates what the   *)
(* upstream did not count and prices the trace.  A stream may end after    *)
(* any chunk, because the client or the upstream goes away.                *)
(*                                                                         *)
(* A text delta is one token and one rune, which is no space.  Time is the *)
(* number of chunks; 0 is the zero time.  Costs are in units of rate times *)
(* token.  Which price a model has is the catalog's business: any price,   *)
(* or none.                                                                *)
(***************************************************************************)
EXTENDS Naturals

CONSTANTS
    MaxPrompt,      \* bound: uncached, cached and cache-written prompt tokens, each
    MaxMade,        \* bound: tokens the upstream generates
    RunesPerToken,  \* runes the heuristic takes for a token where they are not CJK
    Prices          \* the prices a model may have in the catalog

Dialect  == {"chat", "responses", "anthropic", "gemini"}
TierRate == [input : Nat, output : Nat, cacheRead : Nat, cacheWrite : Nat,
             type : {"context", "other"}, size : Nat]
Price    == [input : Nat, output : Nat, cacheRead : Nat, cacheWrite : Nat,
             tiers : SUBSET TierRate]

ASSUME BoundsOK == MaxPrompt \in Nat /\ MaxMade \in Nat /\ RunesPerToken \in Nat \ {0}

\* No two tiers of a model start at the same size.
ASSUME PricesOK ==
    /\ Prices \subseteq Price
    /\ \A p \in Prices : \A s, t \in p.tiers : s.size = t.size => s = t

VARIABLES
    dialect,    \* how the upstream speaks
    streaming,  \* the answer is a stream
    prompt,     \* the prompt as the upstream knows it
    made,       \* tokens the upstream has generated
    pc,         \* where the answer is
    parser,     \* fields of the parser
    first,      \* Timeline.FirstToken
    last,       \* Timeline.LastToken
    chunks,     \* chunks read
    heard,      \* history: the last usage payload the parser took
    event,      \* text and usage in the event
    row         \* usage, cost and price in the trace

upstream == <<dialect, streaming, prompt>>
times    == <<first, last>>
vars == <<upstream, made, pc, parser, times, chunks, heard, event, row>>

\* apart: prompt_tokens leaves the cached tokens out.
Prompt == [uncached : 0..MaxPrompt, cached : 0..MaxPrompt, created : 0..MaxPrompt,
           apart : BOOLEAN]
Text   == [cjk : Nat, other : Nat]
Wire   == [given : BOOLEAN, in : Nat, details : Nat, hit : Nat, created : Nat,
           out : Nat, all : Nat]
Usage  == [input : Nat, output : Nat, cached : Nat, created : Nat, total : Nat]
Parser == [text : Text, in : Nat, out : Nat, all : Nat, cached : Nat, created : Nat,
           seen : BOOLEAN]

NoText  == [cjk |-> 0, other |-> 0]
NoWire  == [given |-> FALSE, in |-> 0, details |-> 0, hit |-> 0, created |-> 0,
            out |-> 0, all |-> 0]
NoUsage == [input |-> 0, output |-> 0, cached |-> 0, created |-> 0, total |-> 0]
NoPrice == [input |-> 0, output |-> 0, cacheRead |-> 0, cacheWrite |-> 0, tiers |-> {}]

TypeOK ==
    /\ dialect \in Dialect /\ streaming \in BOOLEAN
    /\ prompt \in Prompt /\ made \in 0..MaxMade
    /\ pc \in {"start", "open", "told", "over", "counted", "parsed", "done"}
    /\ parser \in Parser /\ heard \in Wire
    /\ chunks \in Nat /\ first \in 0..chunks /\ last \in 0..chunks
    /\ event \in [text : Text, use : Usage]
    /\ row \in [use : Usage, estimated : BOOLEAN, cost : Nat, price : Prices \cup {NoPrice}]

Init ==
    /\ dialect \in Dialect /\ streaming \in BOOLEAN
    /\ prompt \in Prompt
    /\ dialect = "anthropic" => prompt.apart
    /\ dialect # "anthropic" => prompt.created = 0
    /\ made = 0
    /\ pc = IF streaming /\ dialect = "anthropic" THEN "start" ELSE "open"
    /\ parser = [text |-> NoText, in |-> 0, out |-> 0, all |-> 0, cached |-> 0,
                 created |-> 0, seen |-> FALSE]
    /\ first = 0 /\ last = 0 /\ chunks = 0
    /\ heard = NoWire
    /\ event = [text |-> NoText, use |-> NoUsage]
    /\ row = [use |-> NoUsage, estimated |-> FALSE, cost |-> 0, price |-> NoPrice]

----------------------------------------------------------------------------
(* The usage payload *)

\* The names the cached tokens go by, and whether a total is given.
Names  == IF dialect = "chat" THEN {"details", "hit", "both"} ELSE {"details"}
Totals == IF dialect = "anthropic" THEN {FALSE} ELSE BOOLEAN

Payload(out, name, total) ==
    [given   |-> TRUE,
     in      |-> IF prompt.apart THEN prompt.uncached ELSE prompt.uncached + prompt.cached,
     details |-> IF name = "hit" THEN 0 ELSE prompt.cached,
     hit     |-> IF name = "details" THEN 0 ELSE prompt.cached,
     created |-> prompt.created,
     out     |-> out,
     all     |-> IF total THEN prompt.uncached + prompt.cached + out ELSE 0]

\* What an upstream that has generated out tokens may say of it: nothing, or the counts.
Wires(out) ==
    {NoWire} \cup {Payload(out, name, total) : name \in Names, total \in Totals}

\* A chunk of content carries usage in two of the dialects.
ChunkWires(out) == IF dialect \in {"chat", "gemini"} THEN Wires(out) ELSE {NoWire}

CachedTokens(u) == IF u.details > 0 THEN u.details ELSE u.hit

\* Mutant: the difference as it is.
Difference(m, n) == m - n

Less(m, n) == IF m > n THEN m - n ELSE 0

Said(new, old) == IF new > 0 THEN new ELSE old

SetUsage(p, u) ==
    [p EXCEPT !.in = u.in, !.out = u.out, !.all = u.all, !.cached = CachedTokens(u),
              !.seen = TRUE]

MessageStartUsage(p, u) ==
    [p EXCEPT !.in = Said(u.in, @), !.cached = Said(u.details, @),
              !.created = Said(u.created, @),
              !.seen = @ \/ u.in > 0 \/ u.details > 0 \/ u.created > 0]

MessageDeltaUsage(p, u) ==
    [p EXCEPT !.in = Said(u.in, @), !.out = Said(u.out, @), !.cached = Said(u.details, @),
              !.created = Said(u.created, @), !.seen = @ \/ u.in > 0 \/ u.out > 0]

\* The parser takes the payload u, if there is one.
Hear(p, u) ==
    /\ parser' = IF ~u.given THEN p
                 ELSE IF dialect = "anthropic" THEN MessageDeltaUsage(p, u)
                 ELSE SetUsage(p, u)
    /\ heard' = IF u.given THEN u ELSE heard

----------------------------------------------------------------------------
(* Feed: the chunks of a stream *)

Mark ==
    /\ first' = IF (IF dialect = "gemini" THEN parser.text = NoText ELSE first = 0)
                THEN chunks' ELSE first
    /\ last' = chunks'

MessageStart ==
    /\ streaming /\ pc = "start"
    /\ chunks' = chunks + 1
    /\ \E u \in Wires(0) :
          /\ parser' = MessageStartUsage(parser, u)
          /\ heard' = IF u.given THEN u ELSE heard
    /\ pc' = "open"
    /\ UNCHANGED <<upstream, made, times, event, row>>

\* Anthropic announces a block before its first token: content has begun.
BlockStart ==
    /\ dialect = "anthropic" /\ streaming /\ pc = "open" /\ first = 0
    /\ chunks' = chunks + 1
    /\ Mark
    /\ UNCHANGED <<upstream, made, pc, parser, heard, event, row>>

\* A delta with text.  A chat chunk's reasoning counts as text.
Say ==
    /\ streaming /\ pc = "open" /\ made < MaxMade
    /\ chunks' = chunks + 1
    /\ made' = made + 1
    /\ \E rune \in {"cjk", "other"}, u \in ChunkWires(made + 1) :
          Hear([parser EXCEPT !.text[rune] = @ + 1], u)
    /\ Mark
    /\ UNCHANGED <<upstream, pc, event, row>>

\* A tool call.  Gemini's parser sees no text in it and stamps nothing.
ToolCall ==
    /\ dialect # "anthropic" /\ streaming /\ pc \in {"open", "told"} /\ made < MaxMade
    /\ chunks' = chunks + 1
    /\ made' = made + 1
    /\ \E u \in ChunkWires(made + 1) : Hear(parser, u)
    /\ IF dialect = "gemini" THEN UNCHANGED times ELSE Mark
    /\ UNCHANGED <<upstream, pc, event, row>>

\* Anthropic's thinking and tool input: content, but no text of the answer.
HiddenDelta ==
    /\ dialect = "anthropic" /\ streaming /\ pc = "open" /\ made < MaxMade
    /\ chunks' = chunks + 1
    /\ made' = made + 1
    /\ Mark
    /\ UNCHANGED <<upstream, pc, parser, heard, event, row>>

\* response.output_text.done repeats the text that came in deltas; it is appended again.
TextDone ==
    /\ dialect = "responses" /\ streaming /\ pc = "open"
    /\ parser.text # NoText
    /\ chunks' = chunks + 1
    /\ parser' = [parser EXCEPT !.text = [cjk |-> 2 * @.cjk, other |-> 2 * @.other]]
    /\ Mark
    /\ pc' = "told"
    /\ UNCHANGED <<upstream, made, heard, event, row>>

\* The chunk that says why the answer ends.  A whole answer has a token.
Finish ==
    /\ streaming /\ pc \in {"open", "told"} /\ made > 0
    /\ chunks' = chunks + 1
    /\ \E u \in Wires(made) : Hear(parser, u)
    /\ pc' = "over"
    /\ UNCHANGED <<upstream, made, times, event, row>>

\* Chat completions send usage in a chunk of its own, after the last choice.
UsageChunk ==
    /\ dialect = "chat" /\ streaming /\ pc = "over"
    /\ chunks' = chunks + 1
    /\ \E u \in Wires(made) : u.given /\ Hear(parser, u)
    /\ pc' = "counted"
    /\ UNCHANGED <<upstream, made, times, event, row>>

----------------------------------------------------------------------------
(* Finalize and ParseNonStream: the event's usage *)

\* Mutant: the cached tokens stay in prompt_tokens.
Overlapping(in, cached, created, out, all) ==
    [input |-> in, output |-> out, cached |-> cached, created |-> created, total |-> all]

\* The counts an OpenAI or a Gemini upstream gave, made disjoint.
Disjoint(in, cached, created, out, all) ==
    [input |-> Less(in, cached), output |-> out, cached |-> cached, created |-> created,
     total |-> all]

Sum(u) == u.input + u.cached + u.created + u.output

Summed(u) == [u EXCEPT !.total = Sum(u)]

AnthropicUsage(p) ==
    Summed([input |-> p.in, output |-> p.out, cached |-> p.cached, created |-> p.created,
            total |-> 0])

GeminiUsage(p) ==
    LET use == Disjoint(p.in, p.cached, 0, p.out, p.all)
    IN  IF p.all = 0 THEN Summed(use) ELSE use

Finalize(p) ==
    CASE ~p.seen -> NoUsage
      [] p.seen /\ dialect = "anthropic" -> AnthropicUsage(p)
      [] p.seen /\ dialect = "gemini" -> GeminiUsage(p)
      [] p.seen /\ dialect \in {"chat", "responses"} ->
             Disjoint(p.in, p.cached, 0, p.out, p.all)

AnthropicBody(u) ==
    Summed([input |-> u.in, output |-> u.out, cached |-> u.details, created |-> u.created,
            total |-> 0])

\* A Gemini body goes like an OpenAI one: there a missing total is not summed.
ParseNonStream(u) ==
    CASE ~u.given -> NoUsage
      [] u.given /\ dialect = "anthropic" -> AnthropicBody(u)
      [] u.given /\ dialect # "anthropic" ->
             Disjoint(u.in, CachedTokens(u), 0, u.out, u.all)

\* The stream is over, or it is cut: after any chunk, or before the first one.
Close ==
    /\ streaming /\ pc \in {"start", "open", "told", "over", "counted"}
    /\ event' = [text |-> parser.text, use |-> Finalize(parser)]
    /\ pc' = "parsed"
    /\ UNCHANGED <<upstream, made, parser, times, chunks, heard, row>>

\* The whole body of an answer that is no stream.
Body ==
    /\ ~streaming /\ pc = "open"
    /\ \E n \in 1..MaxMade, c, o \in 0..MaxMade :
          /\ c + o <= n
          /\ made' = n
          /\ \E u \in Wires(n) :
                /\ heard' = u
                /\ event' = [text |-> [cjk |-> c, other |-> o], use |-> ParseNonStream(u)]
    /\ pc' = "parsed"
    /\ UNCHANGED <<upstream, parser, times, chunks, row>>

\* A body that was cut does not decode: the event stays as it was.
BrokenBody ==
    /\ ~streaming /\ pc = "open"
    /\ made' \in 0..MaxMade
    /\ pc' = "parsed"
    /\ UNCHANGED <<upstream, parser, times, chunks, heard, event, row>>

----------------------------------------------------------------------------
(* Transform: the trace *)

\* The registry's fallback for a model without an encoder.
Count(text) ==
    LET est == text.cjk + text.other \div RunesPerToken
    IN  IF est = 0 /\ text # NoText THEN 1 ELSE est

\* The rates for a prompt of that size: a tier's where it sets one, else the base.
Effective(p, size) ==
    LET crossed == {t \in p.tiers : t.type = "context" /\ size > t.size}
        picked  == CHOOSE t \in crossed : \A o \in crossed : o.size <= t.size
    IN  IF crossed = {} THEN p
        ELSE [p EXCEPT !.input      = Said(picked.input, @),
                       !.output     = Said(picked.output, @),
                       !.cacheRead  = Said(picked.cacheRead, @),
                       !.cacheWrite = Said(picked.cacheWrite, @)]

\* Mutant: the tier goes by the uncached prompt.
UncachedSize(u) == u.input

ContextSize(u) == u.input + u.cached + u.created

Cost(p, u) ==
    LET e == Effective(p, ContextSize(u))
    IN    u.input * e.input
        + u.cached * Said(e.cacheRead, e.input)
        + u.created * Said(e.cacheWrite, e.input)
        + u.output * e.output

\* Mutant: a count of the upstream is overwritten by an estimate.
AlwaysEstimates(ev) == ev.text # NoText

Estimates(ev) == ev.use.output = 0 /\ ev.text # NoText

\* The usage the trace carries.
Completed(ev) ==
    LET out == IF Estimates(ev) THEN Count(ev.text) ELSE ev.use.output
    IN  [ev.use EXCEPT !.output = out,
                       !.total = IF @ = 0 THEN ev.use.input + out ELSE @]

\* NoPrice: the catalog does not know the model.
Transform ==
    /\ pc = "parsed"
    /\ \E p \in Prices \cup {NoPrice} :
          row' = [use |-> Completed(event), estimated |-> Estimates(event),
                  cost |-> Cost(p, Completed(event)), price |-> p]
    /\ pc' = "done"
    /\ UNCHANGED <<upstream, made, parser, times, chunks, heard, event>>

Next == MessageStart \/ BlockStart \/ Say \/ ToolCall \/ HiddenDelta \/ TextDone
        \/ Finish \/ UsageChunk \/ Close \/ Body \/ BrokenBody \/ Transform

Spec == Init /\ [][Next]_vars

----------------------------------------------------------------------------
(* Properties *)

\* The upstream counts the way its dialect does.
Regular == prompt.apart <=> dialect = "anthropic"

\* The rate of one kind of token where the prompt has that size: the highest tier below
\* it decides, and it alone.
Rate(p, size, field) ==
    LET below == {t \in p.tiers : t.type = "context" /\ t.size < size}
        top   == {t \in below : \A o \in below : o.size <= t.size}
        set   == {t[field] : t \in top} \ {0}
    IN  IF set = {} THEN p[field] ELSE CHOOSE r \in set : TRUE

\* What a price table owes for the whole prompt and all that was generated.
Owed(p) ==
    LET size   == prompt.uncached + prompt.cached + prompt.created
        r(f)   == Rate(p, size, f)
        or(f)  == IF r(f) = 0 THEN r("input") ELSE r(f)
    IN  prompt.uncached * r("input") + prompt.cached * or("cacheRead")
        + prompt.created * or("cacheWrite") + made * r("output")

\* When the upstream's last word on usage covers all it generated, the trace costs what
\* the price table asks for the tokens the upstream billed, whichever dialect it spoke,
\* streamed or not, and however its counts overlapped (Finalize, ParseNonStream, Cost).
BilledAsReported ==
    pc = "done" /\ heard.given /\ heard.out = made /\ Regular => row.cost = Owed(row.price)

\* No trace charges a prompt token twice or a generated token that was not: not one whose
\* stream was cut after an early count, nor one from an upstream that keeps cached tokens
\* out of prompt_tokens.
NothingBilledTwice ==
    /\ ContextSize(row.use) <= prompt.uncached + prompt.cached + prompt.created
    /\ ~row.estimated => row.use.output <= made

\* The collector guesses the output only where no count of it arrived, and then it does
\* guess: a trace with text never shows zero output tokens (Transform).
EstimateFillsIn ==
    pc = "done" => /\ row.estimated => heard.out = 0
                   /\ event.text # NoText => row.use.output > 0

\* A stream has a first content exactly if it has a last one, in that order, so that the
\* generation time the collector derives is there and not negative.
TimesOrdered == (first = 0 <=> last = 0) /\ first <= last

(* What the parser, the event and the trace hold on the way to these *)

\* Anthropic's input_tokens are the uncached ones; only it counts what it writes to the cache.
PromptFits ==
    /\ dialect = "anthropic" => prompt.apart
    /\ dialect # "anthropic" => prompt.created = 0

\* The parser's counts are within the upstream's, and an output count that was heard is kept.
ParserFits ==
    /\ parser.in <= IF prompt.apart THEN prompt.uncached ELSE prompt.uncached + prompt.cached
    /\ parser.cached <= prompt.cached
    /\ parser.created <= prompt.created
    /\ parser.out <= made
    /\ ~streaming => ~parser.seen /\ parser.out = 0 /\ (pc = "open" => heard = NoWire)
    /\ streaming /\ heard.out > 0 => parser.seen /\ parser.out > 0

\* So are the event's.
EventFits ==
    /\ ContextSize(event.use) <= prompt.uncached + prompt.cached + prompt.created
    /\ event.use.output <= made
    /\ pc \notin {"parsed", "done"} => event.use = NoUsage
    /\ pc \in {"parsed", "done"} /\ heard.out > 0 => event.use.output > 0

\* There is a trace only in the end.
RowFits == pc # "done" => row.use = NoUsage /\ ~row.estimated

\* Gemini's parser tells the first content by the text it has.
GeminiTimes == dialect = "gemini" => (first = 0 <=> parser.text = NoText)

BillingInv ==
    TypeOK /\ PromptFits /\ ParserFits /\ EventFits /\ RowFits /\ GeminiTimes
    /\ TimesOrdered /\ NothingBilledTwice /\ EstimateFillsIn

\* Once a regular upstream's counts were heard, the parser has them, the last of each.
CountsExact ==
    Regular /\ streaming /\ heard.given =>
        /\ parser.in = IF prompt.apart THEN prompt.uncached
                                       ELSE prompt.uncached + prompt.cached
        /\ parser.cached = prompt.cached
        /\ dialect = "anthropic" => parser.created = prompt.created
        /\ parser.out = heard.out
        /\ parser.seen \/ (heard.out = 0 /\ prompt.uncached = 0 /\ prompt.cached = 0
                                          /\ prompt.created = 0)

\* So has the event, with the prompt's tokens told apart.
EventExact ==
    Regular /\ heard.given /\ pc \in {"parsed", "done"} =>
        /\ event.use.input = prompt.uncached
        /\ event.use.cached = prompt.cached
        /\ event.use.created = prompt.created
        /\ event.use.output = heard.out

\* Text was generated, and read from a stream or in the end.
TextIsMade ==
    /\ parser.text # NoText => streaming /\ made > 0
    /\ event.text # NoText => pc \in {"parsed", "done"} /\ made > 0

\* Only Anthropic's stream opens with a message_start, before anything is generated.
StartsFresh == pc = "start" => dialect = "anthropic" /\ made = 0

BillInv ==
    BillingInv /\ CountsExact /\ EventExact /\ TextIsMade /\ StartsFresh /\ BilledAsReported

=============================================================================
