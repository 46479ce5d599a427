---------------------------- MODULE BillingProofs ----------------------------
(***************************************************************************)
(* Theorems about Billing, for prompts and answers of any size and for any *)
(* price table.                                                            *)
(***************************************************************************)
EXTENDS Billing, WellFoundedInduction, TLAPS

\* A set of tiers that is not empty has a highest one.
LEMMA HighestTier ==
    ASSUME NEW size \in Nat, NEW crossed \in SUBSET TierRate, crossed # {},
           \A t \in crossed : size > t.size
    PROVE  \E t \in crossed : \A o \in crossed : o.size <= t.size
<1> DEFINE gaps == {size - t.size : t \in crossed}
<1>1. gaps \subseteq Nat /\ gaps # {}
    BY DEF TierRate
<1> HIDE DEF gaps
<1>2. PICK g \in gaps : \A h \in gaps : <<h, g>> \notin OpToRel(<, Nat)
    BY <1>1, NatLessThanWellFounded, WFMin
<1>3. ASSUME NEW h \in gaps PROVE g <= h
    <2>1. <<h, g>> \in Nat \X Nat /\ <<h, g>>[1] = h /\ <<h, g>>[2] = g
        BY <1>1
    <2>2. ~ (h < g)
        BY <1>2, <2>1, Zenon DEF OpToRel
    <2> QED BY <1>1, <2>2
<1>4. PICK t \in crossed : g = size - t.size
    BY DEF gaps
<1>5. \A o \in crossed : size - o.size \in gaps
    BY DEF gaps
<1> QED BY <1>3, <1>4, <1>5 DEF TierRate

\* The rates that apply are rates.
LEMMA EffectiveRates ==
    ASSUME NEW p \in Price, NEW size \in Nat
    PROVE  /\ Effective(p, size).input \in Nat
           /\ Effective(p, size).output \in Nat
           /\ Effective(p, size).cacheRead \in Nat
           /\ Effective(p, size).cacheWrite \in Nat
<1> DEFINE crossed == {t \in p.tiers : t.type = "context" /\ size > t.size}
           picked  == CHOOSE t \in crossed : \A o \in crossed : o.size <= t.size
<1>1. CASE crossed = {}
    BY <1>1 DEF Effective, Price
<1>2. CASE crossed # {}
    <2>1. crossed \in SUBSET TierRate /\ \A t \in crossed : size > t.size
        BY DEF Price
    <2> HIDE DEF crossed
    <2>2. picked \in TierRate
        BY <1>2, <2>1, HighestTier
    <2>3. Effective(p, size) = [p EXCEPT !.input      = Said(picked.input, @),
                                         !.output     = Said(picked.output, @),
                                         !.cacheRead  = Said(picked.cacheRead, @),
                                         !.cacheWrite = Said(picked.cacheWrite, @)]
        BY <1>2 DEF Effective, crossed
    <2> HIDE DEF picked
    <2> QED BY <2>2, <2>3 DEF Price, TierRate, Said
<1> QED BY <1>1, <1>2

LEMMA Product == ASSUME NEW m \in Nat, NEW n \in Nat PROVE m * n \in Nat
    OBVIOUS

\* A cost is a number of units.
LEMMA CostType ==
    ASSUME NEW p \in Price, NEW u \in Usage
    PROVE  Cost(p, u) \in Nat
<1> DEFINE e == Effective(p, ContextSize(u))
           b == Said(e.cacheRead, e.input)
           c == Said(e.cacheWrite, e.input)
<1>1. ContextSize(u) \in Nat
    BY DEF ContextSize, Usage
<1>2. e.input \in Nat /\ e.output \in Nat /\ e.cacheRead \in Nat /\ e.cacheWrite \in Nat
    BY <1>1, EffectiveRates
<1> HIDE DEF e
<1>3. b \in Nat /\ c \in Nat
    BY <1>2 DEF Said
<1>4. u.input \in Nat /\ u.cached \in Nat /\ u.created \in Nat /\ u.output \in Nat
    BY DEF Usage
<1> HIDE DEF b, c
<1>5. /\ u.input * e.input \in Nat /\ u.cached * b \in Nat
      /\ u.created * c \in Nat /\ u.output * e.output \in Nat
    BY <1>2, <1>3, <1>4, Product
<1>6. Cost(p, u) = u.input * e.input + u.cached * b + u.created * c + u.output * e.output
    BY DEF Cost, e, b, c
<1> QED BY <1>5, <1>6

\* An estimate is a number of tokens, and not zero for a text.
LEMMA CountType ==
    ASSUME NEW text \in Text
    PROVE  Count(text) \in Nat /\ (text # NoText => Count(text) > 0)
<1>1. text.other \div RunesPerToken \in Nat
    BY BoundsOK DEF Text
<1> QED BY <1>1 DEF Count, Text

\* One payload: its type, and that it claims no more than there is.
LEMMA WiresFit ==
    ASSUME TypeOK, NEW out \in Nat, NEW u \in Wires(out)
    PROVE  /\ u \in Wire
           /\ u.given => u.out = out
           /\ ~u.given => u = NoWire
           /\ u.in <= IF prompt.apart THEN prompt.uncached ELSE prompt.uncached + prompt.cached
           /\ CachedTokens(u) <= prompt.cached
           /\ u.details <= prompt.cached
           /\ u.created <= prompt.created
<1>1. prompt.uncached \in Nat /\ prompt.cached \in Nat /\ prompt.created \in Nat
      /\ prompt.apart \in BOOLEAN
    BY BoundsOK DEF TypeOK, Prompt
<1>2. CASE u = NoWire
    BY <1>1, <1>2 DEF NoWire, Wire, CachedTokens
<1>3. CASE u # NoWire
    <2>1. PICK name \in Names, total \in Totals : u = Payload(out, name, total)
        BY <1>3 DEF Wires
    <2>2. total \in BOOLEAN
        BY DEF Totals
    <2> QED BY <1>1, <2>1, <2>2 DEF Payload, Wire, CachedTokens, NoWire
<1> QED BY <1>2, <1>3

\* Taking a payload about n tokens keeps the parser's counts within the upstream's.
LEMMA HearFits ==
    ASSUME TypeOK, ParserFits, streaming,
           NEW n \in Nat, made <= n, NEW u \in Wires(n),
           NEW p \in Parser, p = [parser EXCEPT !.text = p.text],
           Hear(p, u)
    PROVE  /\ parser' \in Parser /\ heard' \in Wire
           /\ parser'.text = p.text
           /\ parser'.in <= IF prompt.apart THEN prompt.uncached
                                            ELSE prompt.uncached + prompt.cached
           /\ parser'.cached <= prompt.cached
           /\ parser'.created <= prompt.created
           /\ parser'.out <= n
           /\ heard'.out > 0 => parser'.seen /\ parser'.out > 0
<1>1. prompt.uncached \in Nat /\ prompt.cached \in Nat /\ prompt.created \in Nat
      /\ made \in Nat
    BY BoundsOK DEF TypeOK, Prompt
<1>2. /\ p.in = parser.in /\ p.cached = parser.cached /\ p.created = parser.created
      /\ p.out = parser.out /\ p.seen = parser.seen
    BY DEF Parser, TypeOK
<1>3. CASE ~u.given
    BY <1>1, <1>2, <1>3 DEF Hear, ParserFits, TypeOK, Parser
<1>4. /\ u \in Wire /\ (u.given => u.out = n)
      /\ u.in <= IF prompt.apart THEN prompt.uncached ELSE prompt.uncached + prompt.cached
      /\ CachedTokens(u) <= prompt.cached /\ u.details <= prompt.cached
      /\ u.created <= prompt.created
    BY WiresFit
<1>5. CASE u.given /\ dialect = "anthropic"
    <2>1. parser' = MessageDeltaUsage(p, u) /\ heard' = u
        BY <1>5 DEF Hear
    <2>2. u \in Wire /\ u.out = n
        BY <1>4, <1>5
    <2>3. /\ parser'.in = Said(u.in, parser.in)
          /\ parser'.cached = Said(u.details, parser.cached)
          /\ parser'.created = Said(u.created, parser.created)
          /\ parser'.out = Said(n, parser.out)
          /\ parser'.seen <=> parser.seen \/ u.in > 0 \/ n > 0
          /\ parser'.text = p.text
        BY <1>2, <2>1, <2>2 DEF MessageDeltaUsage, Said, Wire, Parser
    <2>4. parser' \in Parser
        BY <2>1, <2>2 DEF MessageDeltaUsage, Said, Wire, Parser
    <2> QED BY <1>1, <1>4, <2>1, <2>2, <2>3, <2>4 DEF ParserFits, Said, Wire, TypeOK, Parser
<1>6. CASE u.given /\ dialect # "anthropic"
    <2>1. parser' = SetUsage(p, u) /\ heard' = u
        BY <1>6 DEF Hear
    <2>2. CachedTokens(u) \in Nat
        BY <1>4 DEF CachedTokens, Wire
    <2>3. u \in Wire /\ u.out = n
        BY <1>4, <1>6
    <2>4. /\ parser'.in = u.in /\ parser'.cached = CachedTokens(u)
          /\ parser'.created = parser.created /\ parser'.out = n
          /\ parser'.seen /\ parser'.text = p.text
        BY <1>2, <2>1, <2>3 DEF SetUsage, Parser
    <2>5. parser' \in Parser
        BY <2>1, <2>2, <2>3 DEF SetUsage, Wire, Parser
    <2> QED BY <1>1, <1>4, <2>1, <2>3, <2>4, <2>5 DEF ParserFits
<1> QED BY <1>3, <1>5, <1>6

\* A step that reads a chunk keeps the invariant, if it leaves the parser's counts and
\* the times in order.
LEMMA ChunkStep ==
    ASSUME BillingInv, streaming, pc \notin {"parsed", "done"},
           UNCHANGED <<upstream, event, row>>,
           chunks' = chunks + 1,
           pc' \in {"open", "told", "over", "counted"},
           made' \in made..MaxMade,
           parser' \in Parser, heard' \in Wire,
           parser'.in <= IF prompt.apart THEN prompt.uncached
                                         ELSE prompt.uncached + prompt.cached,
           parser'.cached <= prompt.cached,
           parser'.created <= prompt.created,
           parser'.out <= made',
           heard'.out > 0 => parser'.seen /\ parser'.out > 0,
           \/ parser'.text = parser.text /\ UNCHANGED times
           \/ Mark /\ (dialect = "gemini" => parser'.text # NoText)
    PROVE  BillingInv'
<1>0. /\ TypeOK /\ PromptFits /\ ParserFits /\ EventFits /\ RowFits /\ GeminiTimes
      /\ TimesOrdered /\ NothingBilledTwice
    BY DEF BillingInv
<1>1. prompt' = prompt /\ dialect' = dialect /\ streaming' = streaming
    BY DEF upstream
<1>2. made \in Nat /\ made' \in 0..MaxMade /\ made <= made'
    BY <1>0, BoundsOK DEF TypeOK
<1>3. /\ chunks \in Nat /\ first \in 0..chunks /\ last \in 0..chunks
      /\ (first = 0 <=> last = 0) /\ first <= last
      /\ (dialect = "gemini" => (first = 0 <=> parser.text = NoText))
    BY <1>0 DEF TypeOK, TimesOrdered, GeminiTimes
<1>4. /\ first' \in 0..chunks' /\ last' \in 0..chunks' /\ chunks' \in Nat
      /\ (first' = 0 <=> last' = 0) /\ first' <= last'
      /\ (dialect = "gemini" => (first' = 0 <=> parser'.text = NoText))
    <2>1. CASE parser'.text = parser.text /\ UNCHANGED times
        BY <1>3, <2>1 DEF times
    <2>2. CASE Mark /\ (dialect = "gemini" => parser'.text # NoText)
        BY <1>3, <2>2 DEF Mark
    <2> QED BY <2>1, <2>2
<1>5. TypeOK'
    BY <1>0, <1>1, <1>2, <1>4 DEF TypeOK
<1>6. ParserFits'
    BY <1>1 DEF ParserFits
<1>7. EventFits'
    <2>1. event.use = NoUsage
        BY <1>0 DEF EventFits
    <2>2. ContextSize(NoUsage) = 0 /\ NoUsage.output = 0
        BY DEF ContextSize, NoUsage
    <2>3. prompt.uncached \in Nat /\ prompt.cached \in Nat /\ prompt.created \in Nat
        BY <1>0, BoundsOK DEF TypeOK, Prompt
    <2> QED BY <1>1, <1>2, <2>1, <2>2, <2>3 DEF EventFits, ContextSize
<1>8. RowFits' /\ NothingBilledTwice' /\ EstimateFillsIn'
    BY <1>0, <1>1, <1>2 DEF RowFits, NothingBilledTwice, EstimateFillsIn, ContextSize, NoUsage, TypeOK
<1> QED BY <1>0, <1>1, <1>4, <1>5, <1>6, <1>7, <1>8
        DEF BillingInv, PromptFits, GeminiTimes, TimesOrdered

LEMMA StepMessageStart ==
    ASSUME BillingInv, MessageStart
    PROVE  BillingInv'
<1>0. TypeOK /\ ParserFits
    BY DEF BillingInv
<1>1. PICK u \in Wires(0) : /\ parser' = MessageStartUsage(parser, u)
                            /\ heard' = IF u.given THEN u ELSE heard
    BY DEF MessageStart
<1>2. /\ u \in Wire /\ (u.given => u.out = 0)
      /\ u.in <= IF prompt.apart THEN prompt.uncached ELSE prompt.uncached + prompt.cached
      /\ u.details <= prompt.cached /\ u.created <= prompt.created
    BY <1>0, WiresFit
<1>3. /\ parser'.in = Said(u.in, parser.in)
      /\ parser'.cached = Said(u.details, parser.cached)
      /\ parser'.created = Said(u.created, parser.created)
      /\ parser'.out = parser.out /\ (parser.seen => parser'.seen)
      /\ parser'.text = parser.text
      /\ parser' \in Parser
    BY <1>0, <1>1, <1>2 DEF MessageStartUsage, Said, Parser, Wire, TypeOK
<1>4. /\ parser'.in <= IF prompt.apart THEN prompt.uncached
                                       ELSE prompt.uncached + prompt.cached
      /\ parser'.cached <= prompt.cached
      /\ parser'.created <= prompt.created
      /\ parser'.out <= made
      /\ heard' \in Wire
      /\ heard'.out > 0 => parser'.seen /\ parser'.out > 0
    BY <1>0, <1>1, <1>2, <1>3 DEF MessageStart, ParserFits, Said, TypeOK
<1>5. made' \in made..MaxMade /\ made' = made /\ UNCHANGED times
    BY <1>0, BoundsOK DEF MessageStart, TypeOK
<1> QED BY <1>3, <1>4, <1>5, ChunkStep DEF MessageStart

LEMMA StepHidden ==
    ASSUME BillingInv, BlockStart \/ HiddenDelta
    PROVE  BillingInv'
<1>1. TypeOK /\ ParserFits /\ streaming
    BY DEF BillingInv, BlockStart, HiddenDelta
<1>2. /\ parser' = parser /\ heard' = heard /\ made' \in made..MaxMade
      /\ parser \in Parser /\ heard \in Wire
    BY <1>1, BoundsOK DEF BlockStart, HiddenDelta, TypeOK
<1>3. /\ parser.in <= IF prompt.apart THEN prompt.uncached
                                      ELSE prompt.uncached + prompt.cached
      /\ parser.cached <= prompt.cached
      /\ parser.created <= prompt.created
      /\ parser.out <= made'
      /\ heard.out > 0 => parser.seen /\ parser.out > 0
    BY <1>1, <1>2, BoundsOK DEF ParserFits, TypeOK, Parser
<1>4. Mark /\ dialect # "gemini" /\ chunks' = chunks + 1 /\ pc' = "open" /\ pc = "open"
      /\ UNCHANGED <<upstream, event, row>>
    BY DEF BlockStart, HiddenDelta
<1> QED BY <1>1, <1>2, <1>3, <1>4, ChunkStep

LEMMA StepSay ==
    ASSUME BillingInv, Say
    PROVE  BillingInv'
<1>0. TypeOK /\ ParserFits
    BY DEF BillingInv
<1>1. PICK rune \in {"cjk", "other"}, u \in ChunkWires(made + 1) :
          Hear([parser EXCEPT !.text[rune] = @ + 1], u)
    BY DEF Say
<1> DEFINE p == [parser EXCEPT !.text[rune] = @ + 1]
<1>2. p \in Parser /\ p = [parser EXCEPT !.text = p.text] /\ p.text # NoText
    BY <1>0 DEF TypeOK, Parser, Text, NoText
<1>3. u \in Wires(made + 1)
    BY DEF ChunkWires, Wires
<1>4. made + 1 \in Nat /\ made + 1 \in made..MaxMade /\ made <= made + 1
    BY <1>0, BoundsOK DEF Say, TypeOK
<1> HIDE DEF p
<1>5. /\ parser' \in Parser /\ heard' \in Wire
      /\ parser'.text = p.text
      /\ parser'.in <= IF prompt.apart THEN prompt.uncached
                                       ELSE prompt.uncached + prompt.cached
      /\ parser'.cached <= prompt.cached
      /\ parser'.created <= prompt.created
      /\ parser'.out <= made + 1
      /\ heard'.out > 0 => parser'.seen /\ parser'.out > 0
    <2>1. streaming /\ Hear(p, u)
        BY <1>1 DEF Say, p
    <2> QED BY <1>0, <1>2, <1>3, <1>4, <2>1, HearFits
<1> QED BY <1>2, <1>4, <1>5, ChunkStep DEF Say

\* A chunk without text.
LEMMA StepNoText ==
    ASSUME BillingInv, streaming, pc \in {"open", "told", "over"},
           NEW n \in made..MaxMade, made' = n,
           NEW u \in Wires(n), Hear(parser, u),
           UNCHANGED <<upstream, event, row>>,
           chunks' = chunks + 1,
           pc' \in {"open", "told", "over", "counted"},
           UNCHANGED times \/ (dialect # "gemini" /\ Mark)
    PROVE  BillingInv'
<1>0. TypeOK /\ ParserFits
    BY DEF BillingInv
<1>1. n \in Nat /\ made <= n /\ made' \in made..MaxMade
    BY <1>0, BoundsOK DEF TypeOK
<1>2. parser \in Parser /\ parser = [parser EXCEPT !.text = parser.text]
    BY <1>0 DEF TypeOK, Parser
<1>3. /\ parser' \in Parser /\ heard' \in Wire
      /\ parser'.text = parser.text
      /\ parser'.in <= IF prompt.apart THEN prompt.uncached
                                       ELSE prompt.uncached + prompt.cached
      /\ parser'.cached <= prompt.cached
      /\ parser'.created <= prompt.created
      /\ parser'.out <= n
      /\ heard'.out > 0 => parser'.seen /\ parser'.out > 0
    BY <1>0, <1>1, <1>2, HearFits
<1> QED BY <1>1, <1>3, ChunkStep

LEMMA StepToolCall ==
    ASSUME BillingInv, ToolCall
    PROVE  BillingInv'
<1>1. PICK u \in ChunkWires(made + 1) : Hear(parser, u)
    BY DEF ToolCall
<1>2. u \in Wires(made + 1)
    BY DEF ChunkWires, Wires
<1>3. made + 1 \in made..MaxMade
    BY BoundsOK DEF ToolCall, BillingInv, TypeOK
<1> QED BY <1>1, <1>2, <1>3, StepNoText DEF ToolCall

LEMMA StepFinish ==
    ASSUME BillingInv, Finish \/ UsageChunk
    PROVE  BillingInv'
<1>1. PICK u \in Wires(made) : Hear(parser, u)
    BY DEF Finish, UsageChunk
<1>2. made \in made..MaxMade
    BY BoundsOK DEF BillingInv, TypeOK
<1> QED BY <1>1, <1>2, StepNoText DEF Finish, UsageChunk

LEMMA StepTextDone ==
    ASSUME BillingInv, TextDone
    PROVE  BillingInv'
<1>0. TypeOK /\ ParserFits
    BY DEF BillingInv
<1>1. parser' = [parser EXCEPT !.text = [cjk |-> 2 * @.cjk, other |-> 2 * @.other]]
    BY DEF TextDone
<1>2. /\ parser' \in Parser
      /\ parser'.in = parser.in /\ parser'.cached = parser.cached
      /\ parser'.created = parser.created /\ parser'.out = parser.out
      /\ parser'.seen = parser.seen
    BY <1>0, <1>1 DEF TypeOK, Parser, Text
<1>3. made' \in made..MaxMade /\ made' = made /\ heard' = heard /\ heard \in Wire
    BY <1>0, BoundsOK DEF TextDone, TypeOK
<1>4. /\ parser'.in <= IF prompt.apart THEN prompt.uncached
                                       ELSE prompt.uncached + prompt.cached
      /\ parser'.cached <= prompt.cached
      /\ parser'.created <= prompt.created
      /\ parser'.out <= made'
      /\ heard'.out > 0 => parser'.seen /\ parser'.out > 0
    BY <1>0, <1>2, <1>3 DEF ParserFits, TextDone
<1> QED BY <1>2, <1>3, <1>4, ChunkStep DEF TextDone

----------------------------------------------------------------------------
(* The event *)

\* Counts within the upstream's become an event within them: the cached tokens are
\* taken out of a prompt that holds them.
LEMMA DisjointFits ==
    ASSUME TypeOK, NEW in \in Nat, NEW cached \in Nat, NEW out \in Nat, NEW all \in Nat,
           in <= prompt.uncached + prompt.cached, cached <= prompt.cached
    PROVE  /\ Disjoint(in, cached, 0, out, all) \in Usage
           /\ ContextSize(Disjoint(in, cached, 0, out, all)) <=
                  prompt.uncached + prompt.cached + prompt.created
           /\ Disjoint(in, cached, 0, out, all).output = out
<1>1. prompt.uncached \in Nat /\ prompt.cached \in Nat /\ prompt.created \in Nat
    BY BoundsOK DEF TypeOK, Prompt
<1>2. Less(in, cached) \in Nat /\ Less(in, cached) + cached <= prompt.uncached + prompt.cached
    BY <1>1 DEF Less
<1> QED BY <1>1, <1>2 DEF Disjoint, Usage, ContextSize

LEMMA SummedFits ==
    ASSUME NEW u \in Usage
    PROVE  /\ Summed(u) \in Usage
           /\ ContextSize(Summed(u)) = ContextSize(u)
           /\ Summed(u).output = u.output
    BY DEF Summed, Sum, Usage, ContextSize

LEMMA FinalizeFits ==
    ASSUME TypeOK, PromptFits, ParserFits, streaming
    PROVE  /\ Finalize(parser) \in Usage
           /\ ContextSize(Finalize(parser)) <=
                  prompt.uncached + prompt.cached + prompt.created
           /\ Finalize(parser).output <= made
           /\ heard.out > 0 => Finalize(parser).output > 0
<1>1. prompt.uncached \in Nat /\ prompt.cached \in Nat /\ prompt.created \in Nat
      /\ made \in Nat
    BY BoundsOK DEF TypeOK, Prompt
<1>2. /\ parser.in \in Nat /\ parser.out \in Nat /\ parser.all \in Nat
      /\ parser.cached \in Nat /\ parser.created \in Nat /\ heard.out \in Nat
    BY DEF TypeOK, Parser, Wire
<1>3. /\ parser.cached <= prompt.cached /\ parser.created <= prompt.created
      /\ parser.out <= made /\ parser.in <= prompt.uncached + prompt.cached
      /\ heard.out > 0 => parser.seen /\ parser.out > 0
      /\ dialect = "anthropic" => parser.in <= prompt.uncached
    BY <1>1, <1>2 DEF ParserFits, PromptFits
<1>4. CASE ~parser.seen
    <2>1. Finalize(parser) = NoUsage
        BY <1>4 DEF Finalize
    <2> QED BY <1>1, <1>3, <1>4, <2>1 DEF NoUsage, Usage, ContextSize
<1>5. CASE parser.seen /\ dialect = "anthropic"
    <2> DEFINE u == [input |-> parser.in, output |-> parser.out, cached |-> parser.cached,
                     created |-> parser.created, total |-> 0]
    <2>1. Finalize(parser) = Summed(u)
        BY <1>5 DEF Finalize, AnthropicUsage
    <2>2. u \in Usage /\ u.output = parser.out
          /\ ContextSize(u) = parser.in + parser.cached + parser.created
        BY <1>2 DEF Usage, ContextSize
    <2> HIDE DEF u
    <2> QED BY <1>1, <1>2, <1>3, <1>5, <2>1, <2>2, SummedFits
<1>6. CASE parser.seen /\ dialect # "anthropic"
    <2> DEFINE u == Disjoint(parser.in, parser.cached, 0, parser.out, parser.all)
    <2>1. Finalize(parser) \in {u, Summed(u)}
        BY <1>6 DEF Finalize, GeminiUsage, TypeOK, Dialect
    <2>2. /\ u \in Usage /\ u.output = parser.out
          /\ ContextSize(u) <= prompt.uncached + prompt.cached + prompt.created
        BY <1>2, <1>3, DisjointFits
    <2> HIDE DEF u
    <2> QED BY <1>2, <1>3, <2>1, <2>2, SummedFits
<1> QED BY <1>4, <1>5, <1>6

LEMMA BodyFits ==
    ASSUME TypeOK, PromptFits, NEW n \in Nat, NEW u \in Wires(n)
    PROVE  /\ ParseNonStream(u) \in Usage
           /\ ContextSize(ParseNonStream(u)) <=
                  prompt.uncached + prompt.cached + prompt.created
           /\ ParseNonStream(u).output = u.out
<1>1. prompt.uncached \in Nat /\ prompt.cached \in Nat /\ prompt.created \in Nat
    BY BoundsOK DEF TypeOK, Prompt
<1>2. /\ u \in Wire /\ (u.given => u.out = n) /\ (~u.given => u = NoWire)
      /\ u.in <= IF prompt.apart THEN prompt.uncached ELSE prompt.uncached + prompt.cached
      /\ CachedTokens(u) <= prompt.cached
      /\ u.details <= prompt.cached
      /\ u.created <= prompt.created
    BY WiresFit
<1>3. /\ u.in \in Nat /\ u.out \in Nat /\ u.all \in Nat /\ u.details \in Nat
      /\ u.created \in Nat /\ CachedTokens(u) \in Nat
      /\ u.in <= prompt.uncached + prompt.cached
      /\ dialect = "anthropic" => u.in <= prompt.uncached
    BY <1>1, <1>2 DEF Wire, CachedTokens, PromptFits
<1>4. CASE ~u.given
    BY <1>1, <1>2, <1>4 DEF ParseNonStream, NoUsage, NoWire, Usage, ContextSize
<1>5. CASE u.given /\ dialect = "anthropic"
    <2> DEFINE v == [input |-> u.in, output |-> u.out, cached |-> u.details,
                     created |-> u.created, total |-> 0]
    <2>1. ParseNonStream(u) = Summed(v)
        BY <1>5 DEF ParseNonStream, AnthropicBody
    <2>2. v \in Usage /\ v.output = u.out
          /\ ContextSize(v) = u.in + u.details + u.created
        BY <1>3 DEF Usage, ContextSize
    <2> HIDE DEF v
    <2> QED BY <1>1, <1>2, <1>3, <1>5, <2>1, <2>2, SummedFits
<1>6. CASE u.given /\ dialect # "anthropic"
    <2>1. ParseNonStream(u) = Disjoint(u.in, CachedTokens(u), 0, u.out, u.all)
        BY <1>6 DEF ParseNonStream
    <2> QED BY <1>2, <1>3, <2>1, DisjointFits
<1> QED BY <1>4, <1>5, <1>6

\* A step that makes the event keeps the invariant, if the event fits.
LEMMA EventStep ==
    ASSUME BillingInv, pc \notin {"parsed", "done"}, pc' = "parsed",
           UNCHANGED <<upstream, parser, times, chunks, row>>,
           made' \in 0..MaxMade, heard' \in Wire,
           event'.text \in Text, event'.use \in Usage,
           event' = [text |-> event'.text, use |-> event'.use],
           ContextSize(event'.use) <= prompt.uncached + prompt.cached + prompt.created,
           event'.use.output <= made',
           heard'.out > 0 => event'.use.output > 0,
           (streaming /\ UNCHANGED <<made, heard>>) \/ ~streaming
    PROVE  BillingInv'
<1>0. /\ TypeOK /\ PromptFits /\ ParserFits /\ EventFits /\ RowFits /\ GeminiTimes
      /\ TimesOrdered /\ NothingBilledTwice
    BY DEF BillingInv
<1>1. /\ prompt' = prompt /\ dialect' = dialect /\ streaming' = streaming
      /\ parser' = parser /\ first' = first /\ last' = last /\ chunks' = chunks /\ row' = row
    BY DEF upstream, times
<1>2. TypeOK'
    BY <1>0, <1>1 DEF TypeOK
<1>3. ParserFits'
    BY <1>0, <1>1 DEF ParserFits, TypeOK, Parser
<1>4. EventFits'
    BY <1>1 DEF EventFits, ContextSize
<1>5. RowFits' /\ EstimateFillsIn' /\ GeminiTimes' /\ TimesOrdered' /\ PromptFits'
    BY <1>0, <1>1 DEF RowFits, EstimateFillsIn, GeminiTimes, TimesOrdered, PromptFits
<1>6. NothingBilledTwice'
    <2>1. row.use = NoUsage
        BY <1>0 DEF RowFits
    <2>2. ContextSize(NoUsage) = 0 /\ NoUsage.output = 0
        BY DEF ContextSize, NoUsage
    <2>3. prompt.uncached \in Nat /\ prompt.cached \in Nat /\ prompt.created \in Nat
        BY <1>0, BoundsOK DEF TypeOK, Prompt
    <2> QED BY <1>1, <2>1, <2>2, <2>3 DEF NothingBilledTwice, ContextSize
<1> QED BY <1>2, <1>3, <1>4, <1>5, <1>6 DEF BillingInv

LEMMA StepClose ==
    ASSUME BillingInv, Close
    PROVE  BillingInv'
<1>0. TypeOK /\ PromptFits /\ ParserFits /\ streaming
    BY DEF BillingInv, Close
<1>1. event' = [text |-> parser.text, use |-> Finalize(parser)]
      /\ made' = made /\ heard' = heard
    BY DEF Close
<1>2. parser.text \in Text /\ made \in 0..MaxMade /\ heard \in Wire
    BY <1>0 DEF TypeOK, Parser
<1>3. event'.text = parser.text /\ event'.use = Finalize(parser)
    BY <1>1
<1> QED BY <1>0, <1>1, <1>2, <1>3, FinalizeFits, EventStep DEF Close

LEMMA StepBody ==
    ASSUME BillingInv, Body
    PROVE  BillingInv'
<1>0. TypeOK /\ PromptFits
    BY DEF BillingInv
<1>a. PICK n \in 1..MaxMade, c \in 0..MaxMade, o \in 0..MaxMade :
          /\ made' = n
          /\ \E u \in Wires(n) :
                /\ heard' = u
                /\ event' = [text |-> [cjk |-> c, other |-> o], use |-> ParseNonStream(u)]
    BY DEF Body
<1>1. PICK u \in Wires(n) :
          /\ made' = n /\ heard' = u
          /\ event' = [text |-> [cjk |-> c, other |-> o], use |-> ParseNonStream(u)]
    BY <1>a
<1>2. n \in Nat /\ n \in 0..MaxMade /\ [cjk |-> c, other |-> o] \in Text
    BY BoundsOK DEF Text
<1>3. u \in Wire /\ u.out <= n
    BY <1>0, <1>2, WiresFit DEF NoWire
<1>4. event'.text = [cjk |-> c, other |-> o] /\ event'.use = ParseNonStream(u)
    BY <1>1
<1>5. /\ event'.use \in Usage
      /\ ContextSize(event'.use) <= prompt.uncached + prompt.cached + prompt.created
      /\ event'.use.output = u.out
    BY <1>0, <1>2, <1>4, BodyFits
<1>6. event' = [text |-> event'.text, use |-> event'.use]
    BY <1>1, <1>4
<1>7. heard'.out > 0 => event'.use.output > 0
    BY <1>1, <1>5
<1> QED BY <1>1, <1>2, <1>3, <1>4, <1>5, <1>6, <1>7, EventStep DEF Body

LEMMA StepBrokenBody ==
    ASSUME BillingInv, BrokenBody
    PROVE  BillingInv'
<1>0. /\ TypeOK /\ ParserFits /\ EventFits /\ ~streaming /\ pc = "open"
      /\ event' = event /\ heard' = heard /\ made' \in 0..MaxMade
    BY DEF BillingInv, BrokenBody
<1>1. heard.out = 0 /\ event.use = NoUsage
    BY <1>0 DEF ParserFits, EventFits, NoWire
<1>2. event.use.output = 0 /\ event.use \in Usage /\ event.text \in Text
      /\ event = [text |-> event.text, use |-> event.use] /\ heard \in Wire
    BY <1>0, <1>1 DEF TypeOK, NoUsage
<1>3. ContextSize(event.use) <= prompt.uncached + prompt.cached + prompt.created
    BY <1>0 DEF EventFits
<1> QED BY <1>0, <1>1, <1>2, <1>3, BoundsOK, EventStep DEF BrokenBody

----------------------------------------------------------------------------
(* The trace *)

LEMMA StepTransform ==
    ASSUME BillingInv, Transform
    PROVE  BillingInv'
<1>0. /\ TypeOK /\ PromptFits /\ ParserFits /\ EventFits /\ GeminiTimes /\ TimesOrdered
    BY DEF BillingInv
<1> DEFINE u == Completed(event)
<1>1. PICK p \in Prices \cup {NoPrice} :
          row' = [use |-> u, estimated |-> Estimates(event), cost |-> Cost(p, u), price |-> p]
    BY DEF Transform
<1>2. event.text \in Text /\ event.use \in Usage /\ event.use.output \in Nat
      /\ Estimates(event) \in BOOLEAN
    BY <1>0 DEF TypeOK, Usage, Estimates
<1>3. /\ u \in Usage
      /\ u.input = event.use.input /\ u.cached = event.use.cached
      /\ u.created = event.use.created
      /\ ~Estimates(event) => u.output = event.use.output
      /\ Estimates(event) => u.output = Count(event.text)
    <2> DEFINE out   == IF Estimates(event) THEN Count(event.text) ELSE event.use.output
               total == IF event.use.total = 0 THEN event.use.input + out
                                               ELSE event.use.total
    <2>1. Count(event.text) \in Nat
        BY <1>2, CountType
    <2>2. out \in Nat /\ total \in Nat
        BY <1>2, <2>1 DEF Usage
    <2>3. u = [event.use EXCEPT !.output = out, !.total = total]
        BY DEF Completed
    <2>4. /\ Estimates(event) => out = Count(event.text)
          /\ ~Estimates(event) => out = event.use.output
        OBVIOUS
    <2> HIDE DEF out, total, u
    <2> QED BY <1>2, <2>2, <2>3, <2>4 DEF Usage
<1> HIDE DEF u
<1>4. p \in Price
    BY PricesOK DEF Price, NoPrice
<1>5. Cost(p, u) \in Nat
    BY <1>3, <1>4, CostType
<1>6. /\ prompt' = prompt /\ dialect' = dialect /\ streaming' = streaming /\ made' = made
      /\ parser' = parser /\ first' = first /\ last' = last /\ chunks' = chunks
      /\ heard' = heard /\ event' = event /\ pc = "parsed" /\ pc' = "done"
    BY DEF Transform, upstream, times
<1>7. row'.use = u /\ row'.estimated = Estimates(event)
    BY <1>1
<1>8. TypeOK'
    BY <1>0, <1>1, <1>2, <1>3, <1>5, <1>6 DEF TypeOK
<1>9. PromptFits' /\ ParserFits' /\ EventFits' /\ RowFits' /\ GeminiTimes' /\ TimesOrdered'
    BY <1>0, <1>6 DEF PromptFits, ParserFits, EventFits, ContextSize, RowFits, GeminiTimes,
                      TimesOrdered
<1>10. NothingBilledTwice'
    BY <1>0, <1>3, <1>6, <1>7 DEF NothingBilledTwice, EventFits, ContextSize
<1>11. EstimateFillsIn'
    <2>1. Estimates(event) => heard.out = 0
        BY <1>0, <1>6 DEF Estimates, EventFits, TypeOK, Wire
    <2>2. event.text # NoText => u.output > 0
        BY <1>2, <1>3, CountType DEF Estimates
    <2> QED BY <1>6, <1>7, <2>1, <2>2 DEF EstimateFillsIn
<1> QED BY <1>8, <1>9, <1>10, <1>11 DEF BillingInv

----------------------------------------------------------------------------

LEMMA BillingInit == Init => BillingInv
<1> SUFFICES ASSUME Init PROVE BillingInv
    OBVIOUS
<1>1. TypeOK
    BY BoundsOK DEF Init, TypeOK, Parser, Wire, Usage, Text, NoText, NoWire, NoUsage, NoPrice
<1>2. ContextSize(NoUsage) = 0 /\ NoUsage.output = 0
    BY DEF ContextSize, NoUsage
<1>3. prompt.uncached \in Nat /\ prompt.cached \in Nat /\ prompt.created \in Nat
    BY BoundsOK DEF Init, Prompt
<1>4. ParserFits
    BY <1>3 DEF Init, ParserFits, NoWire
<1> QED BY <1>1, <1>2, <1>3, <1>4
        DEF Init, BillingInv, PromptFits, EventFits, RowFits, GeminiTimes, TimesOrdered,
            NothingBilledTwice, EstimateFillsIn

\* No step from a state of the invariant leaves it.
LEMMA BillingStep == BillingInv /\ [Next]_vars => BillingInv'
<1> SUFFICES ASSUME BillingInv, [Next]_vars PROVE BillingInv'
    OBVIOUS
<1>1. CASE UNCHANGED vars
    BY <1>1 DEF vars, upstream, times, BillingInv, TypeOK, PromptFits, ParserFits, EventFits,
                RowFits, GeminiTimes, TimesOrdered, NothingBilledTwice, EstimateFillsIn,
                ContextSize
<1> QED BY <1>1, StepMessageStart, StepHidden, StepSay, StepToolCall, StepTextDone, StepFinish,
           StepClose, StepBody, StepBrokenBody, StepTransform
        DEF Next

\* The inductive invariant, on the way from the upstream's answer to the trace.
THEOREM BillingInvariant == Spec => []BillingInv
    BY BillingInit, BillingStep, PTL DEF Spec

\* The state of an answer keeps its types.
THEOREM TypeCorrect == Spec => []TypeOK
<1>1. BillingInv => TypeOK
    BY DEF BillingInv
<1> QED BY <1>1, BillingInvariant, PTL

\* Whatever the upstream says of its tokens, in whichever dialect and at whatever point the
\* answer ends, no trace charges a prompt token twice, nor output that was not generated.
THEOREM ChargesAreDisjoint == Spec => []NothingBilledTwice
<1>1. BillingInv => NothingBilledTwice
    BY DEF BillingInv
<1> QED BY <1>1, BillingInvariant, PTL

\* An estimate stands for a count that never arrived, and a text is never worth nothing.
THEOREM EstimatesFillIn == Spec => []EstimateFillsIn
<1>1. BillingInv => EstimateFillsIn
    BY DEF BillingInv
<1> QED BY <1>1, BillingInvariant, PTL

\* Every parser stamps the first and the last content together and in order.
THEOREM ContentTimesOrdered == Spec => []TimesOrdered
<1>1. BillingInv => TimesOrdered
    BY DEF BillingInv
<1> QED BY <1>1, BillingInvariant, PTL

----------------------------------------------------------------------------
(* The bill: what the trace costs is what the table asks for the true tokens *)

\* One rate, as Effective computes it: the only tier at the top sets it, or the base.
LEMMA RateOfTop ==
    ASSUME NEW p \in Price, NEW size \in Nat, NEW t \in TierRate,
           NEW f \in {"input", "output", "cacheRead", "cacheWrite"},
           {x \in {y \in p.tiers : y.type = "context" /\ y.size < size} :
               \A o \in {y \in p.tiers : y.type = "context" /\ y.size < size} :
                   o.size <= x.size} = {t}
    PROVE  Rate(p, size, f) = IF t[f] = 0 THEN p[f] ELSE t[f]
<1>1. CASE t[f] = 0
    BY <1>1 DEF Rate
<1>2. CASE t[f] # 0
    <2>1. {t[f]} \ {0} = {t[f]}
        BY <1>2
    <2>2. (CHOOSE r \in {t[f]} : TRUE) = t[f]
        OBVIOUS
    <2> QED BY <2>1, <2>2, <1>2 DEF Rate
<1> QED BY <1>1, <1>2

LEMMA EffectiveIsRate ==
    ASSUME NEW p \in Prices \cup {NoPrice}, NEW size \in Nat
    PROVE  /\ p \in Price
           /\ Effective(p, size).input = Rate(p, size, "input")
           /\ Effective(p, size).output = Rate(p, size, "output")
           /\ Effective(p, size).cacheRead = Rate(p, size, "cacheRead")
           /\ Effective(p, size).cacheWrite = Rate(p, size, "cacheWrite")
<1> DEFINE below == {t \in p.tiers : t.type = "context" /\ t.size < size}
           top   == {t \in below : \A o \in below : o.size <= t.size}
           crossed == {t \in p.tiers : t.type = "context" /\ size > t.size}
           picked  == CHOOSE t \in crossed : \A o \in crossed : o.size <= t.size
<1>1. p \in Price /\ \A s, t \in p.tiers : s.size = t.size => s = t
    BY PricesOK DEF Price, NoPrice
<1>2. crossed \subseteq TierRate /\ (\A t \in crossed : size > t.size) /\ below = crossed
    BY <1>1 DEF Price, TierRate
<1>3. CASE crossed = {}
    <2>1. Effective(p, size) = p
        BY <1>3 DEF Effective
    <2>2. below = {} /\ top = {}
        BY <1>2, <1>3
    <2>3. ASSUME NEW f \in {"input", "output", "cacheRead", "cacheWrite"}
          PROVE  Rate(p, size, f) = p[f]
        BY <2>2 DEF Rate
    <2> QED BY <1>1, <2>1, <2>3 DEF Price
<1>4. CASE crossed # {}
    <2> DEFINE best(t) == t \in crossed /\ \A o \in crossed : o.size <= t.size
    <2>1. \E t \in crossed : \A o \in crossed : o.size <= t.size
        BY <1>2, <1>4, HighestTier
    <2>2. picked \in crossed /\ \A o \in crossed : o.size <= picked.size
        BY <2>1
    <2>3. Effective(p, size) = [p EXCEPT !.input      = Said(picked.input, @),
                                         !.output     = Said(picked.output, @),
                                         !.cacheRead  = Said(picked.cacheRead, @),
                                         !.cacheWrite = Said(picked.cacheWrite, @)]
        BY <1>4 DEF Effective
    <2>4. crossed \subseteq p.tiers
        OBVIOUS
    <2> HIDE DEF picked, crossed
    <2>5. top = {picked}
        <3>1. \A t \in crossed : (\A o \in crossed : o.size <= t.size) => t = picked
            BY <1>1, <1>2, <2>2, <2>4 DEF TierRate
        <3> QED BY <1>2, <2>2, <3>1
    <2>6. picked \in TierRate
        BY <1>2, <2>2
    <2>7. ASSUME NEW f \in {"input", "output", "cacheRead", "cacheWrite"}
          PROVE  Rate(p, size, f) = IF picked[f] = 0 THEN p[f] ELSE picked[f]
        BY <1>1, <2>5, <2>6, RateOfTop
    <2>8. /\ Rate(p, size, "input") = Said(picked.input, p.input)
          /\ Rate(p, size, "output") = Said(picked.output, p.output)
          /\ Rate(p, size, "cacheRead") = Said(picked.cacheRead, p.cacheRead)
          /\ Rate(p, size, "cacheWrite") = Said(picked.cacheWrite, p.cacheWrite)
        BY <2>6, <2>7 DEF Said, TierRate
    <2> QED BY <1>1, <2>3, <2>8 DEF Price
<1> QED BY <1>1, <1>3, <1>4

\* The cost of a usage that tells the truth is what the table asks for the truth.
LEMMA TruthCosts ==
    ASSUME NEW p \in Prices \cup {NoPrice}, NEW u \in Usage,
           u.input = prompt.uncached, u.cached = prompt.cached,
           u.created = prompt.created, u.output = made
    PROVE  Cost(p, u) = Owed(p)
<1> DEFINE size == prompt.uncached + prompt.cached + prompt.created
           e == Effective(p, size)
<1>1. ContextSize(u) = size /\ size \in Nat
    BY DEF ContextSize, Usage
<1>2. /\ p \in Price
      /\ e.input = Rate(p, size, "input") /\ e.output = Rate(p, size, "output")
      /\ e.cacheRead = Rate(p, size, "cacheRead")
      /\ e.cacheWrite = Rate(p, size, "cacheWrite")
    BY <1>1, EffectiveIsRate
<1>3. e.input \in Nat /\ e.output \in Nat /\ e.cacheRead \in Nat /\ e.cacheWrite \in Nat
    BY <1>1, <1>2, EffectiveRates
<1> HIDE DEF size, e
<1>4. /\ Said(e.cacheRead, e.input) = IF e.cacheRead = 0 THEN e.input ELSE e.cacheRead
      /\ Said(e.cacheWrite, e.input) = IF e.cacheWrite = 0 THEN e.input ELSE e.cacheWrite
    BY <1>3 DEF Said
<1>5. Cost(p, u) = u.input * e.input + u.cached * Said(e.cacheRead, e.input)
                   + u.created * Said(e.cacheWrite, e.input) + u.output * e.output
    BY <1>1 DEF Cost, e
<1>6. Owed(p) = prompt.uncached * e.input
                + prompt.cached * (IF e.cacheRead = 0 THEN e.input ELSE e.cacheRead)
                + prompt.created * (IF e.cacheWrite = 0 THEN e.input ELSE e.cacheWrite)
                + made * e.output
    BY <1>2, Zenon DEF Owed, size
<1> QED BY <1>4, <1>5, <1>6

\* A payload that is given tells all there is, under some name.
LEMMA WiresExact ==
    ASSUME TypeOK, NEW n \in Nat, NEW u \in Wires(n), u.given
    PROVE  /\ u.in = IF prompt.apart THEN prompt.uncached ELSE prompt.uncached + prompt.cached
           /\ CachedTokens(u) = prompt.cached
           /\ dialect # "chat" => u.details = prompt.cached
           /\ u.created = prompt.created
           /\ u.out = n
<1>1. prompt.uncached \in Nat /\ prompt.cached \in Nat /\ prompt.created \in Nat
    BY BoundsOK DEF TypeOK, Prompt
<1>2. PICK name \in Names, total \in Totals : u = Payload(n, name, total)
    BY DEF Wires, NoWire
<1>3. name \in {"details", "hit", "both"} /\ (dialect # "chat" => name = "details")
    BY DEF Names
<1> QED BY <1>1, <1>2, <1>3 DEF Payload, CachedTokens

\* What the parser has to know once it has heard.
Exact(p, h) ==
    /\ p.in = IF prompt.apart THEN prompt.uncached ELSE prompt.uncached + prompt.cached
    /\ p.cached = prompt.cached
    /\ dialect = "anthropic" => p.created = prompt.created
    /\ p.out = h.out
    /\ p.seen \/ (h.out = 0 /\ prompt.uncached = 0 /\ prompt.cached = 0 /\ prompt.created = 0)

\* It knows it after any payload, whatever it had before: nothing is kept of an earlier one.
LEMMA HearExact ==
    ASSUME TypeOK, PromptFits, ParserFits, CountsExact, streaming,
           NEW n \in Nat, made <= n, n > 0 \/ dialect = "chat", NEW u \in Wires(n),
           NEW p \in Parser, p = [parser EXCEPT !.text = p.text],
           Hear(p, u), Regular, heard'.given
    PROVE  Exact(parser', heard')
<1>1. prompt.uncached \in Nat /\ prompt.cached \in Nat /\ prompt.created \in Nat
      /\ made \in Nat
    BY BoundsOK DEF TypeOK, Prompt
<1>2. /\ p.in = parser.in /\ p.cached = parser.cached /\ p.created = parser.created
      /\ p.out = parser.out /\ p.seen = parser.seen
    BY DEF Parser, TypeOK
<1>3. CASE ~u.given
    BY <1>2, <1>3 DEF Hear, CountsExact, Exact
<1>4. u \in Wire
    BY WiresFit
<1>5. CASE u.given /\ dialect = "anthropic"
    <2>1. parser' = MessageDeltaUsage(p, u) /\ heard' = u
        BY <1>5 DEF Hear
    <2>2. /\ parser'.in = Said(u.in, parser.in)
          /\ parser'.cached = Said(u.details, parser.cached)
          /\ parser'.created = Said(u.created, parser.created)
          /\ parser'.out = Said(u.out, parser.out)
          /\ parser'.seen <=> parser.seen \/ u.in > 0 \/ u.out > 0
        BY <1>2, <2>1, <1>4 DEF MessageDeltaUsage, Said, Wire, Parser
    <2>3. /\ u.in = prompt.uncached /\ u.details = prompt.cached
          /\ u.created = prompt.created /\ u.out = n /\ n > 0
        BY <1>5, WiresExact DEF PromptFits
    <2>4. parser.in <= prompt.uncached /\ parser.cached <= prompt.cached
          /\ parser.created <= prompt.created /\ parser.in \in Nat /\ parser.cached \in Nat
          /\ parser.created \in Nat
        BY <1>5 DEF ParserFits, PromptFits, TypeOK, Parser
    <2> QED BY <1>1, <1>5, <2>1, <2>2, <2>3, <2>4 DEF Exact, Said, PromptFits
<1>6. CASE u.given /\ dialect # "anthropic"
    <2>1. parser' = SetUsage(p, u) /\ heard' = u
        BY <1>6 DEF Hear
    <2>2. /\ parser'.in = u.in /\ parser'.cached = CachedTokens(u)
          /\ parser'.out = u.out /\ parser'.seen
        BY <2>1 DEF SetUsage, Parser
    <2> QED BY <1>6, <2>1, <2>2, WiresExact DEF Exact
<1> QED BY <1>3, <1>5, <1>6

LEMMA MessageStartExact ==
    ASSUME TypeOK, PromptFits, ParserFits, CountsExact, MessageStart, dialect = "anthropic",
           parser.out = 0, Regular, heard'.given
    PROVE  Exact(parser', heard')
<1>1. prompt.uncached \in Nat /\ prompt.cached \in Nat /\ prompt.created \in Nat
    BY BoundsOK DEF TypeOK, Prompt
<1>2. PICK u \in Wires(0) : /\ parser' = MessageStartUsage(parser, u)
                            /\ heard' = IF u.given THEN u ELSE heard
    BY DEF MessageStart
<1>3. u \in Wire /\ (~u.given => u = NoWire)
    BY WiresFit
<1>4. /\ parser'.in = Said(u.in, parser.in)
      /\ parser'.cached = Said(u.details, parser.cached)
      /\ parser'.created = Said(u.created, parser.created)
      /\ parser'.out = parser.out
      /\ parser'.seen <=> parser.seen \/ u.in > 0 \/ u.details > 0 \/ u.created > 0
    BY <1>2, <1>3 DEF MessageStartUsage, Said, Wire, Parser, TypeOK
<1>5. CASE ~u.given
    BY <1>2, <1>3, <1>4, <1>5 DEF NoWire, Said, CountsExact, Exact, MessageStart
<1>6. CASE u.given
    <2>1. /\ u.in = prompt.uncached /\ u.details = prompt.cached
          /\ u.created = prompt.created /\ u.out = 0
        BY <1>6, WiresExact DEF PromptFits
    <2>2. parser.in <= prompt.uncached /\ parser.cached <= prompt.cached
          /\ parser.created <= prompt.created /\ parser.in \in Nat /\ parser.cached \in Nat
          /\ parser.created \in Nat
        BY DEF ParserFits, PromptFits, TypeOK, Parser
    <2> QED BY <1>1, <1>2, <1>4, <1>6, <2>1, <2>2 DEF Exact, Said, PromptFits
<1> QED BY <1>5, <1>6

LEMMA StepCounts ==
    ASSUME BillInv, Next
    PROVE  CountsExact'
<1>0. /\ TypeOK /\ PromptFits /\ ParserFits /\ CountsExact /\ StartsFresh
    BY DEF BillInv, BillingInv
<1>1. /\ prompt' = prompt /\ dialect' = dialect /\ streaming' = streaming
      /\ Regular' = Regular
    BY DEF Next, MessageStart, BlockStart, Say, ToolCall, HiddenDelta, TextDone, Finish,
           UsageChunk, Close, Body, BrokenBody, Transform, upstream, Regular
<1>2. (streaming /\ Regular /\ heard'.given => Exact(parser', heard')) => CountsExact'
    BY <1>1 DEF CountsExact, Exact
<1>3. SUFFICES ASSUME streaming, Regular, heard'.given
               PROVE  Exact(parser', heard')
    BY <1>2
<1>4. made \in Nat /\ parser \in Parser /\ parser = [parser EXCEPT !.text = parser.text]
    BY <1>0, BoundsOK DEF TypeOK, Parser
<1>5. CASE MessageStart
    <2>1. parser.out = 0
        BY <1>0, <1>4, <1>5 DEF StartsFresh, MessageStart, ParserFits, Parser
    <2> QED BY <1>0, <1>3, <1>5, <2>1, MessageStartExact DEF StartsFresh, MessageStart
<1>6. CASE Say
    <2>1. PICK rune \in {"cjk", "other"}, u \in ChunkWires(made + 1) :
              Hear([parser EXCEPT !.text[rune] = @ + 1], u)
        BY <1>6 DEF Say
    <2> DEFINE p == [parser EXCEPT !.text[rune] = @ + 1]
    <2>2. p \in Parser /\ p = [parser EXCEPT !.text = p.text]
        BY <1>4 DEF Parser, Text
    <2>3. u \in Wires(made + 1)
        BY DEF ChunkWires, Wires
    <2>4. Hear(p, u)
        BY <2>1
    <2> HIDE DEF p
    <2> QED BY <1>0, <1>3, <1>4, <2>2, <2>3, <2>4, HearExact
<1>7. CASE ToolCall
    <2>1. PICK u \in ChunkWires(made + 1) : Hear(parser, u)
        BY <1>7 DEF ToolCall
    <2>2. u \in Wires(made + 1)
        BY DEF ChunkWires, Wires
    <2> QED BY <1>0, <1>3, <1>4, <2>1, <2>2, HearExact
<1>8. CASE Finish \/ UsageChunk
    <2>1. PICK u \in Wires(made) : Hear(parser, u)
        BY <1>8 DEF Finish, UsageChunk
    <2>2. made > 0 \/ dialect = "chat"
        BY <1>8 DEF Finish, UsageChunk
    <2> QED BY <1>0, <1>3, <1>4, <2>1, <2>2, HearExact
<1>9. CASE TextDone
    <2>1. /\ parser'.in = parser.in /\ parser'.cached = parser.cached
          /\ parser'.created = parser.created /\ parser'.out = parser.out
          /\ parser'.seen = parser.seen /\ heard' = heard
        BY <1>4, <1>9 DEF TextDone, Parser
    <2> QED BY <1>0, <1>3, <2>1 DEF CountsExact, Exact
<1>10. CASE BlockStart \/ HiddenDelta \/ Close \/ Transform
    <2>1. parser' = parser /\ heard' = heard
        BY <1>10 DEF BlockStart, HiddenDelta, Close, Transform
    <2> QED BY <1>0, <1>3, <2>1 DEF CountsExact, Exact
<1>11. CASE Body \/ BrokenBody
    BY <1>3, <1>11 DEF Body, BrokenBody
<1> QED BY <1>5, <1>6, <1>7, <1>8, <1>9, <1>10, <1>11 DEF Next

LEMMA FinalizeExact ==
    ASSUME TypeOK, PromptFits, CountsExact, streaming, Regular, heard.given
    PROVE  /\ Finalize(parser).input = prompt.uncached
           /\ Finalize(parser).cached = prompt.cached
           /\ Finalize(parser).created = prompt.created
           /\ Finalize(parser).output = heard.out
<1>1. prompt.uncached \in Nat /\ prompt.cached \in Nat /\ prompt.created \in Nat
    BY BoundsOK DEF TypeOK, Prompt
<1>2. /\ parser.in = IF prompt.apart THEN prompt.uncached
                                     ELSE prompt.uncached + prompt.cached
      /\ parser.cached = prompt.cached
      /\ dialect = "anthropic" => parser.created = prompt.created
      /\ parser.out = heard.out
      /\ parser.seen \/ (heard.out = 0 /\ prompt.uncached = 0 /\ prompt.cached = 0
                                       /\ prompt.created = 0)
    BY DEF CountsExact
<1>3. CASE ~parser.seen
    BY <1>2, <1>3 DEF Finalize, NoUsage
<1>4. CASE parser.seen /\ dialect = "anthropic"
    BY <1>2, <1>4 DEF Finalize, AnthropicUsage, Summed, PromptFits
<1>5. CASE parser.seen /\ dialect # "anthropic"
    <2> DEFINE u == Disjoint(parser.in, parser.cached, 0, parser.out, parser.all)
    <2>1. Finalize(parser) \in {u, Summed(u)}
        BY <1>5 DEF Finalize, GeminiUsage, TypeOK, Dialect
    <2>2. /\ u.input = prompt.uncached /\ u.cached = prompt.cached
          /\ u.created = prompt.created /\ u.output = heard.out
        <3>1. Less(parser.in, parser.cached) = prompt.uncached
            BY <1>1, <1>2, <1>5 DEF Less, Regular
        <3> QED BY <1>2, <1>5, <3>1 DEF Disjoint, PromptFits
    <2>3. /\ Summed(u).input = u.input /\ Summed(u).cached = u.cached
          /\ Summed(u).created = u.created /\ Summed(u).output = u.output
        BY DEF Summed, Disjoint
    <2> HIDE DEF u
    <2> QED BY <2>1, <2>2, <2>3
<1> QED BY <1>3, <1>4, <1>5

LEMMA BodyExact ==
    ASSUME TypeOK, PromptFits, Regular, NEW n \in Nat, NEW u \in Wires(n), u.given
    PROVE  /\ ParseNonStream(u).input = prompt.uncached
           /\ ParseNonStream(u).cached = prompt.cached
           /\ ParseNonStream(u).created = prompt.created
           /\ ParseNonStream(u).output = u.out
<1>1. prompt.uncached \in Nat /\ prompt.cached \in Nat /\ prompt.created \in Nat
    BY BoundsOK DEF TypeOK, Prompt
<1>2. /\ u.in = IF prompt.apart THEN prompt.uncached ELSE prompt.uncached + prompt.cached
      /\ CachedTokens(u) = prompt.cached
      /\ dialect # "chat" => u.details = prompt.cached
      /\ u.created = prompt.created
    BY WiresExact
<1>3. CASE dialect = "anthropic"
    BY <1>2, <1>3 DEF ParseNonStream, AnthropicBody, Summed, PromptFits
<1>4. CASE dialect # "anthropic"
    <2>1. Less(u.in, CachedTokens(u)) = prompt.uncached
        BY <1>1, <1>2, <1>4 DEF Less, Regular
    <2> QED BY <1>2, <1>4, <2>1 DEF ParseNonStream, Disjoint, PromptFits
<1> QED BY <1>3, <1>4

LEMMA StepEventExact ==
    ASSUME BillInv, Next
    PROVE  EventExact'
<1>0. /\ TypeOK /\ PromptFits /\ ParserFits /\ CountsExact /\ EventExact
    BY DEF BillInv, BillingInv
<1>1. prompt' = prompt /\ Regular' = Regular
    BY DEF Next, MessageStart, BlockStart, Say, ToolCall, HiddenDelta, TextDone, Finish,
           UsageChunk, Close, Body, BrokenBody, Transform, upstream, Regular
<1>2. CASE MessageStart \/ BlockStart \/ Say \/ ToolCall \/ HiddenDelta \/ TextDone \/ Finish
           \/ UsageChunk
    BY <1>2 DEF MessageStart, BlockStart, Say, ToolCall, HiddenDelta, TextDone, Finish,
                UsageChunk, EventExact
<1>3. CASE Close
    <2>1. event'.use = Finalize(parser) /\ heard' = heard /\ streaming
        BY <1>3 DEF Close
    <2> QED BY <1>0, <1>1, <2>1, FinalizeExact DEF EventExact
<1>4. CASE Body
    <2>1. PICK n \in 1..MaxMade, c \in 0..MaxMade, o \in 0..MaxMade :
              \E u \in Wires(n) :
                  /\ heard' = u
                  /\ event' = [text |-> [cjk |-> c, other |-> o], use |-> ParseNonStream(u)]
        BY <1>4 DEF Body
    <2>2. PICK u \in Wires(n) :
              /\ heard' = u
              /\ event' = [text |-> [cjk |-> c, other |-> o], use |-> ParseNonStream(u)]
        BY <2>1
    <2>3. n \in Nat /\ event'.use = ParseNonStream(u)
        BY <2>2, BoundsOK
    <2> QED BY <1>0, <1>1, <2>2, <2>3, BodyExact DEF EventExact
<1>5. CASE BrokenBody
    <2>1. heard' = NoWire
        BY <1>0, <1>5 DEF BrokenBody, ParserFits
    <2> QED BY <2>1 DEF EventExact, NoWire
<1>6. CASE Transform
    BY <1>0, <1>1, <1>6 DEF Transform, EventExact
<1> QED BY <1>2, <1>3, <1>4, <1>5, <1>6 DEF Next

LEMMA StepTextIsMade ==
    ASSUME BillInv, Next
    PROVE  TextIsMade'
<1>0. TypeOK /\ TextIsMade /\ made \in Nat
    BY BoundsOK DEF BillInv, BillingInv, TypeOK
<1>1. CASE Say
    BY <1>0, <1>1 DEF Say, TextIsMade, upstream
<1>2. CASE MessageStart
    BY <1>0, <1>2 DEF MessageStart, MessageStartUsage, TextIsMade, upstream, TypeOK, Parser
<1>3. CASE BlockStart \/ HiddenDelta
    BY <1>0, <1>3 DEF BlockStart, HiddenDelta, TextIsMade, upstream
<1>4. CASE ToolCall \/ Finish \/ UsageChunk
    <2>1. PICK u : Hear(parser, u)
        BY <1>4 DEF ToolCall, Finish, UsageChunk
    <2>2. parser'.text = parser.text
        BY <1>0, <2>1 DEF Hear, MessageDeltaUsage, SetUsage, TypeOK, Parser
    <2> QED BY <1>0, <1>4, <2>2 DEF ToolCall, Finish, UsageChunk, TextIsMade, upstream
<1>5. CASE TextDone
    BY <1>0, <1>5 DEF TextDone, TextIsMade, upstream
<1>6. CASE Close \/ BrokenBody \/ Transform
    BY <1>0, <1>6 DEF Close, BrokenBody, Transform, TextIsMade, upstream
<1>7. CASE Body
    <2>1. made' > 0 /\ pc' = "parsed" /\ parser' = parser /\ ~streaming
        BY <1>7, BoundsOK DEF Body
    <2> QED BY <1>0, <2>1 DEF TextIsMade
<1> QED BY <1>1, <1>2, <1>3, <1>4, <1>5, <1>6, <1>7 DEF Next

LEMMA StepBilled ==
    ASSUME BillInv, BillingInv', Next
    PROVE  BilledAsReported'
<1>0. TypeOK /\ EventExact /\ TextIsMade /\ BilledAsReported
    BY DEF BillInv, BillingInv
<1>1. CASE pc' # "done"
    BY <1>1 DEF BilledAsReported
<1>2. CASE Transform
    <2> DEFINE u == Completed(event)
    <2>1. PICK p \in Prices \cup {NoPrice} :
              row' = [use |-> u, estimated |-> Estimates(event), cost |-> Cost(p, u),
                      price |-> p]
        BY <1>2 DEF Transform
    <2>2. /\ prompt' = prompt /\ dialect' = dialect /\ made' = made /\ heard' = heard
          /\ pc = "parsed" /\ row'.cost = Cost(p, u) /\ row'.price = p /\ row'.use = u
        BY <1>2, <2>1 DEF Transform, upstream
    <2>3. u \in Usage
        BY <2>2 DEF BillingInv, TypeOK
    <2>4. ASSUME heard.given, heard.out = made, Regular
          PROVE  Cost(p, u) = Owed(p)
        <3>1. /\ event.use.input = prompt.uncached /\ event.use.cached = prompt.cached
              /\ event.use.created = prompt.created /\ event.use.output = made
            BY <1>0, <2>2, <2>4 DEF EventExact
        <3>2. ~Estimates(event)
            BY <1>0, <3>1 DEF Estimates, TextIsMade
        <3>3. /\ u.input = event.use.input /\ u.cached = event.use.cached
              /\ u.created = event.use.created /\ u.output = event.use.output
            BY <1>0, <3>2 DEF Completed, TypeOK, Usage
        <3> HIDE DEF u
        <3> QED BY <2>3, <3>1, <3>3, TruthCosts
    <2>5. Owed(p)' = Owed(p)
        BY <2>2 DEF Owed
    <2>6. Regular' = Regular
        BY <2>2 DEF Regular
    <2> QED BY <2>2, <2>4, <2>6 DEF BilledAsReported, Owed
<1>3. pc' = "done" => Transform
    BY DEF Next, MessageStart, BlockStart, Say, ToolCall, HiddenDelta, TextDone, Finish,
           UsageChunk, Close, Body, BrokenBody, BillInv, BillingInv, TypeOK
<1> QED BY <1>1, <1>2, <1>3

LEMMA BillInit == Init => BillInv
<1> SUFFICES ASSUME Init PROVE BillInv
    OBVIOUS
<1>1. BillingInv
    BY BillingInit
<1> QED BY <1>1 DEF Init, BillInv, CountsExact, EventExact, TextIsMade, StartsFresh,
                    BilledAsReported, NoWire

LEMMA BillStep == BillInv /\ [Next]_vars => BillInv'
<1> SUFFICES ASSUME BillInv, [Next]_vars PROVE BillInv'
    OBVIOUS
<1>1. BillingInv'
    BY BillingStep DEF BillInv
<1>2. CASE UNCHANGED vars
    <2>1. CountsExact' /\ EventExact' /\ TextIsMade' /\ StartsFresh'
        BY <1>2 DEF vars, upstream, BillInv, CountsExact, EventExact, TextIsMade, StartsFresh,
                    Regular
    <2>2. BilledAsReported'
        BY <1>2 DEF vars, upstream, BillInv, BilledAsReported, Regular, Owed
    <2> QED BY <1>1, <2>1, <2>2 DEF BillInv
<1>3. CASE Next
    <2>1. StartsFresh'
        BY <1>3 DEF BillInv, StartsFresh, Next, MessageStart, BlockStart, Say, ToolCall,
                    HiddenDelta, TextDone, Finish, UsageChunk, Close, Body, BrokenBody,
                    Transform, upstream
    <2> QED BY <1>1, <1>3, <2>1, StepCounts, StepEventExact, StepTextIsMade, StepBilled
            DEF BillInv
<1> QED BY <1>2, <1>3

\* For every prompt, answer and price table: once an upstream that counts the way its
\* dialect does has told its last count, the trace costs what the table asks for the tokens
\* the upstream billed, with the tier of the whole prompt.
THEOREM BillsAreRight == Spec => []BilledAsReported
<1>1. BillInv => BilledAsReported
    BY DEF BillInv
<1> QED BY <1>1, BillInit, BillStep, PTL DEF Spec

=============================================================================
