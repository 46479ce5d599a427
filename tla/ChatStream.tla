------------------------------ MODULE ChatStream ------------------------------
(***************************************************************************)
(* ChatViewer shows a recorded answer as chat bubbles.  The body of a      *)
(* streamed answer is the frames the upstream sent, in one of three        *)
(* dialects, up to wherever the stream was cut; the viewer folds them back *)
(* into messages.  The same answer sent in one piece is read by other code *)
(* (extractMessages).                                                      *)
(*                                                                         *)
(* A step is one frame: the upstream says a little more and the viewer's   *)
(* loop takes it in, so every state is an answer cut after some frame.     *)
(* Texts and arguments are sequences of fragments, numbered as they are    *)
(* sent; white space, roles, ids and names are left out.                   *)
(***************************************************************************)
EXTENDS Integers, Sequences, FiniteSets, SequencesExt

CONSTANTS
    Choice,       \* indices of the choices asked for (n > 1, OpenAI only)
    MaxBlock,     \* bound: texts, thoughts, refusals and calls in an answer
    MaxFragment   \* bound: fragments in an answer

ASSUME Bounds ==
    Choice \subseteq Nat /\ 0 \in Choice /\ MaxBlock \in Nat /\ MaxFragment \in Nat

VARIABLES
    dialect,  \* of the upstream
    said,     \* the blocks of the answer so far, in the order they were begun
    opened,   \* choices whose first frame (a role and content "") has been sent
    ended,    \* choices that have been sent a finish_reason, or whose answer is over
    acc       \* what the viewer's loop has built: entries by key, in insertion order

vars == <<dialect, said, opened, ended, acc>>

Dialect == {"openai", "responses", "anthropic"}
Kind == {"text", "thinking", "refusal", "call"}
Fragments == Seq(1..MaxFragment)

Block == [choice : Choice, kind : Kind, text : Fragments]

\* The fragments that have been sent, and how many they are.
Uttered == UNION {ToSet(said[n].text) : n \in DOMAIN said}
Sent == Cardinality(Uttered)

----------------------------------------------------------------------------
(* Orders *)

\* The numbers in S from the least to the greatest.
Ascending(S) ==
    CHOOSE q \in [1..Cardinality(S) -> S] : \A i, j \in 1..Cardinality(S) : i < j => q[i] < q[j]

\* What list has at the places in S, in its order.
Picked(list, S) == [i \in 1..Cardinality(S) |-> list[Ascending(S)[i]]]

----------------------------------------------------------------------------
(* Map and insertion order, as choiceFor, partFor and toolFor keep them *)

Has(list, key) == \E i \in DOMAIN list : list[i].key = key
At(list, key)  == CHOOSE i \in DOMAIN list : list[i].key = key
For(list, new) == IF Has(list, new.key) THEN list ELSE Append(list, new)

NewChoice(c) ==
    [key |-> c, text |-> <<>>, seen |-> FALSE, thinking |-> <<>>,
     calls |-> <<>>, finish |-> FALSE]
NewCall(k) == [key |-> k, text |-> <<>>]
NewPart(k) == [key |-> k, kind |-> "text", text |-> <<>>]

\* The one message a Responses stream is folded into.
NewAnswer == [text |-> <<>>, calls |-> <<>>]

Init ==
    /\ dialect \in Dialect
    /\ said = <<>>
    /\ opened = {}
    /\ ended = {}
    /\ acc = IF dialect = "responses" THEN NewAnswer ELSE <<>>

\* The i-th block goes on with the next fragment.
Says(i) == said' = [said EXCEPT ![i].text = Append(@, Sent + 1)]
Begins(c, kind) == said' = Append(said, [choice |-> c, kind |-> kind, text |-> <<>>])

MayBegin == Len(said) < MaxBlock
MaySay == Sent < MaxFragment

----------------------------------------------------------------------------
(* OpenAI: assembleOpenAIStream.  Choices, and the calls of one, interleave. *)

\* Calls of choice c among the first n blocks: the index of the next one.
CallIndex(c, n) == Cardinality({j \in 1..n : said[j].kind = "call" /\ said[j].choice = c})

\* What one delta does to its choice.
Heard(cb, delta) ==
    LET calls == For(cb.calls, NewCall(delta.index))
    IN CASE delta.is = "role"     -> [cb EXCEPT !.seen = TRUE]
         [] delta.is = "text"     -> [cb EXCEPT !.seen = TRUE, !.text = Append(@, delta.fragment)]
         [] delta.is = "thinking" -> [cb EXCEPT !.thinking = Append(@, delta.fragment)]
         [] delta.is = "begin"    -> [cb EXCEPT !.calls = calls]
         [] delta.is = "call"     ->
                [cb EXCEPT !.calls = [calls EXCEPT ![At(calls, delta.index)].text =
                                         Append(@, delta.fragment)]]
         [] delta.is = "finish"   -> [cb EXCEPT !.finish = TRUE]

\* Mutant: choice.index is not looked at.
OpenAIChunkMerged(c, delta) ==
    LET list == For(acc, NewChoice(0)) IN acc' = [list EXCEPT ![1] = Heard(@, delta)]

\* One choice of one chunk.
OpenAIChunk(c, delta) ==
    LET list == For(acc, NewChoice(c)) IN acc' = [list EXCEPT ![At(list, c)] = Heard(@, delta)]

Delta(is, index, fragment) == [is |-> is, index |-> index, fragment |-> fragment]

OpenAIRole(c) ==
    /\ dialect = "openai"
    /\ c \notin opened
    /\ opened' = opened \cup {c}
    /\ OpenAIChunk(c, Delta("role", 0, 0))
    /\ UNCHANGED <<dialect, said, ended>>

\* Content and reasoning are one text each per choice, a call is a block of its own.
OpenAIBegin(c, kind) ==
    /\ dialect = "openai"
    /\ c \in opened \ ended
    /\ MayBegin
    /\ kind = "call" \/ \A i \in DOMAIN said : said[i].choice # c \/ said[i].kind # kind
    /\ Begins(c, kind)
    /\ IF kind = "call"
       THEN OpenAIChunk(c, Delta("begin", CallIndex(c, Len(said)), 0))
       ELSE UNCHANGED acc
    /\ UNCHANGED <<dialect, opened, ended>>

OpenAISays(i) ==
    /\ dialect = "openai"
    /\ said[i].choice \notin ended
    /\ MaySay
    /\ Says(i)
    /\ OpenAIChunk(said[i].choice, Delta(said[i].kind, CallIndex(said[i].choice, i - 1), Sent + 1))
    /\ UNCHANGED <<dialect, opened, ended>>

OpenAIFinish(c) ==
    /\ dialect = "openai"
    /\ c \in opened \ ended
    /\ ended' = ended \cup {c}
    /\ OpenAIChunk(c, Delta("finish", 0, 0))
    /\ UNCHANGED <<dialect, said, opened>>

OpenAIMessage(cb) ==
    [content |-> IF cb.text = <<>> THEN <<>> ELSE <<[kind |-> "text", text |-> cb.text]>>,
     thinking |-> cb.thinking,
     calls |-> cb.calls]

\* Mutant: choices in the order in which they were first heard of.
OpenAIMessagesUnsorted == [i \in DOMAIN acc |-> OpenAIMessage(acc[i])]

\* Choices by index; one that has only been named is left out.
OpenAIMessages ==
    LET told == {i \in DOMAIN acc : \/ acc[i].text # <<>> \/ acc[i].seen \/ acc[i].thinking # <<>>
                                    \/ acc[i].calls # <<>> \/ acc[i].finish}
        order == Ascending({acc[i].key : i \in told})
    IN [m \in DOMAIN order |-> OpenAIMessage(acc[At(acc, order[m])])]

----------------------------------------------------------------------------
(* OpenAI Responses: assembleResponsesStream.  Items come one after the     *)
(* other; what the deltas said is repeated by the events that close an item *)
(* and once more by the one that closes the answer.                         *)

Newest == Len(said)

\* Mutant: every event makes an entry of its own.
SetCallAppends(calls, key, text) == Append(calls, [key |-> key, text |-> text])

\* toolFor(key).args := text; items are keyed by their id, here their place.
SetCall(calls, key, text) ==
    LET list == For(calls, NewCall(key)) IN [list EXCEPT ![At(list, key)].text = text]

\* captureResponsesItem for each call of the output, then the text if there is none yet.
CaptureCalls(calls) ==
    LET captured[n \in 0..Len(said)] ==
            IF n = 0 THEN calls
            ELSE IF said[n].kind = "call" THEN SetCall(captured[n - 1], n, said[n].text)
            ELSE captured[n - 1]
    IN captured[Len(said)]

OutputText == FlattenSeq([i \in 1..Newest |-> IF said[i].kind = "text" THEN said[i].text ELSE <<>>])

ResponsesBegin(kind) ==
    /\ dialect = "responses"
    /\ ended = {}
    /\ MayBegin
    /\ Begins(0, kind)
    /\ acc' = IF kind = "call" THEN [acc EXCEPT !.calls = SetCall(@, Newest + 1, <<>>)] ELSE acc
    /\ UNCHANGED <<dialect, opened, ended>>

\* response.output_text.delta, response.refusal.delta,
\* response.function_call_arguments.delta; reasoning deltas are not looked at.
ResponsesSays ==
    /\ dialect = "responses"
    /\ ended = {}
    /\ said # <<>>
    /\ MaySay
    /\ Says(Newest)
    /\ acc' = CASE said[Newest].kind \in {"text", "refusal"} ->
                       [acc EXCEPT !.text = Append(@, Sent + 1)]
                [] said[Newest].kind = "call" ->
                       LET list == For(acc.calls, NewCall(Newest))
                       IN [acc EXCEPT !.calls =
                              [list EXCEPT ![At(list, Newest)].text = Append(@, Sent + 1)]]
                [] said[Newest].kind = "thinking" -> acc
    /\ UNCHANGED <<dialect, opened, ended>>

\* Mutant: the text of output_text.done is added to what the deltas said.
ResponsesItemDoneAgain ==
    /\ dialect = "responses"
    /\ ended = {}
    /\ said # <<>>
    /\ Len(acc.text) <= MaxFragment
    /\ acc' = CASE said[Newest].kind = "text" -> [acc EXCEPT !.text = @ \o said[Newest].text]
                [] said[Newest].kind = "call" ->
                       [acc EXCEPT !.calls = SetCall(@, Newest, said[Newest].text)]
                [] OTHER -> acc
    /\ UNCHANGED <<dialect, said, opened, ended>>

\* response.output_text.done, response.function_call_arguments.done and
\* response.output_item.done of the last item.
ResponsesItemDone ==
    /\ dialect = "responses"
    /\ ended = {}
    /\ said # <<>>
    /\ acc' = CASE said[Newest].kind = "text" ->
                       IF acc.text = <<>> THEN [acc EXCEPT !.text = said[Newest].text] ELSE acc
                [] said[Newest].kind = "call" ->
                       [acc EXCEPT !.calls = SetCall(@, Newest, said[Newest].text)]
                [] OTHER -> acc
    /\ UNCHANGED <<dialect, said, opened, ended>>

\* response.completed or response.incomplete, with the whole output.
ResponsesCompleted ==
    /\ dialect = "responses"
    /\ ended = {}
    /\ ended' = {0}
    /\ acc' = [text  |-> IF acc.text = <<>> THEN OutputText ELSE acc.text,
               calls |-> CaptureCalls(acc.calls)]
    /\ UNCHANGED <<dialect, said, opened>>

ResponsesMessages ==
    IF acc.text = <<>> /\ acc.calls = <<>> THEN <<>>
    ELSE << [content |-> IF acc.text = <<>> THEN <<>> ELSE <<[kind |-> "text", text |-> acc.text]>>,
             thinking |-> <<>>,
             calls |-> acc.calls] >>

----------------------------------------------------------------------------
(* Anthropic: assembleAnthropicStream.  Blocks come one after the other. *)

\* content_block_start: a call, or anything else, taken for a text until told better.
AnthropicBegin(kind) ==
    /\ dialect = "anthropic"
    /\ ended = {}
    /\ MayBegin
    /\ Begins(0, kind)
    /\ acc' = IF kind = "call"
              THEN Append(acc, [key |-> Newest, kind |-> "call", text |-> <<>>])
              ELSE For(acc, NewPart(Newest))
    /\ UNCHANGED <<dialect, opened, ended>>

\* content_block_delta: text_delta or input_json_delta; thinking_delta is not looked at.
AnthropicSays ==
    /\ dialect = "anthropic"
    /\ ended = {}
    /\ said # <<>>
    /\ MaySay
    /\ Says(Newest)
    /\ LET list == For(acc, NewPart(Newest - 1))
           i == At(list, Newest - 1)
           kind == said[Newest].kind
       IN acc' = IF kind \in {"text", "call"}
                 THEN [list EXCEPT ![i].kind = kind, ![i].text = Append(@, Sent + 1)]
                 ELSE acc
    /\ UNCHANGED <<dialect, opened, ended>>

AnthropicStop ==
    /\ dialect = "anthropic"
    /\ ended = {}
    /\ ended' = {0}
    /\ UNCHANGED <<dialect, said, opened, acc>>

AnthropicMessages ==
    LET parts == Picked(acc, {i \in DOMAIN acc : acc[i].kind # "text" \/ acc[i].text # <<>>})
    IN IF parts = <<>> THEN <<>>
       ELSE <<[content |-> [i \in DOMAIN parts |->
                               [kind |-> parts[i].kind, text |-> parts[i].text]],
               thinking |-> <<>>, calls |-> <<>>]>>

----------------------------------------------------------------------------

Next ==
    \/ \E c \in Choice : OpenAIRole(c) \/ OpenAIFinish(c)
    \/ \E c \in Choice, kind \in {"text", "thinking", "call"} : OpenAIBegin(c, kind)
    \/ \E i \in DOMAIN said : OpenAISays(i)
    \/ \E kind \in Kind : ResponsesBegin(kind)
    \/ ResponsesSays \/ ResponsesItemDone \/ ResponsesCompleted
    \/ \E kind \in {"text", "thinking", "call"} : AnthropicBegin(kind)
    \/ AnthropicSays \/ AnthropicStop

Spec == Init /\ [][Next]_vars

\* assembleStream.
Assembled ==
    CASE dialect = "openai"    -> OpenAIMessages
      [] dialect = "responses" -> ResponsesMessages
      [] dialect = "anthropic" -> AnthropicMessages

----------------------------------------------------------------------------
(* The same answer in one piece: extractMessages *)

BlocksOf(c, kind) == {n \in DOMAIN said : said[n].choice = c /\ said[n].kind = kind}
InChoice(c, kind) == Picked(said, BlocksOf(c, kind))
TextOf(blocks) == FlattenSeq([i \in DOMAIN blocks |-> blocks[i].text])
AsParts(blocks) == [i \in DOMAIN blocks |-> [kind |-> blocks[i].kind, text |-> blocks[i].text]]

\* One message per choice, as it stands in the body.
WholeOpenAI ==
    LET choices == Ascending(opened)
    IN [i \in DOMAIN choices |->
           [content |-> AsParts(Picked(said, {n \in BlocksOf(choices[i], "text") :
                                                 said[n].text # <<>>})),
            thinking |-> TextOf(InChoice(choices[i], "thinking")),
            calls |-> InChoice(choices[i], "call")]]

\* extractResponsesResponse: reasoning items are passed over; the text of a lone part is
\* all that is kept of it, and a refusal has none.
WholeResponses ==
    LET parts == AsParts(Picked(said, {n \in DOMAIN said : said[n].kind \in {"text", "refusal"}}))
        kept == IF Len(parts) = 1 /\ (parts[1].kind = "refusal" \/ parts[1].text = <<>>)
                THEN <<>> ELSE parts
        calls == InChoice(0, "call")
    IN IF kept = <<>> /\ calls = <<>> THEN <<>>
       ELSE <<[content |-> kept, thinking |-> <<>>, calls |-> calls]>>

\* The content array as it stands in the body.
WholeAnthropic == <<[content |-> AsParts(said), thinking |-> <<>>, calls |-> <<>>]>>

Whole ==
    CASE dialect = "openai"    -> WholeOpenAI
      [] dialect = "responses" -> WholeResponses
      [] dialect = "anthropic" -> WholeAnthropic

----------------------------------------------------------------------------
(* The bubbles *)

Item(as, text) == [as |-> as, text |-> text]

\* Folded until it is clicked.
ThinkingBlock(text) == Item("thinking", text)

\* Arguments that parse are shown name by name, those cut short as they are: whole both ways.
ToolCallCard(call) == Item("call", call.text)

\* ContentPartView: a part it does not know is shown as JSON.
PartView(p) ==
    IF p.kind = "call" THEN ToolCallCard(p)
    ELSE Item(IF p.kind = "text" THEN "text" ELSE "json", p.text)

\* MessageBubble: reasoning, content, calls; "(empty)" if there is none of them.
Bubble(m) ==
    (IF m.thinking = <<>> THEN <<>> ELSE <<ThinkingBlock(m.thinking)>>)
        \o (IF m.content = <<>> /\ m.thinking = <<>> /\ m.calls = <<>>
            THEN <<Item("empty", <<>>)>>
            ELSE [i \in DOMAIN m.content |-> PartView(m.content[i])])
        \o [i \in DOMAIN m.calls |-> ToolCallCard(m.calls[i])]

Screen(messages) == [i \in DOMAIN messages |-> Bubble(messages[i])]

Joined(items, it) ==
    IF it.as = "text" /\ items # <<>> /\ items[Len(items)].as = "text"
    THEN [items EXCEPT ![Len(items)].text = @ \o it.text]
    ELSE Append(items, it)

\* What a reader makes of a bubble: texts that follow each other are one text.
Read(bubble) ==
    LET read[n \in 0..Len(bubble)] ==
            IF n = 0 THEN <<>> ELSE Joined(read[n - 1], bubble[n])
    IN read[Len(bubble)]

----------------------------------------------------------------------------
(* Properties *)

TypeOK ==
    /\ dialect \in Dialect
    /\ said \in Seq(Block) /\ Len(said) <= MaxBlock
    /\ opened \subseteq Choice /\ ended \subseteq Choice
    /\ Sent <= MaxFragment
    /\ LET list == IF dialect = "responses" THEN acc.calls ELSE acc
       IN \A i, j \in DOMAIN list : list[i].key = list[j].key => i = j

Bubbles == Screen(Assembled)
Places == UNION {{<<m, i>> : i \in DOMAIN Bubbles[m]} : m \in DOMAIN Bubbles}
ItemAt(pl) == Bubbles[pl[1]][pl[2]]
PlacesOf(f) == {pl \in Places : f \in ToSet(ItemAt(pl).text)}

ShownAs(kind) ==
    CASE kind \in {"text", "refusal"} -> "text"
      [] kind = "call" -> "call"
      [] kind = "thinking" -> IF dialect = "openai" THEN "thinking" ELSE "nowhere"

\* However the deltas are interleaved, wherever the stream is cut and however often the
\* closing events repeat what was said (ChatViewer.tsx:457, 468, 505, 510), every
\* fragment is on the screen exactly once, as what it is and in the order it was sent.
ShownOnce ==
    /\ \A i \in DOMAIN said : \A f \in ToSet(said[i].text) :
           IF ShownAs(said[i].kind) = "nowhere" THEN PlacesOf(f) = {}
           ELSE /\ Cardinality(PlacesOf(f)) = 1
                /\ \A pl \in PlacesOf(f) : ItemAt(pl).as = ShownAs(said[i].kind)
    /\ \A pl \in Places : \A i, j \in DOMAIN ItemAt(pl).text :
           i < j => ItemAt(pl).text[i] < ItemAt(pl).text[j]

\* What both readings know of: thinking blocks are only in the whole answer of Anthropic,
\* refusals only in the stream of Responses, and nor do they agree on empty texts.
CommonGround ==
    /\ dialect = "anthropic" => \A i \in DOMAIN said : said[i].kind # "thinking"
    /\ \A i \in DOMAIN said : said[i].kind # "refusal"
    /\ dialect = "openai" \/ \A i \in DOMAIN said : said[i].kind = "text" => said[i].text # <<>>
    /\ dialect = "anthropic" => said # <<>>

\* ChatViewer.tsx:98 and 410: a streamed answer, complete or cut, reads like the same
\* answer sent in one piece.
StreamedLikeWhole ==
    CommonGround =>
        /\ Len(Bubbles) = Len(Screen(Whole))
        /\ \A m \in DOMAIN Bubbles : Read(Bubbles[m]) = Read(Screen(Whole)[m])
=============================================================================
