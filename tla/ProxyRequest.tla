----------------------------- MODULE ProxyRequest -----------------------------
(***************************************************************************)
(* One request through the proxy: Handler.serve and the goroutines it      *)
(* starts.  serve copies the upstream's answer chunk by chunk to three     *)
(* writers in turn: the client, a pipe whose reader is the PutObject that  *)
(* stores the body, and (for a stream) a pipe whose reader is the parser.  *)
(* A write to a pipe returns when its reader has taken the chunk.  A third *)
(* goroutine stores the request body.  In the end serve waits for all of   *)
(* them, judges the response and submits the trace event.                  *)
(*                                                                         *)
(* Of a chunk matters what the parser finds in it: generated content, the  *)
(* terminal event of the stream, or neither; and whether it ends with the  *)
(* blank line that closes its last event, which the SSE scanner waits for. *)
(***************************************************************************)
EXTENDS Naturals

CONSTANT MaxChunks  \* bound: chunks of the upstream's answer

ASSUME MaxChunksOK == MaxChunks \in Nat

VARIABLES
    pc,         \* where serve is
    reply,      \* what the client was answered
    streaming,  \* the answer is a stream
    chunk,      \* the chunk serve is writing
    sent,       \* chunks read from the upstream
    written,    \* chunks the client's ResponseWriter took
    delivered,  \* chunks that have left the server's buffer
    stored,     \* chunks PutObject took
    spoken,     \* kinds of the written chunks
    copyErr,    \* io.Copy ended with an error
    store,      \* PutObject of the response body
    parser,     \* the parser goroutine
    parsing,    \* the chunk it has taken
    unclosed,   \* kinds of the event whose blank line the scanner waits for
    heard,      \* kinds it has dealt with
    reqUpload,  \* PutObject of the request body
    respKey,    \* respKeyFinal is set
    event       \* what the sink was given

NoEvent == [status |-> "none", respKey |-> FALSE, reqKey |-> FALSE]
Kind    == {"noise", "token", "end"}
Chunk   == [kind : Kind, closed : BOOLEAN]
Noise   == [kind |-> "noise", closed |-> TRUE]

copy    == <<chunk, sent, written, delivered, spoken, copyErr>>
parsers == <<parser, parsing, unclosed, heard>>
stores  == <<store, stored, respKey>>
vars == <<pc, reply, streaming, copy, stores, parsers, reqUpload, event>>

TypeOK ==
    /\ pc \in {"in", "do", "read", "client", "store", "parse", "drain", "close",
               "join", "submit", "done"}
    /\ reply \in {"none", "refused", "bad_gateway", "ok", "error"}
    /\ streaming \in BOOLEAN
    /\ chunk \in Chunk /\ parsing \in Chunk
    /\ sent \in 0..MaxChunks /\ written \in 0..sent
    /\ delivered \in 0..written /\ stored \in 0..written
    /\ spoken \subseteq Kind /\ heard \subseteq spoken /\ unclosed \subseteq spoken
    /\ copyErr \in BOOLEAN
    /\ store \in {"off", "reading", "sending", "finishing", "ok", "failed"}
    /\ parser \in {"off", "reading", "busy", "done"}
    /\ reqUpload \in {"none", "running", "ok", "failed"}
    /\ respKey \in BOOLEAN
    /\ event \in [status : {"none", "success", "error", "aborted"},
                 respKey : BOOLEAN, reqKey : BOOLEAN]

Init ==
    /\ pc = "in"
    /\ reply = "none"
    /\ streaming = FALSE
    /\ chunk = Noise /\ parsing = Noise
    /\ sent = 0 /\ written = 0 /\ delivered = 0 /\ stored = 0
    /\ spoken = {} /\ heard = {} /\ unclosed = {}
    /\ copyErr = FALSE
    /\ store = "off"
    /\ parser = "off"
    /\ reqUpload = "none"
    /\ respKey = FALSE
    /\ event = NoEvent

----------------------------------------------------------------------------
(* Before the answer *)

\* 400, 401, 404, 413 or 500: there is no such upstream, no key, no project, the body
\* is too large, or the project could not be looked up.  No trace is kept of it.
Refuse ==
    /\ pc = "in"
    /\ reply' = "refused"
    /\ pc' = "done"
    /\ UNCHANGED <<streaming, copy, stores, parsers, reqUpload, event>>

\* The body is read; unless it is empty its upload starts.
Forward ==
    /\ pc = "in"
    /\ reqUpload' \in {"none", "running"}
    /\ pc' = "do"
    /\ UNCHANGED <<reply, streaming, copy, stores, parsers, event>>

\* Mutant: the handler returns after the 502 without an event.
UpstreamFailsUntraced ==
    /\ pc = "do"
    /\ reply' = "bad_gateway"
    /\ pc' = "done"
    /\ UNCHANGED <<streaming, copy, stores, parsers, reqUpload, event>>

UpstreamFails ==
    /\ pc = "do"
    /\ reply' = "bad_gateway"
    /\ pc' = "join"
    /\ UNCHANGED <<streaming, copy, stores, parsers, reqUpload, event>>

\* The header is there: PutObject starts, and for a stream the parser.
UpstreamAnswers ==
    /\ pc = "do"
    /\ reply' \in {"ok", "error"}
    /\ streaming' \in BOOLEAN
    /\ store' = "reading"
    /\ parser' = IF streaming' THEN "reading" ELSE "off"
    /\ pc' = "read"
    /\ UNCHANGED <<copy, stored, respKey, parsing, unclosed, heard, reqUpload, event>>

----------------------------------------------------------------------------
(* io.Copy *)

\* Mutant: the body store comes before the client in the MultiWriter.
ReadChunkStoreFirst ==
    /\ pc = "read"
    /\ sent < MaxChunks
    /\ sent' = sent + 1
    /\ chunk' \in Chunk
    /\ pc' = "store"
    /\ UNCHANGED <<reply, streaming, written, delivered, spoken, copyErr, stores, parsers,
                   reqUpload, event>>

ReadChunk ==
    /\ pc = "read"
    /\ sent < MaxChunks
    /\ sent' = sent + 1
    /\ chunk' \in Chunk
    /\ pc' = "client"
    /\ UNCHANGED <<reply, streaming, written, delivered, spoken, copyErr, stores, parsers,
                   reqUpload, event>>

\* The answer ends, or breaks off: an error, or the timeout of the HTTP client.
AnswerEnds ==
    /\ pc = "read"
    /\ copyErr' \in BOOLEAN
    /\ pc' = "drain"
    /\ UNCHANGED <<reply, streaming, chunk, sent, written, delivered, spoken, stores, parsers,
                   reqUpload, event>>

\* CapturingWriter.Write.  The server's buffer holds the chunk back or is full by now.
WriteClient ==
    /\ pc = "client"
    /\ written' = written + 1
    /\ spoken' = spoken \cup {chunk.kind}
    /\ delivered' \in {delivered, written'}
    /\ pc' = "store"
    /\ UNCHANGED <<reply, streaming, chunk, sent, copyErr, stores, parsers, reqUpload, event>>

\* The client is gone.  The MultiWriter stops at the first error: nothing more is
\* stored or parsed either.
ClientGone ==
    /\ pc = "client"
    /\ copyErr' = TRUE
    /\ pc' = "drain"
    /\ UNCHANGED <<reply, streaming, chunk, sent, written, delivered, spoken, stores, parsers,
                   reqUpload, event>>

\* PutObject takes the chunk; when that fills a part of the multipart upload, nobody
\* reads the pipe until MinIO has the part.
TakeChunk == stored' = stored + 1 /\ store' \in {"reading", "sending"}

AfterStore == pc' = IF streaming THEN "parse" ELSE "read"

\* Mutant: nobody closes the pipe when PutObject has failed, so the write waits for a
\* reader that is gone.
WriteStoreOnly ==
    /\ pc = "store"
    /\ store = "reading"
    /\ TakeChunk
    /\ AfterStore
    /\ UNCHANGED <<reply, streaming, copy, respKey, parsers, reqUpload, event>>

\* swallowingWriter.Write: PutObject takes the chunk, or has failed and closed the
\* pipe, which the client does not get to know.
WriteStore ==
    /\ pc = "store"
    /\ store \in {"reading", "failed"}
    /\ IF store = "reading" THEN TakeChunk ELSE UNCHANGED <<store, stored>>
    /\ AfterStore
    /\ UNCHANGED <<reply, streaming, copy, respKey, parsers, reqUpload, event>>

WriteParser ==
    /\ pc = "parse"
    /\ parser = "reading"
    /\ parser' = "busy"
    /\ parsing' = chunk
    /\ pc' = "read"
    /\ UNCHANGED <<reply, streaming, copy, stores, unclosed, heard, reqUpload, event>>

----------------------------------------------------------------------------
(* After the answer *)

\* Mutant: serve goes on without waiting for parserDone.
DrainedAtOnce ==
    /\ pc = "drain"
    /\ pc' = "close"
    /\ UNCHANGED <<reply, streaming, copy, stores, parsers, reqUpload, event>>

\* The parser's pipe is closed, parserDone follows.  cw.Flush does nothing: the
\* statusWriter the logging middleware puts around the ResponseWriter is no Flusher.
Drained ==
    /\ pc = "drain"
    /\ parser \in {"off", "done"}
    /\ pc' = "close"
    /\ UNCHANGED <<reply, streaming, copy, stores, parsers, reqUpload, event>>

\* Mutant: the key is recorded whatever Close returns.
KeyAnyway ==
    /\ pc = "close"
    /\ store \in {"ok", "failed"}
    /\ respKey' = TRUE
    /\ pc' = "join"
    /\ UNCHANGED <<reply, streaming, copy, store, stored, parsers, reqUpload, event>>

\* respUploader.Close waits for PutObject to return.
CloseStore ==
    /\ pc = "close"
    /\ store \in {"ok", "failed"}
    /\ respKey' = (store = "ok")
    /\ pc' = "join"
    /\ UNCHANGED <<reply, streaming, copy, store, stored, parsers, reqUpload, event>>

Join ==
    /\ pc = "join"
    /\ reqUpload # "running"
    /\ pc' = "submit"
    /\ UNCHANGED <<reply, streaming, copy, stores, parsers, reqUpload, event>>

Status ==
    IF reply # "ok" THEN "error"
    ELSE IF streaming /\ (copyErr \/ "end" \notin heard) THEN "aborted"
    ELSE "success"

\* StreamSink.Submit or emitError; then serve returns, and net/http sends the rest.
Submit ==
    /\ pc = "submit"
    /\ event' = [status |-> Status, respKey |-> respKey, reqKey |-> reqUpload = "ok"]
    /\ delivered' = written
    /\ pc' = "done"
    /\ UNCHANGED <<reply, streaming, chunk, sent, written, spoken, copyErr, stores, parsers,
                   reqUpload>>

----------------------------------------------------------------------------
(* The other goroutines *)

\* Scanner.Next: an event is dispatched at its blank line.
ParserHandles ==
    /\ parser = "busy"
    /\ parser' = "reading"
    /\ IF parsing.closed
       THEN heard' = heard \cup unclosed \cup {parsing.kind} /\ unclosed' = {}
       ELSE heard' = heard \cup unclosed /\ unclosed' = {parsing.kind}
    /\ UNCHANGED <<pc, reply, streaming, copy, stores, parsing, reqUpload, event>>

\* Mutant: at the end of its pipe the scanner drops the event that has no blank line.
ParserEndsAtOnce ==
    /\ parser = "reading" /\ pc = "drain"
    /\ parser' = "done"
    /\ UNCHANGED <<pc, reply, streaming, copy, stores, parsing, unclosed, heard, reqUpload,
                   event>>

\* Feed returns at the end of its pipe, after the event the stream broke off in.
ParserEnds ==
    /\ parser = "reading" /\ pc = "drain"
    /\ parser' = "done"
    /\ heard' = heard \cup unclosed /\ unclosed' = {}
    /\ UNCHANGED <<pc, reply, streaming, copy, stores, parsing, reqUpload, event>>

StoreStep(to) ==
    /\ store' = to
    /\ UNCHANGED <<pc, reply, streaming, copy, stored, respKey, parsers, reqUpload, event>>

StorePartSent  == store = "sending" /\ StoreStep("reading")
\* The pipe is closed: the last part goes out.
StoreSeesEnd   == store = "reading" /\ pc = "close" /\ StoreStep("finishing")
StoreFinishes  == store = "finishing" /\ StoreStep("ok")
StoreFails     == store \in {"reading", "sending", "finishing"} /\ StoreStep("failed")

\* UploadBytes has a timeout of its own (UploadTimeout, 30 s by default).
RequestUploaded ==
    /\ reqUpload = "running"
    /\ reqUpload' \in {"ok", "failed"}
    /\ UNCHANGED <<pc, reply, streaming, copy, stores, parsers, event>>

----------------------------------------------------------------------------

Serve ==
    \/ Refuse \/ Forward \/ UpstreamFails \/ UpstreamAnswers
    \/ ReadChunk \/ AnswerEnds \/ WriteClient \/ ClientGone \/ WriteStore \/ WriteParser
    \/ Drained \/ CloseStore \/ Join \/ Submit

Parse == ParserHandles \/ ParserEnds

\* What MinIO has to answer for.
MinIO == StorePartSent \/ StoreFinishes \/ StoreFails

Next == Serve \/ Parse \/ StoreSeesEnd \/ MinIO \/ RequestUploaded

Spec == Init /\ [][Next]_vars

(***************************************************************************)
(* Fairness.  The goroutines run.  A call to the upstream returns: the     *)
(* timeout of the HTTP client covers the body too.  A client takes the     *)
(* bytes or goes away (there is no WriteTimeout by default: a client that  *)
(* does neither holds its request for ever).  Only the upload of the       *)
(* request has a timeout; whether MinIO ever answers PutObject of the      *)
(* response is up to MinIO.                                                *)
(***************************************************************************)
Fairness ==
    /\ WF_vars(Serve) /\ WF_vars(Parse)
    /\ WF_vars(StoreSeesEnd) /\ WF_vars(RequestUploaded)

SilentMinIOSpec == Spec /\ Fairness
FairSpec        == SilentMinIOSpec /\ WF_vars(MinIO)

----------------------------------------------------------------------------
(* Properties *)

\* A request is forwarded if and only if a trace event is left of it, whichever of its
\* goroutines failed; a refused one leaves none.
EventIffForwarded == pc = "done" => (event = NoEvent) = (reply = "refused")

\* The verdict on a stream is true: "success" exactly if the upstream ended it properly
\* and its terminal event is among the chunks the client was given, however far the
\* parser lagged behind the copying.
VerdictTrue ==
    event # NoEvent /\ streaming /\ reply = "ok" =>
        (event.status = "success") = (~copyErr /\ "end" \in spoken)

\* An event that names a body names a whole one: the object holds every chunk the
\* client was given, although the errors of its writes are swallowed.
KeyMeansWholeBody ==
    event # NoEvent =>
        /\ event.respKey => store = "ok" /\ stored = written
        /\ event.reqKey => reqUpload = "ok"

\* As long as MinIO answers somehow, every request ends, and what it forwarded has
\* left an event: no two of its goroutines wait for each other.
RequestEnds == <>(pc = "done")

\* swallowingWriter: "The client must keep receiving bytes even if MinIO is sick."
\* It does not while MinIO is silent: see the README.
ClientKeepsReceiving == pc = "store" ~> pc # "store"

\* StreamSink: "The client has already received its response by the time Submit is
\* called".  Not its tail: see the README.
AnsweredBeforeSubmit == pc = "submit" => delivered = written

----------------------------------------------------------------------------
(* The inductive invariant behind the first three *)

Copying == pc \in {"read", "client", "store", "parse"}
Ending  == pc \in {"close", "join", "submit", "done"}

\* A written chunk is heard, in the scanner's or the parser's hands or on its way there.
NothingUnheard ==
    /\ parser = "off" <=> ~streaming
    /\ pc \in {"in", "do"} => parser = "off"
    /\ Ending => parser \in {"off", "done"}
    /\ Copying => parser # "done"
    /\ parser = "done" => unclosed = {}
    /\ pc \in {"store", "parse"} => chunk.kind \in spoken
    /\ parser = "busy" => parsing.kind \in spoken
    /\ parser # "off" => \A k \in spoken :
           \/ k \in heard \cup unclosed
           \/ parser = "busy" /\ parsing.kind = k
           \/ pc \in {"store", "parse"} /\ chunk.kind = k

\* A PutObject that has not failed has every chunk but the one on its way to it.
NothingUnstored ==
    /\ pc = "client" => written < sent
    /\ store \notin {"off", "failed"} => written = stored + (IF pc = "store" THEN 1 ELSE 0)
    /\ store \in {"finishing", "ok"} => Ending
    /\ store = "off" => ~Copying /\ pc \notin {"drain", "close"} /\ written = 0
    /\ respKey => store = "ok"

\* The event repeats what serve knew when it submitted it.
Judged ==
    /\ pc \in {"in", "do"} => reply = "none" /\ written = 0 /\ spoken = {} /\ ~respKey
    /\ pc # "done" => event = NoEvent /\ reply # "refused"
    /\ pc \in {"submit", "done"} => reqUpload # "running"
    /\ pc = "in" => reqUpload = "none"
    /\ pc = "done" =>
           IF reply = "refused" THEN event = NoEvent
           ELSE event = [status |-> Status, respKey |-> respKey, reqKey |-> reqUpload = "ok"]

RequestInv == TypeOK /\ NothingUnheard /\ NothingUnstored /\ Judged

=============================================================================
