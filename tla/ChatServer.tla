----------------------------- MODULE ChatServer -----------------------------
(***************************************************************************)
(* The HTTP server (server/http.rs): one thread that accepts a connection, *)
(* reads one request, answers it, as one response or as a stream of        *)
(* server-sent events, and closes the connection; with the token loop that *)
(* feeds a stream (executor/generation.rs) and the counters that /metrics  *)
(* shows.  ChatParser turns what the model says into what the client gets. *)
(*                                                                         *)
(* `setup` is what is fixed while the server runs.  The client of the      *)
(* connection may go away or stop reading at any time; a write to a client *)
(* that is gone may still succeed.                                         *)
(***************************************************************************)
EXTENDS ChatParser

CONSTANT Setups    \* records [api, kind, decoder, runnable, vocabulary,
                   \*          maxTokens, asks, limit, fickle]

(* What a client may ask: a `route` ("generate", "unknown" for a path that *)
(* is not served, "plain" for health, metrics and a failed authorization,  *)
(* "garbage" for what is no request at all), whether it wants a stream,    *)
(* whether the route is a chat, and whether the body is usable.            *)
Request == [route : {"generate", "unknown", "plain", "garbage"},
            stream : BOOLEAN, chat : BOOLEAN, usable : BOOLEAN]
Garbage == [route |-> "garbage", stream |-> FALSE, chat |-> FALSE, usable |-> FALSE]

(* A token is a piece of the bytes of a text.  One character has two bytes,*)
(* which may come in two tokens; the others are never cut.                 *)
Bytes   == {"lead", "tail"}
TokenOf == Seq(Char \cup Bytes)

(* The kind of the parser is that of the model, "none" without one.  The   *)
(* decoder is that of its tokenizer.                                       *)
Setup == [api : {"openai", "anthropic", "google"}, kind : Kinds \cup {"none"},
          decoder : {"byte level", "byte fallback"},
          runnable : BOOLEAN, vocabulary : SUBSET TokenOf, maxTokens : Nat,
          asks : SUBSET Request, limit : Nat, fickle : BOOLEAN]

ASSUME ServerAssumption == Setups \subseteq Setup

VARIABLES setup,      \* the configuration of the server
          step,       \* where the serving thread is
          client,     \* the other end of the connection
          ask,        \* the request being served
          generated,  \* the tokens of the answer so far
          result,     \* how the generation ended
          status,     \* the status of the response to write
          active,     \* active_generations
          metrics,    \* ServerMetrics
          parsed,     \* the parse of the answer so far (StreamingParser::prev)
          wire,       \* what the client of this connection has received
          past        \* what happened to the requests so far (history)

vars == <<setup, step, client, ask, generated, result, status, active,
          metrics, parsed, wire, past>>

Nothing == [text |-> <<>>, reasoning |-> <<>>, calls |-> <<>>, finish |-> "none",
            ends |-> 0]

NoMetrics == [requests |-> 0, generations |-> 0, errors |-> 0, rejected |-> 0,
              tokens |-> 0]

Init == /\ setup \in Setups
        /\ step = "accept"
        /\ client = "gone"
        /\ ask = Garbage
        /\ generated = <<>>
        /\ result = "none"
        /\ status = 0
        /\ active = 0
        /\ metrics = NoMetrics
        /\ parsed = NothingParsed
        /\ wire = Nothing
        /\ past = [accepted |-> 0, read |-> 0, answered |-> 0, failed |-> 0,
                   rejected |-> 0, tokens |-> 0]

(* The tokens that end an answer, if the tokenizer has them: the closing   *)
(* marker of a call and of a turn, for the chats of OpenAI and the plain   *)
(* responses of Anthropic.                                                 *)
StopTokens ==
  IF ask.chat /\ (setup.api = "openai" \/ (setup.api = "anthropic" /\ ~ask.stream))
  THEN {CallClose, TurnClose} ELSE {}

-----------------------------------------------------------------------------
(* What the tokenizer makes of bytes.  A byte whose other half is missing  *)
(* becomes the replacement character; where bytes are a fallback for       *)
(* characters that are no tokens, all bytes around it do as well.          *)
Rune     == <<"lead", "tail">>
Stray(t) == {i \in DOMAIN t : t[i] \in Bytes /\ i \notin Occurs(t, Rune) /\ i - 1 \notin Occurs(t, Rune)}

OneRun(t, i, j) ==
  \A k \in DOMAIN t : (i <= k /\ k <= j) \/ (j <= k /\ k <= i) => t[k] \in Bytes
Lost(decoder, t) ==
  IF decoder = "byte level" THEN Stray(t)
  ELSE {i \in DOMAIN t : \E j \in Stray(t) : OneRun(t, i, j)}

Glyph(decoder, t, i) ==
  IF i \in Lost(decoder, t) THEN <<"?">>
  ELSE IF i \in Occurs(t, Rune) THEN <<"a">>
  ELSE IF t[i] \in Bytes THEN <<>>
  ELSE <<t[i]>>
Characters(decoder, t) == FlattenSeq([i \in DOMAIN t |-> Glyph(decoder, t, i)])

(* decode_tokens: the characters of all tokens together, without the       *)
(* strings that begin and end a sequence.                                  *)
Bos == <<"<", "bos">>
Eos == <<"<", "eos">>
Text(decoder, tokens) ==
  StripMarker(StripMarker(Characters(decoder, FlattenSeq(tokens)), Bos), Eos)

(* A stream decodes every token alone, and its parser accumulates these    *)
(* pieces (StreamingParser::accumulated).                                  *)
Piece(decoder, token) == Text(decoder, <<token>>)
Accumulated(decoder, tokens) ==
  FlattenSeq([i \in DOMAIN tokens |-> Piece(decoder, tokens[i])])

-----------------------------------------------------------------------------
(* A new connection.  The client has a request to send, or garbage.        *)
Accept == /\ step = "accept"
          /\ past.accepted < setup.limit
          /\ ask' \in setup.asks
          /\ step' = "read"
          /\ client' = "there"
          /\ generated' = <<>>
          /\ result' = "none"
          /\ status' = 0
          /\ parsed' = NothingParsed
          /\ wire' = Nothing
          /\ past' = [past EXCEPT !.accepted = @ + 1]
          /\ UNCHANGED <<setup, active, metrics>>

(* The client closes its end, or stops reading and writing.                *)
Leave == /\ setup.fickle
         /\ step # "accept"
         /\ client # "gone"
         /\ client' = "gone"
         /\ wire' = Nothing
         /\ UNCHANGED <<setup, step, ask, generated, result, status, active,
                        metrics, parsed, past>>

Stall == /\ setup.fickle
         /\ step # "accept"
         /\ client = "there"
         /\ client' = "stalled"
         /\ UNCHANGED <<setup, step, ask, generated, result, status, active,
                        metrics, parsed, wire, past>>

(* Mutant: a request that is not complete is waited for.                   *)
ReadOnlyRequests ==
  /\ step = "read"
  /\ client # "stalled"
  /\ ask.route # "garbage"
  /\ step' = "route"
  /\ metrics' = [metrics EXCEPT !.requests = @ + 1]
  /\ past' = [past EXCEPT !.read = @ + 1]
  /\ UNCHANGED <<setup, client, ask, generated, result, status, active, wire, parsed>>

(* read_http_request: it blocks on a client that sends nothing, and fails  *)
(* on garbage and on a client that left before it had sent everything.     *)
Read ==
  /\ step = "read"
  /\ client # "stalled"
  /\ \/ /\ ask.route # "garbage"
        /\ step' = "route"
        /\ metrics' = [metrics EXCEPT !.requests = @ + 1]
        /\ past' = [past EXCEPT !.read = @ + 1]
        /\ UNCHANGED status
     \/ /\ ask.route = "garbage" \/ client = "gone"
        /\ step' = "respond"
        /\ status' = 500
        /\ UNCHANGED <<metrics, past>>
  /\ UNCHANGED <<setup, client, ask, generated, result, active, wire, parsed>>

Respond(code) == step' = "respond" /\ status' = code

(* A server without a runnable executor refuses every generation and every *)
(* request for a stream, whatever its route.                               *)
Reject ==
  /\ step = "route"
  /\ ~setup.runnable
  /\ ask.route = "generate" \/ (ask.route = "unknown" /\ ask.stream)
  /\ metrics' = [metrics EXCEPT !.generations = @ + 1, !.errors = @ + 1,
                                !.rejected = @ + 1]
  /\ past' = [past EXCEPT !.rejected = @ + 1]
  /\ Respond(503)
  /\ UNCHANGED <<setup, client, ask, generated, result, active, wire, parsed>>

(* A response without a generation: health, metrics, 401, 404, and 400 for *)
(* a body that cannot be used.                                             *)
Answer ==
  /\ step = "route"
  /\ \/ ask.route = "plain" /\ (Respond(200) \/ Respond(401))
     \/ ask.route = "unknown" /\ (ask.stream => setup.runnable) /\ Respond(404)
     \/ ask.route = "generate" /\ setup.runnable /\ ~ask.usable /\ Respond(400)
  /\ UNCHANGED <<setup, client, ask, generated, result, active, metrics, wire, past, parsed>>

(* A generation starts: the guard counts it.  A stream sends its headers   *)
(* first; when they cannot be written nothing is counted and the           *)
(* connection gets the error of the caller.                                *)
Start ==
  /\ step = "route"
  /\ setup.runnable
  /\ ask.route = "generate"
  /\ ask.usable
  /\ ask.stream => client # "stalled"
  /\ \/ /\ step' = "prefill"
        /\ active' = active + 1
        /\ UNCHANGED status
     \/ /\ ask.stream
        /\ client = "gone"
        /\ Respond(500)
        /\ UNCHANGED active
  /\ UNCHANGED <<setup, client, ask, generated, result, metrics, wire, past, parsed>>

(* The generation ends with an output or an error.                         *)
EndWith(r) == /\ result' = r
              /\ step' = "record"
              /\ past' = IF r = "error" THEN [past EXCEPT !.failed = @ + 1]
                         ELSE [past EXCEPT !.answered = @ + 1,
                                           !.tokens = @ + Len(generated')]

Prefill ==
  /\ step = "prefill"
  /\ UNCHANGED <<setup, client, ask, generated, status, active, metrics, wire, parsed>>
  /\ \/ setup.maxTokens > 0 /\ step' = "decode" /\ UNCHANGED <<result, past>>
     \/ setup.maxTokens = 0 /\ EndWith("length")
     \/ EndWith("error")

-----------------------------------------------------------------------------
(* The events of one token: only a stream of OpenAI goes through the       *)
(* parser, and only its chats carry more than text; the others pass the    *)
(* token's piece on.  Without a kind the parser drops empty pieces.        *)
Events(piece) ==
  IF setup.api = "openai" /\ setup.kind # "none"
  THEN IF ask.chat THEN Push(parsed, parsed') ELSE TextEvents(parsed, parsed')
  ELSE IF setup.api = "openai" /\ piece = <<>> THEN <<>>
  ELSE << [of |-> "text", body |-> piece] >>

Deliver(w, e) ==
  CASE e.of = "text"      -> [w EXCEPT !.text = @ \o e.body]
    [] e.of = "reasoning" -> [w EXCEPT !.reasoning = @ \o e.body]
    [] e.of = "begin"     -> [w EXCEPT !.calls = Append(@, <<>>)]
    [] e.of = "args"      -> [w EXCEPT !.calls[Head(e.body)] = Append(@, Tail(e.body))]

(* One round of the token loop: the next token ends the sequence, or it is *)
(* passed to the callback, the stop tokens included.  When a write of the  *)
(* callback fails the loop is left, with the finish reason it started      *)
(* with.  The computation of the next token may fail, and so may the       *)
(* decoding of the whole answer at the end.                                *)
EndOfSequence ==
  /\ step = "decode"
  /\ Len(generated) < setup.maxTokens
  /\ UNCHANGED <<setup, client, ask, generated, status, active, metrics, wire, parsed>>
  /\ EndWith("eos") \/ EndWith("error")

Token ==
  /\ step = "decode"
  /\ Len(generated) < setup.maxTokens
  /\ \E t \in setup.vocabulary :
       /\ generated' = Append(generated, t)
       /\ parsed' = IF ask.stream /\ setup.api = "openai" /\ setup.kind # "none"
                    THEN Live(setup.kind, Accumulated(setup.decoder, generated')) ELSE parsed
       /\ LET writes == IF ask.stream THEN Events(Piece(setup.decoder, t)) ELSE <<>>
          IN  /\ writes # <<>> => client # "stalled"
              /\ wire' = IF client = "gone" THEN wire ELSE FoldLeft(Deliver, wire, writes)
              /\ \/ t \in StopTokens /\ EndWith("stop")
                 \/ writes # <<>> /\ client = "gone" /\ EndWith("length")
                 \/ t \notin StopTokens /\ Len(generated') = setup.maxTokens
                      /\ EndWith("length")
                 \/ /\ t \notin StopTokens
                    /\ Len(generated') < setup.maxTokens
                    /\ UNCHANGED <<step, result, past>>
                 \/ EndWith("error")
  /\ UNCHANGED <<setup, client, ask, status, active, metrics>>

(* Mutant: a generation that failed is not recorded.                       *)
RecordOutputs ==
  /\ step = "record"
  /\ metrics' = IF result = "error" THEN metrics
                ELSE [metrics EXCEPT !.generations = @ + 1, !.tokens = @ + Len(generated)]
  /\ step' = IF ask.stream THEN "finish" ELSE "reply"
  /\ UNCHANGED <<setup, client, ask, generated, result, status, active, wire, past, parsed>>

(* record_generation: once for every generation that was started.          *)
Record ==
  /\ step = "record"
  /\ metrics' = IF result = "error"
                THEN [metrics EXCEPT !.generations = @ + 1, !.errors = @ + 1]
                ELSE [metrics EXCEPT !.generations = @ + 1,
                                     !.tokens = @ + Len(generated)]
  /\ step' = IF ask.stream THEN "finish" ELSE "reply"
  /\ UNCHANGED <<setup, client, ask, generated, result, status, active, wire, past, parsed>>

FinishReason(calls) == IF calls THEN "tool_calls"
                       ELSE IF result = "length" THEN "length" ELSE "stop"

(* Mutant: the guard of a generation is not dropped.                       *)
KeepGuard == active' = active
DropGuard == active' = active - 1

(* Mutant: another response follows the end of the first.                  *)
CloseLater == step' = "respond" /\ UNCHANGED client

(* The handler returns and its connection is closed.                       *)
Close == step' = "accept" /\ client' = "gone"

(* The last chunks of a stream: the finish reason (which Google does not   *)
(* send for a generation that failed) and the end of the stream.  The      *)
(* guard goes with the handler.                                            *)
Finish ==
  /\ step = "finish"
  /\ client # "stalled"
  /\ DropGuard
  /\ wire' = IF client = "gone" THEN wire
             ELSE [wire EXCEPT
                     !.finish = IF setup.api = "google" /\ result = "error" THEN @
                                ELSE FinishReason(setup.api = "openai" /\ wire.calls # <<>>),
                     !.ends = @ + 1]
  /\ Close
  /\ UNCHANGED <<setup, ask, generated, result, status, metrics, past, parsed>>

(* The body of a response that is not a stream: the chats of OpenAI and    *)
(* Anthropic parse the answer, the other routes return it as it is.        *)
(* Anthropic returns the text as it is when the parse leaves nothing.      *)
Parsed(text) ==
  LET p == IF setup.kind = "none" THEN [NothingParsed EXCEPT !.content = Trim(text)]
           ELSE Whole(setup.kind, text)
  IN  IF setup.api = "anthropic" /\ p = NothingParsed THEN [p EXCEPT !.content = text] ELSE p

Replied(p) == [wire EXCEPT !.text = p.content, !.reasoning = p.reasoning,
                           !.calls = [i \in DOMAIN p.calls |-> <<p.calls[i].args>>],
                           !.finish = FinishReason(p.calls # <<>>)]
Reply ==
  /\ step = "reply"
  /\ DropGuard
  /\ IF result # "error" THEN Respond(200)
     ELSE Respond(IF setup.api = "openai" THEN 503 ELSE 500)
  /\ wire' = IF client = "gone" \/ result = "error" THEN wire
             ELSE IF setup.api = "google" \/ ~ask.chat
             THEN [wire EXCEPT !.text = Text(setup.decoder, generated), !.finish = FinishReason(FALSE)]
             ELSE Replied(Parsed(Text(setup.decoder, generated)))
  /\ UNCHANGED <<setup, client, ask, generated, result, metrics, past, parsed>>

(* write_json_response; its failure makes the caller write a second one,   *)
(* to a client that is gone.                                               *)
WriteResponse ==
  /\ step = "respond"
  /\ client # "stalled"
  /\ Close
  /\ wire' = [wire EXCEPT !.ends = @ + 1]
  /\ UNCHANGED <<setup, ask, generated, result, status, active, metrics, past, parsed>>

Serve == \/ Read \/ Reject \/ Answer \/ Start \/ Prefill \/ EndOfSequence \/ Token \/ Record
         \/ Finish \/ Reply \/ WriteResponse

Next == Accept \/ Leave \/ Stall \/ Serve

Spec == Init /\ [][Next]_vars /\ WF_vars(Serve)

-----------------------------------------------------------------------------
(* Every variable has its type.                                            *)
TypeOK ==
  /\ setup \in Setups
  /\ step \in {"accept", "read", "route", "prefill", "decode", "record",
               "finish", "reply", "respond"}
  /\ client \in {"there", "stalled", "gone"}
  /\ ask \in Request
  /\ generated \in Seq(setup.vocabulary)
  /\ result \in {"none", "eos", "stop", "length", "error"}
  /\ status \in {0, 200, 400, 401, 404, 500, 503}
  /\ active \in {0, 1}
  /\ DOMAIN metrics = DOMAIN NoMetrics
  /\ DOMAIN wire = DOMAIN Nothing

(* The client of a finished stream of a parsed answer.                     *)
Streamed == /\ step = "accept"
            /\ wire.ends = 1
            /\ result \in {"eos", "stop", "length", "error"}
            /\ ask.stream /\ setup.api = "openai" /\ setup.kind # "none"

(* Every token decodes alone to what it is in the whole answer: none cuts  *)
(* a character, and the strings that are removed are tokens of their own.  *)
Unbroken ==
  \A i \in DOMAIN generated :
     /\ Stray(generated[i]) = {}
     /\ \/ generated[i] \in {Bos, Eos}
        \/ \A j \in DOMAIN generated[i] : generated[i][j] \notin {"bos", "eos"}

(* The answer a stream is compared with: that of a plain response, which   *)
(* decodes all tokens together, if that makes no difference, else that of  *)
(* the pieces.                                                             *)
Answered == IF Unbroken THEN Text(setup.decoder, generated)
            ELSE Accumulated(setup.decoder, generated)

(* Nothing of the answer is still held back when it ends: every channel is *)
(* named and closed, every call of what is said outside them is closed     *)
(* there, and the content does not end with the beginning of a marker.     *)
Settled ==
  LET t       == Answered
      said    == Channels(setup.kind, FALSE, t).content
      content == Whole(setup.kind, t).content
  IN  /\ \A i \in Occurs(t, ThinkOpen) : \E k \in Occurs(t, ThinkClose) :
           i < k /\ (setup.kind = "gemma" => \E j \in i .. k : t[j] = "nl")
      /\ \A i \in Occurs(said, CallOpen) : \E k \in Occurs(said, CallClose) : i < k
      /\ content # <<>> => Last(content) # "<"

(* Two things make the content of a parse shorter than that of the parse   *)
(* before, so that push sends it again: a model of Gemma that starts       *)
(* another speaker's turn before it ends a call, and a "<" in front of the *)
(* pieces of a marker that is removed.                                     *)
Overshoots == setup.kind = "gemma" /\ Occurs(Answered, TurnOpen) # {}
Doubled    == Occurs(Answered, <<"<", "<">>) # {}

(* A marker arrives in one piece and alone.                                *)
WholeMarkers ==
  \A i \in DOMAIN generated :
     LET piece == Piece(setup.decoder, generated[i])
     IN  \/ \A j \in DOMAIN piece : piece[j] # "<"
         \/ Len(piece) = 2 /\ piece[1] = "<" /\ piece[2] \in Tails

(* Reasoning of Gemma with white space at its beginning, which push cannot *)
(* take back when the channel is closed.                                   *)
Indented == setup.kind = "gemma" /\ Occurs(Answered, <<"nl", "nl">>) # {}
Printed(t) == FlattenSeq([i \in DOMAIN t |-> IF t[i] = "nl" THEN <<>> ELSE <<t[i]>>])

(* What a client has put together from the text chunks of a stream is the  *)
(* beginning of what a plain response says of the same answer, and all of  *)
(* it when nothing was held back: no piece is lost, repeated or out of     *)
(* place while the parse of the growing answer changes its mind about      *)
(* markers, white space and half-arrived calls (StreamingParser::push).    *)
(* The plain response decodes all tokens together, the stream one by one:  *)
(* where a token cuts a character (~Unbroken) the same is said of the      *)
(* parse of the pieces.                                                    *)
StreamedText ==
  Streamed /\ ~Overshoots /\ ~Doubled =>
     LET content == Whole(setup.kind, Answered).content
     IN  /\ IsPrefix(Trim(wire.text), content)
         /\ Settled => Trim(wire.text) = content

(* The calls a streaming client assembles, each from one begin and the     *)
(* arguments that follow it, are the first calls of the plain response (of *)
(* the pieces, where a token cuts a character), in order and complete; all *)
(* of them when nothing was held back; and the finish reason then tells    *)
(* whether there are any.                                                  *)
StreamedCalls ==
  Streamed /\ ask.chat =>
     LET calls == Whole(setup.kind, Answered).calls
     IN  /\ IsPrefix(wire.calls, [i \in DOMAIN calls |-> <<calls[i].args>>])
         /\ Settled => /\ Len(wire.calls) = Len(calls)
                       /\ (wire.finish = "tool_calls") = (calls # <<>>)

(* The reasoning a streaming client has put together is that of the plain  *)
(* response (of the pieces, where a token cuts a character), but for white *)
(* space with which a body begins; for markers that arrive whole and alone:*)
(* the parser holds back the beginning of a marker in the text, not in the *)
(* reasoning, and what comes with the end of a body is lost when white     *)
(* space at its beginning goes at the same time.                           *)
StreamedReasoning ==
  Streamed /\ ask.chat /\ Settled /\ WholeMarkers =>
     LET reasoning == Whole(setup.kind, Answered).reasoning
     IN  /\ Printed(wire.reasoning) = Printed(reasoning)
         /\ ~Indented => wire.reasoning = reasoning

(* A stream says what the plain response says, also where a token cuts a   *)
(* character: the parser sees the full text of the answer on either path   *)
(* (StreamingParser::push).  It does not hold, since a stream decodes every*)
(* token alone (generate_streaming_with_backend).                          *)
StreamedWhole ==
  Streamed /\ result # "error" /\ Settled /\ ~Overshoots /\ ~Doubled =>
     Trim(wire.text) = Whole(setup.kind, Text(setup.decoder, generated)).content

(* Between two requests the gauge of running generations is back at zero   *)
(* and every counter agrees with what happened to the requests, whichever  *)
(* way they ended: refused, failed before or after the first token, left   *)
(* by their client (GenerationGuard, record_generation).                   *)
MetricsAddUp ==
  step = "accept" =>
     /\ active = 0
     /\ metrics.requests = past.read
     /\ metrics.generations = past.answered + past.failed + past.rejected
     /\ metrics.errors = past.failed + past.rejected
     /\ metrics.rejected = past.rejected
     /\ metrics.tokens = past.tokens

(* A client that stays until the end has one complete response: its last   *)
(* chunk came once, and after it nothing.                                  *)
OneEnd == /\ wire.ends <= 1
          /\ step # "accept" => wire.ends = 0

(* The only serving thread comes back to accept, whatever the request and  *)
(* whether or not its client is still there, unless a client stops reading *)
(* or sending without closing: no read or write has a timeout.             *)
Served == (step # "accept") ~> (step = "accept" \/ client = "stalled")
=============================================================================
