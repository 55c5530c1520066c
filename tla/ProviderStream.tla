--------------------------- MODULE ProviderStream ---------------------------
(***************************************************************************)
(* One model request at a time: OpenAiClient::stream with its retries, the *)
(* body that arrives in chunks, the events it puts on the channel to the   *)
(* agent (src/provider/openai.rs), and the endpoint behind it, as the code *)
(* relies on it.                                                           *)
(*                                                                         *)
(* A payload symbol stands for one data line of the body, such as one      *)
(* "response.created" event or one chat chunk.  Redaction is left out: it  *)
(* delays and rewrites deltas but keeps their order.                       *)
(***************************************************************************)
EXTENDS SseDecoder

CONSTANTS
  Tools,        \* tool calls the model may ask for, told apart by signature
  MaxAttempts,  \* retry_max_attempts
  Capacity,     \* events the channel holds
  Profiles,     \* what may happen in a behaviour, and how often: records of
                \*   with: the features it has,  says: contents of an answer,
                \*   runs: requests of the user,
                \*   responses: responses the endpoint starts,
                \*   output: contents of one response,
                \*   faults: faults, and compactions of the history,
                \*   body: bytes of a body cut at every place
  MaxText       \* max_response_bytes, in texts

\* What an answer consists of besides tool calls, and the other payloads.
Contents == {"text", "thinking", "reasoning", "search"}
Markers == {"created", "close", "failed", "completed", "[DONE]"}

ASSUME ProviderAssumption ==
  /\ {MaxAttempts, MaxText} \subseteq Nat \ {0} /\ Capacity \in Nat \ {0, 1}
  /\ \A p \in Profiles : /\ {p.runs, p.responses, p.output, p.faults, p.body} \subseteq Nat
                         /\ p.says \subseteq Tools \cup Contents
  /\ Tools \cap (Contents \cup Markers \cup {CR, LF}) = {}

VARIABLES
  profile,   \* the profile of this behaviour
  net,       \* the request: "idle", "sent", "open", "done"
  attempt,   \* the attempt of stream(), from 1
  emitted,   \* has any attempt got as far as the body?
  spoke,     \* history: the attempts that put a model event on the channel
  decoder,   \* the SSE decoder of the attempt
  frames,    \* decoded events not yet handled
  body,      \* history, "wire": the bytes received in the attempt
  heard,     \* history, "wire": the events decoded in the attempt
  outcome,   \* what stream() returned: "none", "ok" or an error
  chan,      \* events on their way to the agent
  current,   \* the response being streamed, 0 if none
  server,    \* the endpoint: what it knows of each response
  faults     \* faults so far

streamVars == <<net, attempt, emitted, spoke, decoder, frames, body, heard,
                outcome, chan, current>>
endpointVars == <<server, faults>>
providerVars == <<profile, streamVars, endpointVars>>

Has(feature) == feature \in profile.with
Chat == Has("chat")
Errors == {"retryable", "status", "overflow", "http", "protocol"}

Event(type, of, n, tool) == [type |-> type, of |-> of, n |-> n, tool |-> tool]
Plain(type) == Event(type, current, 0, "none")

\* An item of the conversation on the wire: a user's message of a run, a file
\* attached to it, a response's text, its n-th call, the call's output, ...
Item(k, of, n, tool) == [k |-> k, of |-> of, n |-> n, tool |-> tool]

-----------------------------------------------------------------------------
(* The endpoint *)

SameCall(a, b) == a.of = b.of /\ a.n = b.n

\* Every call has one output, behind it, and every output its call: what the
\* protocol asks of a context.
Paired(context) ==
  \A j \in DOMAIN context :
    /\ context[j].k = "call" =>
         Cardinality({m \in DOMAIN context :
           context[m].k = "output" /\ SameCall(context[m], context[j])}) = 1
    /\ context[j].k = "output" =>
         \E m \in 1 .. j - 1 : context[m].k = "call" /\ SameCall(context[m], context[j])

\* What a body carries: the summaries of a model's thinking stay at home, and a
\* chat endpoint takes no reasoning items either.
ChatSends(x) == x.k \notin {"thinking", "reasoning"}
ResponsesSends(x) == x.k # "thinking"
Body(items) ==
  LET sent == IF Chat THEN {j \in DOMAIN items : ChatSends(items[j])}
              ELSE {j \in DOMAIN items : ResponsesSends(items[j])}
  IN  Kept(items, sent)

\* All the endpoint has in front of it: the context of the response it resumes,
\* what that response said, and the request's own items.
Context(request) ==
  (IF request.prev = 0 THEN << >>
   ELSE server[request.prev].context \o server[request.prev].out) \o Body(request.items)

\* The endpoint resumes a response that is complete and whose calls the request
\* answers; otherwise it answers 400.
Acceptable(request, context) ==
  (request.prev # 0 => server[request.prev].complete) /\ Paired(context)

\* A fault may hit any request.
Fault(kind) ==
  /\ faults < profile.faults /\ Has(kind)
  /\ faults' = faults + 1

-----------------------------------------------------------------------------
(* The request *)

NoStream ==
  /\ net = "idle" /\ attempt = 0 /\ emitted = FALSE /\ spoke = {}
  /\ decoder = Fresh /\ frames = << >> /\ body = << >> /\ heard = << >>
  /\ outcome = "none" /\ chan = << >> /\ current = 0

ProviderInit ==
  /\ profile \in Profiles
  /\ NoStream
  /\ server = << >> /\ faults = 0

Restart(state, number) ==
  /\ net' = state /\ attempt' = number /\ emitted' = FALSE /\ spoke' = {}
  /\ decoder' = Fresh /\ frames' = << >> /\ body' = << >> /\ heard' = << >>
  /\ outcome' = "none" /\ chan' = << >> /\ current' = 0

\* stream(): the first attempt is on its way.
OpenStream == Restart("sent", 1)

\* The future of stream() is dropped, or its result has been taken.
CloseStream == Restart("idle", 0)

\* Mutant of MayRetry: what was emitted before does not matter.
MayRetryAnyway(error) == error \in {"retryable", "http"} /\ attempt < MaxAttempts

\* May the attempt that failed with this error be repeated?  An error of the
\* body counts as emitted whatever was sent.
MayRetry(error) ==
  /\ error = "retryable" /\ ~ emitted
  /\ attempt < MaxAttempts

\* An attempt failed: announce a retry, wait and send again, or return.
AttemptFailed(error, room) ==
  IF MayRetry(error)
    THEN /\ net' = "sent" /\ attempt' = attempt + 1
         /\ chan' = Append(chan, Plain("retrying"))
         /\ decoder' = Fresh /\ frames' = << >> /\ body' = << >> /\ heard' = << >>
         /\ outcome' = "none" /\ current' = 0
         /\ room => Len(chan) < Capacity
         /\ UNCHANGED spoke
    ELSE /\ net' = "done" /\ outcome' = error /\ frames' = << >>
         /\ UNCHANGED <<attempt, chan, decoder, body, heard, current, spoke>>

\* A response the endpoint has just begun.
Begun(request, context) ==
  [context |-> context, run |-> request.run, out |-> << >>, said |-> 0,
   announced |-> Chat, open |-> FALSE, complete |-> FALSE]

\* The status line comes back, or no connection is made.
Respond(request) ==
  /\ net = "sent"
  /\ \/ LET context == Context(request)
        IN  IF Acceptable(request, context) /\ Len(server) < profile.responses
              THEN /\ net' = "open" /\ current' = Len(server) + 1
                   /\ server' = Append(server, Begun(request, context))
                   /\ UNCHANGED <<attempt, emitted, spoke, decoder, frames, body, heard,
                                  outcome, chan, faults>>
              ELSE /\ AttemptFailed("status", TRUE)
                   /\ UNCHANGED <<emitted, server, faults>>
     \/ \E kind \in {"retryable", "status", "overflow"} :
          /\ Fault(kind)
          /\ AttemptFailed(kind, TRUE)
          /\ UNCHANGED <<emitted, server>>
  /\ UNCHANGED profile

-----------------------------------------------------------------------------
(* The body *)

CallsOf(r) == Cardinality({j \in DOMAIN server[r].out : server[r].out[j].k = "call"})

\* What the endpoint may send next: the announcement, texts and calls, and the
\* end, after which the response is complete.  With "added" a call is sent in
\* two parts, its name and then its arguments.
Payloads ==
  LET r == server[current]
      more == r.said + Cardinality({j \in DOMAIN r.out : r.out[j].k # "text"}) < profile.output
  IN  (IF r.open THEN {"close"}
       ELSE IF ~ r.announced THEN {"created"}
       ELSE (IF more THEN profile.says ELSE {})
              \cup {IF Chat THEN "[DONE]" ELSE "completed"})
        \cup ({"failed"} \cap profile.with)

\* The item of the answer a payload begins, if it does.
Begins(payload) ==
  LET item(k) == <<Item(k, current, 0, "none")>>
  IN  IF payload \in Tools THEN <<Item("call", current, CallsOf(current) + 1, payload)>>
      ELSE IF payload \in Contents \ {"text"} THEN item(payload)
      ELSE IF payload = "text" /\ server[current].said = 0 THEN item("text")
      ELSE << >>

\* What the endpoint knows of the response once it has sent a payload.
Sent(payload) ==
  [server[current] EXCEPT
     !.announced = @ \/ payload = "created",
     !.said = IF payload = "text" THEN @ + 1 ELSE @,
     !.out = @ \o Begins(payload),
     !.open = IF payload \in Tools THEN Has("added") ELSE @ /\ payload # "close",
     !.complete = @ \/ payload \in {"completed", "[DONE]"}]

\* The bytes of a chunk reach the decoder.
Push(chunk) ==
  LET pushed == TryPush(decoder, chunk)
  IN  /\ body' = body \o chunk
      /\ emitted' = (emitted \/ pushed.error)
      /\ IF pushed.error
           THEN /\ net' = "done" /\ outcome' = "protocol"
                /\ UNCHANGED <<decoder, frames, heard>>
           ELSE /\ decoder' = pushed.decoder /\ frames' = pushed.events
                /\ heard' = heard \o pushed.events
                /\ UNCHANGED <<net, outcome>>
      /\ UNCHANGED <<profile, attempt, spoke, chan, current>>

\* A chunk holding one whole frame, which leaves the decoder as it was.
ReceiveFrame ==
  /\ net = "open" /\ frames = << >> /\ ~ Has("wire")
  /\ ~ server[current].complete
  /\ \E payload \in Payloads :
       /\ IF payload = "failed" THEN Fault("failed") ELSE UNCHANGED faults
       /\ server' = [server EXCEPT ![current] = Sent(payload)]
       /\ frames' = <<<<payload>>>>
  /\ UNCHANGED <<profile, net, attempt, emitted, spoke, decoder, body, heard, outcome,
                 chan, current>>

\* The body cut anywhere: line ends of either kind and data in any chunks.
ReceiveBytes ==
  /\ net = "open" /\ frames = << >> /\ Has("wire") /\ Len(body) < profile.body
  /\ \E n \in 1 .. profile.body - Len(body) :
       \E chunk \in [1 .. n -> {"text", CR, LF}] : Push(chunk)
  /\ UNCHANGED endpointVars

CallEvent(type, tool) == <<Event(type, current, CallsOf(current), tool)>>

\* The events a chat chunk becomes (parse_chat_event): a call is only ever
\* announced, its end is the end of the stream.
ParsedChat(x) == IF x \in Tools THEN CallEvent("delta", x) ELSE <<Plain(x)>>

\* The events of the responses protocol (parse_responses_event_for_mode): a call
\* comes whole, or is announced and then closed.
ParsedResponses(x) ==
  IF x \in Tools THEN CallEvent(IF Has("added") THEN "delta" ELSE "call", x)
  ELSE IF x = "close" THEN CallEvent("call", Last(server[current].out).tool)
  ELSE IF x = "created" THEN <<Plain("id")>>
  ELSE IF x = "completed" THEN <<Plain("id"), Plain("done")>>
  ELSE <<Plain(x)>>

Parsed(data) == IF Chat THEN ParsedChat(data[1]) ELSE ParsedResponses(data[1])

\* The loop of stream_attempt over the decoded events.  [DONE] ends the stream;
\* "failed", and data of several lines, which is no JSON, end it with an error
\* that is never retried.
HandleFrame ==
  /\ net = "open" /\ frames # << >>
  /\ LET data == Head(frames)
     IN  IF Len(data) > 1 \/ data[1] = "failed"
           THEN /\ emitted' = TRUE
                /\ net' = "done" /\ outcome' = "protocol" /\ frames' = << >>
                /\ UNCHANGED <<spoke, chan>>
           ELSE IF data[1] = "[DONE]"
             THEN /\ Len(chan) < Capacity
                  /\ chan' = IF Chat THEN Append(chan, Plain("done")) ELSE chan
                  /\ net' = "done" /\ outcome' = "ok" /\ frames' = << >>
                  /\ UNCHANGED <<emitted, spoke>>
             ELSE LET events == Parsed(data)
                  IN  /\ Len(chan) + Len(events) <= Capacity
                      /\ chan' = chan \o events
                      /\ spoke' = spoke \cup {attempt}
                      /\ IF Last(events).type = "done"
                           THEN /\ net' = "done" /\ outcome' = "ok"
                                /\ frames' = << >>
                           ELSE /\ frames' = Tail(frames)
                                /\ UNCHANGED <<net, outcome>>
                      /\ UNCHANGED emitted
  /\ UNCHANGED <<profile, attempt, decoder, body, heard, current, endpointVars>>

\* The body ends without a marker: what is there counts as the whole answer.
EndOfBody ==
  /\ net = "open" /\ frames = << >> /\ Len(chan) < Capacity
  /\ IF Has("wire") THEN UNCHANGED faults ELSE Fault("eof")
  /\ chan' = Append(chan, Plain("done"))
  /\ net' = "done" /\ outcome' = "ok"
  /\ UNCHANGED <<profile, attempt, emitted, spoke, decoder, frames, body, heard,
                 current, server>>

\* The connection breaks, or the request's total time is up.
BreakOff ==
  /\ net = "open" /\ frames = << >> /\ Fault("broken")
  /\ emitted' = TRUE
  /\ AttemptFailed("http", FALSE)
  /\ UNCHANGED <<profile, server>>

\* An endpoint goes on with a response nobody listens to any more.
FinishUnheard(r) ==
  /\ Has("unheard") /\ r \in DOMAIN server /\ ~ server[r].complete
  /\ r = current => net \in {"idle", "done"}
  /\ server' = [server EXCEPT ![r].complete = TRUE]
  /\ UNCHANGED <<profile, streamVars, faults>>
=============================================================================
