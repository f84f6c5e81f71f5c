---------------------------- MODULE ModelGateway ----------------------------
(***************************************************************************)
(* One streamed answer of the chat backend, from the model services to the *)
(* client: the routing among the native Gemini service, LiteLLM and the    *)
(* plain HTTP proxy (runtime_routing_service.py), the tool loop around     *)
(* LiteLLM (tool_runtime_service.py), and the guard between them and the   *)
(* client (_stream_with_disconnect_guard in api/chat.py).                  *)
(*                                                                         *)
(* The services are generators: what they produce waits in `ready` until   *)
(* the guard takes it, and the guard may find that the client is gone or   *)
(* its idle timer has run out in the very moment something became ready.   *)
(***************************************************************************)
EXTENDS Naturals, Sequences

CONSTANTS
    MaxToolRounds,  \* _MAX_TOOL_ROUNDS
    MaxChunks       \* what one model call streams, and the calls in it

ASSUME GatewayBounds == MaxToolRounds \in Nat \ {0} /\ MaxChunks \in Nat

VARIABLES
    request,    \* what the routing reads of it
    source,     \* the service that streams, and how far it is
    visible,    \* has_emitted_chunk of that service
    ready,      \* the next chunk, if it is there
    loop,       \* the tool loop: its round, its calls
    sent,       \* what the client was sent
    guard       \* "open", or why the stream ended

gatewayVars == <<request, source, visible, ready, loop, sent, guard>>

Services == {"gemini", "litellm", "httpx"}
Visible == {"text", "call", "started", "answer"}
Kinds == Visible \cup {"meta", "error", "done"}
None == [kind |-> "none", by |-> "none", call |-> <<0, 0>>]
Ends == {"completed", "disconnected", "idle", "raised"}

Requests ==
    [mode : {"auto", "proxy", "direct"}, tools : BOOLEAN, native : BOOLEAN,
     fallback : BOOLEAN]

\* A call is named by its round and its index in the answer.
CallIds == (0..MaxToolRounds) \X (0..MaxChunks)

Event == [kind : Kinds, by : Services \cup {"loop", "guard"}, call : CallIds]

GatewayTypeOK ==
    /\ request \in Requests
    /\ source \in [name : Services, at : {"streaming", "ending", "ended", "raised"},
                   chunks : 0..MaxChunks]
    /\ visible \in BOOLEAN
    /\ ready \in Event \cup {None, [None EXCEPT !.kind = "end"],
                             [None EXCEPT !.kind = "raise"]}
    /\ loop \in [at : {"off", "model", "tools", "finishing", "over"},
                 round : 1..MaxToolRounds, calls : 0..MaxChunks,
                 next : 1..(MaxChunks + 1), started : BOOLEAN]
    /\ sent \in Seq(Event) /\ guard \in Ends \cup {"open"}

\* Which service is asked first.
FirstService(r) ==
    IF r.tools THEN "litellm"
    ELSE IF r.mode = "direct" THEN "httpx"
    ELSE IF r.mode = "auto" /\ r.native THEN "gemini"
    ELSE "litellm"

Started(s) == [name |-> s, at |-> "streaming", chunks |-> 0]

GatewayInit ==
    /\ request \in Requests
    /\ source = Started(FirstService(request)) /\ visible = FALSE
    /\ ready = None /\ sent = <<>> /\ guard = "open"
    /\ loop = [at |-> IF request.tools THEN "model" ELSE "off",
               round |-> 1, calls |-> 0, next |-> 1, started |-> FALSE]

-----------------------------------------------------------------------------
\* The services.  Next: the guard awaits the next chunk.
Awaited == guard = "open" /\ ready = None

By(kind) == [kind |-> kind, by |-> source.name, call |-> <<0, 0>>]
FromLoop(kind, call) == [kind |-> kind, by |-> "loop", call |-> call]

Streaming == Awaited /\ source.at = "streaming" /\ loop.at \in {"off", "model"}
Chunk == Streaming /\ source.chunks < MaxChunks

\* A chunk passes the routing: text is what counts as visible.
Pass(event) ==
    /\ ready' = event
    /\ visible' = (visible \/ event.kind \in Visible)
    /\ UNCHANGED <<request, sent, guard>>

StreamText(kind) ==
    /\ Chunk /\ kind \in {"text", "meta"}
    /\ source' = [source EXCEPT !.chunks = @ + 1]
    /\ Pass(By(kind)) /\ UNCHANGED loop

\* A tool call, in the tool loop collected under its index.
StreamCall ==
    /\ Chunk /\ loop.at = "model"
    /\ source' = [source EXCEPT !.chunks = @ + 1]
    /\ loop' = [loop EXCEPT !.calls = @ + 1]
    /\ Pass([By("call") EXCEPT !.call = <<loop.round, loop.calls + 1>>])

\* A service breaks down before it could show anything: the next one takes
\* over in its place.
TakeOver(s) ==
    /\ source' = Started(s) /\ visible' = FALSE
    /\ UNCHANGED <<request, ready, loop, sent, guard>>

\* Wrong: whatever was shown.
NativeFailsMutant ==
    /\ Streaming /\ source.name = "gemini"
    /\ TakeOver("litellm")
\* The native service fails with nothing visible yet, in whatever way.
NativeFails ==
    /\ Streaming /\ source.name = "gemini" /\ ~visible
    /\ TakeOver("litellm")

FallbackEnabled == request.mode = "auto" /\ request.fallback

\* LiteLLM reports an error of the connection.
FallsBack ==
    /\ Streaming /\ source.name = "litellm" /\ loop.at = "off"
    /\ FallbackEnabled /\ ~visible
    /\ TakeOver("httpx")

\* Any other error is shown, and the stream of the service ends.
StreamError ==
    /\ Streaming
    /\ \/ source.name = "gemini" /\ visible
       \/ source.name = "litellm"
    /\ source' = [source EXCEPT !.at = "ending"]
    /\ Pass(By("error"))
    /\ loop' = IF loop.at = "model" THEN [loop EXCEPT !.at = "finishing"] ELSE loop

\* An error in the stream of the proxy is passed on like any chunk.
ProxiedError ==
    /\ Chunk /\ source.name = "httpx"
    /\ source' = [source EXCEPT !.chunks = @ + 1]
    /\ Pass(By("error")) /\ UNCHANGED loop

\* The stream is through: with a done of the service, ...
StreamDone ==
    /\ Awaited /\ loop.at = "off" /\ source.at \in {"streaming", "ending"}
    /\ source' = [source EXCEPT !.at = "ended"]
    /\ Pass(By("done")) /\ UNCHANGED loop

\* ... or, from the proxy, without one, or with an exception.
ProxyEnds(how) ==
    /\ Streaming /\ source.name = "httpx" /\ how \in {"ended", "raised"}
    /\ source' = [source EXCEPT !.at = how]
    /\ UNCHANGED <<request, visible, ready, loop, sent, guard>>

\* The generator is exhausted, or raises.
Exhausted ==
    /\ Awaited
    /\ \/ loop.at = "off" /\ source.at \in {"ended", "raised"}
       \/ loop.at = "over"
    /\ ready' = [None EXCEPT !.kind = IF source.at = "raised" THEN "raise" ELSE "end"]
    /\ UNCHANGED <<request, source, visible, loop, sent, guard>>

-----------------------------------------------------------------------------
\* The tool loop.

\* Wrong: the answer of the model ends the stream.
RoundDoneMutant ==
    /\ Streaming /\ loop.at = "model"
    /\ loop' = [loop EXCEPT !.at = IF loop.calls = 0 THEN "finishing" ELSE "tools"]
    /\ source' = [source EXCEPT !.at = "ended"]
    /\ Pass(By("done"))
\* The done of a round is kept back.
RoundDone ==
    /\ Streaming /\ loop.at = "model"
    /\ loop' = [loop EXCEPT !.at = IF loop.calls = 0 THEN "finishing" ELSE "tools"]
    /\ source' = [source EXCEPT !.at = "ended"]
    /\ UNCHANGED <<request, visible, ready, sent, guard>>

ToolsLeft == Awaited /\ loop.at = "tools" /\ loop.next <= loop.calls

ToolStarts ==
    /\ ToolsLeft /\ ~loop.started
    /\ loop' = [loop EXCEPT !.started = TRUE]
    /\ Pass(FromLoop("started", <<loop.round, loop.next>>))
    /\ UNCHANGED source

\* Its result, or its error.
ToolAnswers ==
    /\ ToolsLeft /\ loop.started
    /\ loop' = [loop EXCEPT !.started = FALSE, !.next = @ + 1]
    /\ Pass(FromLoop("answer", <<loop.round, loop.next>>))
    /\ UNCHANGED source

\* Wrong: the calls of a round are counted on from those before.
NextRoundMutant ==
    /\ Awaited /\ loop.at = "tools" /\ loop.next > loop.calls
    /\ loop.round < MaxToolRounds
    /\ source' = Started("litellm")
    /\ loop' = [loop EXCEPT !.at = "model", !.round = @ + 1, !.calls = 0]
    /\ UNCHANGED <<request, visible, ready, sent, guard>>
\* Wrong: one round too many.
NextRoundBoundMutant ==
    /\ Awaited /\ loop.at = "tools" /\ loop.next > loop.calls
    /\ loop.round <= MaxToolRounds
    /\ source' = Started("litellm")
    /\ loop' = [loop EXCEPT !.at = "model", !.round = @ + 1, !.calls = 0,
                            !.next = 1]
    /\ UNCHANGED <<request, visible, ready, sent, guard>>
\* The model is asked again with what the tools have answered, ...
NextRound ==
    /\ Awaited /\ loop.at = "tools" /\ loop.next > loop.calls
    /\ loop.round < MaxToolRounds
    /\ source' = Started("litellm")
    /\ loop' = [loop EXCEPT !.at = "model", !.round = @ + 1, !.calls = 0,
                            !.next = 1]
    /\ UNCHANGED <<request, visible, ready, sent, guard>>

\* ... but not for ever.
TooManyRounds ==
    /\ Awaited /\ loop.at = "tools" /\ loop.next > loop.calls
    /\ loop.round = MaxToolRounds
    /\ loop' = [loop EXCEPT !.at = "finishing"]
    /\ Pass(FromLoop("error", <<0, 0>>)) /\ UNCHANGED source

LoopDone ==
    /\ Awaited /\ loop.at = "finishing"
    /\ loop' = [loop EXCEPT !.at = "over"]
    /\ source' = [source EXCEPT !.at = "ended"]
    /\ Pass(FromLoop("done", <<0, 0>>))

-----------------------------------------------------------------------------
\* The guard: a client that is gone comes first, then the timer, then the
\* chunk.
Close(how) == guard' = how /\ ready' = None

Forward ==
    /\ guard = "open" /\ ready.kind \in Kinds
    /\ sent' = Append(sent, ready) /\ ready' = None
    /\ UNCHANGED <<request, source, visible, loop, guard>>

StreamEnds ==
    /\ guard = "open" /\ ready.kind \in {"end", "raise"}
    /\ Close(IF ready.kind = "end" THEN "completed" ELSE "raised")
    /\ UNCHANGED <<request, source, visible, loop, sent>>

ClientGone ==
    /\ guard = "open"
    /\ Close("disconnected")
    /\ UNCHANGED <<request, source, visible, loop, sent>>

\* Wrong: armed once, for the second chunk.
TimerArmedMutant == Len(sent) = 1
\* The timer is armed anew for every chunk after the first.
TimerArmed == sent # <<>>

\* What became ready in the meantime is dropped.
IdleTimeout ==
    /\ guard = "open" /\ TimerArmed
    /\ IF ready.kind = "raise"
         THEN Close("raised") /\ UNCHANGED sent
         ELSE /\ Close("idle")
              /\ sent' = Append(sent, [kind |-> "error", by |-> "guard",
                                       call |-> <<0, 0>>])
    /\ UNCHANGED <<request, source, visible, loop>>

GatewayNext ==
    \/ \E kind \in {"text", "meta"} : StreamText(kind)
    \/ StreamCall \/ StreamError \/ ProxiedError \/ StreamDone
    \/ \E how \in {"ended", "raised"} : ProxyEnds(how)
    \/ NativeFails \/ FallsBack \/ Exhausted
    \/ RoundDone \/ ToolStarts \/ ToolAnswers \/ NextRound \/ TooManyRounds
    \/ LoopDone
    \/ Forward \/ StreamEnds \/ ClientGone \/ IdleTimeout

\* The timer runs out and the guard goes on; no service ever has to answer.
GatewayFairness ==
    /\ WF_gatewayVars(Forward) /\ WF_gatewayVars(StreamEnds)
    /\ WF_gatewayVars(IdleTimeout)

GatewaySpec == GatewayInit /\ [][GatewayNext]_gatewayVars /\ GatewayFairness

-----------------------------------------------------------------------------
EventsBy(s) == {i \in DOMAIN sent : sent[i].by = s}
Shows(kinds) == {i \in DOMAIN sent : sent[i].kind \in kinds}

\* Without tools, what a client is shown of content or of errors comes from
\* one service; a service takes over only where nothing of the former was shown.
OneService ==
    ~request.tools =>
      \A i, j \in Shows(Visible \cup {"error"}) :
        {sent[i].by, sent[j].by} \subseteq Services => sent[i].by = sent[j].by

\* A stream has one end: whatever rounds, errors and takeovers lie behind it,
\* one done, and nothing after it but the guard's own verdict that the
\* stream would not close.
OneEnd ==
    \A i \in Shows({"done"}) : \A j \in DOMAIN sent :
      j > i => sent[j].by = "guard"

\* The client never waits for a tool: in a stream that ends without an error
\* of the model every call it was shown was started and answered, once and in order.
CallsAnswered ==
    guard = "completed" /\ Shows({"error"}) \subseteq EventsBy("loop") =>
      \A i \in Shows({"call"}) :
        \E s, a \in DOMAIN sent :
          /\ i < s /\ s < a
          /\ {j \in Shows({"started"}) : sent[j].call = sent[i].call} = {s}
          /\ {j \in Shows({"answer"}) : sent[j].call = sent[i].call} = {a}

\* A client gets one answer: what it is shown comes from one service, every
\* tool call it is shown is answered once and in order, and the stream has one
\* end (llm_proxy.py, litellm_service.py, tool_runtime_service.py).
OneAnswer == OneService /\ CallsAnswered /\ OneEnd

\* A client that was sent something is not kept waiting for ever, however the
\* service or a tool hangs (the idle timeout).
StalledStreamEnds == (sent # <<>>) ~> (guard # "open")
=============================================================================
