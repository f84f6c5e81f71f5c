----------------------------- MODULE ChatProofs -----------------------------
(***************************************************************************)
(* What TLAPS proves of the chat backend and the setup agent.              *)
(*                                                                         *)
(* The model gateway: whatever services, tools, the client and the idle    *)
(* timer do, a client gets one answer.  The invariant speaks of all that   *)
(* the guard was told, what the client was sent and what waits to be sent, *)
(* so that the guard's own step, which only moves the one to the other,    *)
(* cannot disturb it.                                                      *)
(*                                                                         *)
(* The setup agent's context: whatever discussions clients send and other  *)
(* turns store, a turn is shown a summary of its own history that loses    *)
(* none of it.  The invariant is about each summary by itself, who has it  *)
(* does not matter; most of the proof is about the operators that make one.*)
(*                                                                         *)
(* The setup agent: whatever models and tools answer and others edit, a    *)
(* turn is not completed over work that is left, its client hears of its   *)
(* end once, and no edit is missed.  The invariant ties what a run owes to *)
(* the node of the graph it is at.                                         *)
(*                                                                         *)
(* The setup workspace, by SetupInv: the last commit of a step or stage is *)
(* the latest there is for it (LastIsLatest), what is frozen shows what it *)
(* committed (FrozenShows), the stages behind the current one have a       *)
(* commit (StagesBehind), a job waits until its commit is ingested         *)
(* (QueuedUntilIngested), and what an activation checked is so until it    *)
(* marks the session (CheckedStaysSo).                                     *)
(***************************************************************************)
EXTENDS ModelGateway, SetupContext, SetupAgent, SetupWorkspace,
        FiniteSetTheorems, TLAPS

Told == IF ready.kind \in Kinds THEN Append(sent, ready) ELSE sent

\* The loop is there for requests with tools alone, and only LiteLLM streams
\* in it; its counters go together.
LoopAgrees ==
    /\ request.tools <=> loop.at # "off"
    /\ request.tools => source.name = "litellm"
    /\ loop.at = "model" => loop.next = 1 /\ loop.calls <= source.chunks
    /\ loop.next <= loop.calls + 1
    /\ loop.started => loop.at = "tools" /\ loop.next <= loop.calls
    /\ guard # "open" => ready = None
    /\ ready.kind \in {"end", "raise"} => loop.at \in {"off", "over"}

\* A done is the last that is told, and after it nobody streams.
DoneIsLast(t) ==
    \A i \in DOMAIN t : t[i].kind = "done" =>
      i = Len(t) /\ source.at = "ended" /\ loop.at \in {"off", "over"}

\* Without tools, content and errors are of the service that streams; one that
\* can still be replaced has shown neither.
FromSource(t) ==
    ~request.tools =>
      \A i \in DOMAIN t :
        /\ t[i].kind \in Visible \cup {"error"} => t[i].by = source.name
        /\ t[i].kind \in Visible => visible
        /\ t[i].kind = "error" => source.at # "streaming" \/ source.name = "httpx"

\* The calls of a loop l that are behind it.
Past(c, l) == c[1] < l.round \/ (c[1] = l.round /\ c[2] < l.next)

StartsOf(t, c) == {j \in DOMAIN t : t[j].kind = "started" /\ t[j].call = c}
AnswersOf(t, c) == {j \in DOMAIN t : t[j].kind = "answer" /\ t[j].call = c}

StartedAfter(t, i) == \E s \in DOMAIN t : i < s /\ StartsOf(t, t[i].call) = {s}
AnsweredAfter(t, i) ==
    \E s, a \in DOMAIN t :
      /\ i < s /\ s < a
      /\ StartsOf(t, t[i].call) = {s} /\ AnswersOf(t, t[i].call) = {a}

\* What was told of calls is what the loop has got to: no call, start or
\* answer lies beyond it, and every call behind it was started and answered.
EventAgrees(t, l, i) ==
    LET c == t[i].call IN
    /\ t[i].kind \in {"call", "started", "answer"} => c[1] <= l.round /\ c[2] >= 1
    /\ t[i].kind = "call" /\ c[1] = l.round => c[2] <= l.calls
    /\ t[i].kind = "started" =>
         Past(c, l) \/ (c = <<l.round, l.next>> /\ l.started)
    /\ t[i].kind = "answer" => Past(c, l)
    /\ t[i].kind = "call" /\ Past(c, l) => AnsweredAfter(t, i)
    /\ t[i].kind = "call" /\ c = <<l.round, l.next>> /\ l.started =>
         StartedAfter(t, i)

CallsAgree(t, l) == \A i \in DOMAIN t : EventAgrees(t, l, i)

\* A loop that is through has answered all its calls, or the model broke down.
AllAnswered(t) ==
    loop.at \in {"off", "finishing", "over"} =>
      \/ loop.next > loop.calls
      \/ \E i \in DOMAIN t : t[i].kind = "error" /\ t[i].by # "loop"

\* The inductive invariant: while the stream is open, of what was told; then
\* of what was sent.
Answering ==
    /\ GatewayTypeOK /\ LoopAgrees
    /\ guard = "open" =>
         /\ DoneIsLast(Told) /\ FromSource(Told)
         /\ CallsAgree(Told, loop) /\ AllAnswered(Told)
    /\ guard # "open" => OneAnswer

-----------------------------------------------------------------------------
(* Sequences of events.                                                    *)

LEMMA Appended ==
    ASSUME NEW t \in Seq(Event), NEW e \in Event
    PROVE  /\ Append(t, e) \in Seq(Event)
           /\ Len(t) \in Nat /\ Len(Append(t, e)) = Len(t) + 1
           /\ DOMAIN t = 1..Len(t) /\ DOMAIN Append(t, e) = 1..(Len(t) + 1)
           /\ DOMAIN t \subseteq DOMAIN Append(t, e)
           /\ Len(t) + 1 \notin DOMAIN t
           /\ Append(t, e)[Len(t) + 1] = e
           /\ \A i \in DOMAIN t : Append(t, e)[i] = t[i]
           /\ \A i \in DOMAIN Append(t, e) : i \in DOMAIN t \/ i = Len(t) + 1
OBVIOUS

\* An event that is no start, or no answer, of a call leaves those it has.
LEMMA StartsKept ==
    ASSUME NEW t \in Seq(Event), NEW e \in Event, NEW c,
           ~(e.kind = "started" /\ e.call = c)
    PROVE  StartsOf(Append(t, e), c) = StartsOf(t, c)
BY Appended DEF StartsOf

LEMMA AnswersKept ==
    ASSUME NEW t \in Seq(Event), NEW e \in Event, NEW c,
           ~(e.kind = "answer" /\ e.call = c)
    PROVE  AnswersOf(Append(t, e), c) = AnswersOf(t, c)
BY Appended DEF AnswersOf

LEMMA StartedKept ==
    ASSUME NEW t \in Seq(Event), NEW e \in Event, NEW i \in DOMAIN t,
           StartedAfter(t, i), ~(e.kind = "started" /\ e.call = t[i].call)
    PROVE  StartedAfter(Append(t, e), i)
<1>1. Append(t, e)[i] = t[i] /\ DOMAIN t \subseteq DOMAIN Append(t, e)
  BY Appended
<1>2. StartsOf(Append(t, e), t[i].call) = StartsOf(t, t[i].call)
  BY StartsKept
<1> QED
  BY <1>1, <1>2 DEF StartedAfter

LEMMA AnsweredKept ==
    ASSUME NEW t \in Seq(Event), NEW e \in Event, NEW i \in DOMAIN t,
           AnsweredAfter(t, i),
           ~(e.kind \in {"started", "answer"} /\ e.call = t[i].call)
    PROVE  AnsweredAfter(Append(t, e), i)
<1>1. Append(t, e)[i] = t[i] /\ DOMAIN t \subseteq DOMAIN Append(t, e)
  BY Appended
<1>2. /\ StartsOf(Append(t, e), t[i].call) = StartsOf(t, t[i].call)
      /\ AnswersOf(Append(t, e), t[i].call) = AnswersOf(t, t[i].call)
  BY StartsKept, AnswersKept
<1> QED
  BY <1>1, <1>2 DEF AnsweredAfter

\* A first start of a call comes after the call; a first answer after both.
LEMMA StartedNow ==
    ASSUME NEW t \in Seq(Event), NEW e \in Event, NEW i \in DOMAIN t,
           e.kind = "started", e.call = t[i].call, StartsOf(t, t[i].call) = {}
    PROVE  StartedAfter(Append(t, e), i)
<1>1. /\ Append(t, e)[i] = t[i]
      /\ Len(t) + 1 \in DOMAIN Append(t, e) /\ i < Len(t) + 1
  BY Appended
<1>2. StartsOf(Append(t, e), t[i].call) = {Len(t) + 1}
  BY Appended DEF StartsOf
<1> QED
  BY <1>1, <1>2 DEF StartedAfter

LEMMA AnsweredNow ==
    ASSUME NEW t \in Seq(Event), NEW e \in Event, NEW i \in DOMAIN t,
           e.kind = "answer", e.call = t[i].call,
           StartedAfter(t, i), AnswersOf(t, t[i].call) = {}
    PROVE  AnsweredAfter(Append(t, e), i)
<1>1. PICK s \in DOMAIN t : i < s /\ StartsOf(t, t[i].call) = {s}
  BY DEF StartedAfter
<1>2. /\ Append(t, e)[i] = t[i] /\ s \in DOMAIN Append(t, e)
      /\ Len(t) + 1 \in DOMAIN Append(t, e) /\ s < Len(t) + 1
  BY Appended
<1>3. StartsOf(Append(t, e), t[i].call) = {s}
  BY <1>1, StartsKept
<1>4. AnswersOf(Append(t, e), t[i].call) = {Len(t) + 1}
  BY Appended DEF AnswersOf
<1> QED
  BY <1>1, <1>2, <1>3, <1>4 DEF AnsweredAfter

-----------------------------------------------------------------------------
(* What is told of calls, event by event.                                  *)

SourceType == [name : Services, at : {"streaming", "ending", "ended", "raised"},
               chunks : 0..MaxChunks]

Loops == [at : {"off", "model", "tools", "finishing", "over"},
          round : 1..MaxToolRounds, calls : 0..MaxChunks,
          next : 1..(MaxChunks + 1), started : BOOLEAN]

LEMMA EventTypes ==
    ASSUME NEW e \in Event
    PROVE  /\ e.kind \in Kinds
           /\ e.call[1] \in Nat /\ e.call[2] \in Nat
           /\ e.call = <<e.call[1], e.call[2]>>
BY GatewayBounds DEF Event, CallIds

LEMMA LoopTypes ==
    ASSUME NEW l \in Loops
    PROVE  l.round \in Nat /\ l.calls \in Nat /\ l.next \in Nat /\ l.next >= 1
BY GatewayBounds DEF Loops

\* What is no event of a call changes nothing.
LEMMA OtherTold ==
    ASSUME NEW t \in Seq(Event), NEW e \in Event, NEW l \in Loops,
           CallsAgree(t, l), e.kind \notin {"call", "started", "answer"}
    PROVE  CallsAgree(Append(t, e), l)
<1>1. ASSUME NEW i \in DOMAIN t, t[i].kind = "call", Past(t[i].call, l)
      PROVE  AnsweredAfter(Append(t, e), i)
  BY <1>1, AnsweredKept DEF CallsAgree, EventAgrees
<1>2. ASSUME NEW i \in DOMAIN t, t[i].kind = "call",
             t[i].call = <<l.round, l.next>>, l.started
      PROVE  StartedAfter(Append(t, e), i)
  BY <1>2, StartedKept DEF CallsAgree, EventAgrees
<1> QED
  BY <1>1, <1>2, Appended DEF CallsAgree, EventAgrees

\* Only the counters of the loop matter.
LEMMA LoopMoved ==
    ASSUME NEW t, NEW l, NEW m, CallsAgree(t, l),
           m.round = l.round, m.calls = l.calls, m.next = l.next,
           m.started <=> l.started
    PROVE  CallsAgree(t, m)
BY DEF CallsAgree, EventAgrees, Past

LEMMA CallTold ==
    ASSUME NEW t \in Seq(Event), NEW e \in Event, NEW l \in Loops, NEW m \in Loops,
           CallsAgree(t, l), l.next = 1, ~l.started,
           e.kind = "call", e.call = <<l.round, l.calls + 1>>,
           m.round = l.round, m.calls = l.calls + 1, m.next = 1, ~m.started
    PROVE  CallsAgree(Append(t, e), m)
<1>1. /\ l.round \in Nat /\ l.calls \in Nat
      /\ e.call[1] = l.round /\ e.call[2] = l.calls + 1
  BY LoopTypes
<1>2. ASSUME NEW i \in DOMAIN t
      PROVE  Past(t[i].call, m) <=> Past(t[i].call, l)
  BY DEF Past
<1>3. ASSUME NEW i \in DOMAIN t, t[i].kind = "call", Past(t[i].call, m)
      PROVE  AnsweredAfter(Append(t, e), i)
  BY <1>2, <1>3, AnsweredKept DEF CallsAgree, EventAgrees
<1>4. ~Past(e.call, m)
  BY <1>1 DEF Past
<1>5. ASSUME NEW i \in DOMAIN t, t[i].kind = "call", t[i].call[1] = m.round
      PROVE  t[i].call[2] <= m.calls
  <2>1. t[i].call[2] <= l.calls /\ t[i].call[2] \in Nat
    BY <1>5, EventTypes DEF CallsAgree, EventAgrees
  <2> QED
    BY <2>1, <1>1
<1>6. ASSUME NEW i \in DOMAIN t
      PROVE  EventAgrees(Append(t, e), m, i)
  <2>1. Append(t, e)[i] = t[i] /\ EventAgrees(t, l, i)
    BY Appended DEF CallsAgree
  <2> QED
    BY <2>1, <1>2, <1>3, <1>5 DEF EventAgrees
<1>7. EventAgrees(Append(t, e), m, Len(t) + 1)
  <2> DEFINE u == Append(t, e)
             n == Len(t) + 1
  <2>1. u[n] = e
    BY Appended
  <2>2. e.call[1] <= m.round /\ e.call[2] >= 1 /\ e.call[2] <= m.calls
    BY <1>1
  <2> HIDE DEF u, n
  <2>3. EventAgrees(u, m, n)
    BY <2>1, <2>2, <1>4 DEF EventAgrees
  <2> QED
    BY <2>3 DEF u, n
<1> QED
  BY <1>6, <1>7, Appended DEF CallsAgree

LEMMA StartTold ==
    ASSUME NEW t \in Seq(Event), NEW e \in Event, NEW l \in Loops, NEW m \in Loops,
           CallsAgree(t, l), ~l.started, l.next <= l.calls,
           e.kind = "started", e.call = <<l.round, l.next>>,
           m.round = l.round, m.calls = l.calls, m.next = l.next, m.started
    PROVE  CallsAgree(Append(t, e), m)
<1>1. /\ l.round \in Nat /\ l.next \in Nat /\ l.next >= 1
      /\ e.call[1] = l.round /\ e.call[2] = l.next
  BY LoopTypes
<1>2. \A c : Past(c, m) <=> Past(c, l)
  BY DEF Past
<1>3. ~Past(<<l.round, l.next>>, l)
  BY <1>1 DEF Past
<1>4. StartsOf(t, <<l.round, l.next>>) = {}
  BY <1>3 DEF StartsOf, CallsAgree, EventAgrees
<1>5. ASSUME NEW i \in DOMAIN t, t[i].kind = "call", Past(t[i].call, m)
      PROVE  AnsweredAfter(Append(t, e), i)
  <2>1. t[i].call # e.call /\ AnsweredAfter(t, i)
    BY <1>2, <1>3, <1>5 DEF CallsAgree, EventAgrees
  <2> QED
    BY <2>1, AnsweredKept
<1>6. ASSUME NEW i \in DOMAIN t, t[i].kind = "call",
             t[i].call = <<l.round, l.next>>
      PROVE  StartedAfter(Append(t, e), i)
  BY <1>4, <1>6, StartedNow
<1> QED
  BY <1>1, <1>2, <1>5, <1>6, Appended DEF CallsAgree, EventAgrees

LEMMA AnswerTold ==
    ASSUME NEW t \in Seq(Event), NEW e \in Event, NEW l \in Loops, NEW m \in Loops,
           CallsAgree(t, l), l.started, l.next <= l.calls,
           e.kind = "answer", e.call = <<l.round, l.next>>,
           m.round = l.round, m.calls = l.calls, m.next = l.next + 1, ~m.started
    PROVE  CallsAgree(Append(t, e), m)
<1>1. /\ l.round \in Nat /\ l.next \in Nat /\ l.next >= 1
      /\ e.call[1] = l.round /\ e.call[2] = l.next
  BY LoopTypes
<1>2. ASSUME NEW i \in DOMAIN t
      PROVE  Past(t[i].call, m)
               <=> Past(t[i].call, l) \/ t[i].call = <<l.round, l.next>>
  <2>1. /\ t[i].call[1] \in Nat /\ t[i].call[2] \in Nat
        /\ t[i].call = <<t[i].call[1], t[i].call[2]>>
    BY EventTypes
  <2> QED
    BY <2>1, <1>1 DEF Past
<1>3. ~Past(<<l.round, l.next>>, l) /\ Past(<<l.round, l.next>>, m)
  BY <1>1 DEF Past
<1>4. AnswersOf(t, <<l.round, l.next>>) = {}
  BY <1>3 DEF AnswersOf, CallsAgree, EventAgrees
<1>5. ASSUME NEW i \in DOMAIN t, t[i].kind = "call", Past(t[i].call, l)
      PROVE  AnsweredAfter(Append(t, e), i)
  <2>1. t[i].call # e.call /\ AnsweredAfter(t, i)
    BY <1>3, <1>5 DEF CallsAgree, EventAgrees
  <2> QED
    BY <2>1, AnsweredKept
<1>6. ASSUME NEW i \in DOMAIN t, t[i].kind = "call",
             t[i].call = <<l.round, l.next>>
      PROVE  AnsweredAfter(Append(t, e), i)
  <2>1. StartedAfter(t, i)
    BY <1>6 DEF CallsAgree, EventAgrees
  <2> QED
    BY <2>1, <1>4, <1>6, AnsweredNow
<1>7. ASSUME NEW i \in DOMAIN t
      PROVE  EventAgrees(Append(t, e), m, i)
  <2>1. Append(t, e)[i] = t[i] /\ EventAgrees(t, l, i)
    BY Appended DEF CallsAgree
  <2> QED
    BY <2>1, <1>2, <1>5, <1>6 DEF EventAgrees
<1>8. EventAgrees(Append(t, e), m, Len(t) + 1)
  <2>1. Append(t, e)[Len(t) + 1] = e
    BY Appended
  <2> QED
    BY <2>1, <1>1, <1>3 DEF EventAgrees
<1> QED
  BY <1>7, <1>8, Appended DEF CallsAgree

\* A round that has answered all its calls is behind the next one.
LEMMA RoundTold ==
    ASSUME NEW t \in Seq(Event), NEW l \in Loops, NEW m \in Loops,
           CallsAgree(t, l), ~l.started, l.next > l.calls,
           m.round = l.round + 1, m.calls = 0, m.next = 1, ~m.started
    PROVE  CallsAgree(t, m)
<1>1. l.round \in Nat /\ l.calls \in Nat /\ l.next \in Nat
  BY LoopTypes
<1>2. ASSUME NEW i \in DOMAIN t, t[i].kind \in {"call", "started", "answer"}
      PROVE  t[i].call[1] <= l.round /\ t[i].call[2] >= 1 /\ Past(t[i].call, m)
  <2>1. t[i].call[1] \in Nat /\ t[i].call[1] <= l.round /\ t[i].call[2] >= 1
    BY <1>2, EventTypes DEF CallsAgree, EventAgrees
  <2> QED
    BY <2>1, <1>1 DEF Past
<1>3. ASSUME NEW i \in DOMAIN t, t[i].kind = "call"
      PROVE  Past(t[i].call, l)
  <2>1. /\ t[i].call[1] \in Nat /\ t[i].call[2] \in Nat
        /\ t[i].call[1] <= l.round
        /\ t[i].call[1] = l.round => t[i].call[2] <= l.calls
    BY <1>3, EventTypes DEF CallsAgree, EventAgrees
  <2> QED
    BY <2>1, <1>1 DEF Past
<1>4. ASSUME NEW i \in DOMAIN t
      PROVE  t[i].call[1] \in Nat
  BY EventTypes
<1> QED
  BY <1>1, <1>2, <1>3, <1>4 DEF CallsAgree, EventAgrees

-----------------------------------------------------------------------------
(* What was told, and what was sent of it.                                 *)

LEMMA NoChunk ==
    /\ None.kind \notin Kinds
    /\ [None EXCEPT !.kind = "end"].kind = "end"
    /\ [None EXCEPT !.kind = "raise"].kind = "raise"
    /\ "end" \notin Kinds /\ "raise" \notin Kinds
BY DEF None, Kinds, Visible

LEMMA ToldTyped ==
    ASSUME GatewayTypeOK
    PROVE  /\ Told \in Seq(Event) /\ sent \in Seq(Event)
           /\ ready.kind \in Kinds => ready \in Event
           /\ Len(Told) \in Nat /\ DOMAIN Told = 1..Len(Told)
           /\ \A i \in DOMAIN sent : i \in DOMAIN Told /\ Told[i] = sent[i]
<1>1. sent \in Seq(Event) /\ (ready.kind \in Kinds => ready \in Event)
  BY NoChunk DEF GatewayTypeOK
<1>2. CASE ready.kind \in Kinds
  BY <1>1, <1>2, Appended DEF Told
<1>3. CASE ready.kind \notin Kinds
  BY <1>1, <1>3 DEF Told
<1> QED
  BY <1>2, <1>3

LEMMA PassTold ==
    ASSUME GatewayTypeOK, Awaited, NEW e \in Event, Pass(e)
    PROVE  /\ Told' = Append(Told, e) /\ Told' \in Seq(Event)
           /\ ready' = e /\ sent' = sent /\ guard' = "open" /\ request' = request
           /\ visible' = (visible \/ e.kind \in Visible)
<1>1. Told = sent
  BY NoChunk DEF Told, Awaited
<1>2. e.kind \in Kinds
  BY EventTypes
<1> QED
  BY <1>1, <1>2, ToldTyped, Appended DEF Pass, Told, Awaited, GatewayTypeOK

\* While the stream is open, what was sent so far is sound.
LEMMA OpenIsSound ==
    ASSUME Answering, guard = "open"
    PROVE  OneService /\ OneEnd
<1>1. GatewayTypeOK /\ DoneIsLast(Told) /\ FromSource(Told)
  BY DEF Answering
<1>2. OneService
  BY <1>1, ToldTyped DEF OneService, FromSource, Shows
<1>3. OneEnd
  <2> SUFFICES ASSUME NEW i \in Shows({"done"}), NEW j \in DOMAIN sent, j > i
               PROVE  FALSE
    BY DEF OneEnd
  <2>1. i = Len(Told) /\ j \in 1..Len(Told) /\ Len(Told) \in Nat
    BY <1>1, ToldTyped DEF DoneIsLast, Shows
  <2> QED
    BY <2>1
<1> QED
  BY <1>2, <1>3

\* The invariant is what is to be proved.
LEMMA AnsweringIsEnough == Answering => OneAnswer
<1>1. CASE guard = "open"
  BY <1>1, OpenIsSound DEF OneAnswer, CallsAnswered
<1> QED
  BY <1>1 DEF Answering

LEMMA AnsweringInit == GatewayInit => Answering
<1> SUFFICES ASSUME GatewayInit
             PROVE  Answering
  OBVIOUS
<1>1. GatewayTypeOK
  <2>1. request \in Requests /\ guard = "open" /\ visible \in BOOLEAN
    BY DEF GatewayInit
  <2>2. FirstService(request) \in Services
    BY DEF FirstService, Services
  <2>3. source \in SourceType
    BY <2>2, GatewayBounds DEF GatewayInit, Started, SourceType
  <2>4. loop \in Loops
    BY GatewayBounds DEF GatewayInit, Loops
  <2>5. ready = None /\ sent \in Seq(Event)
    BY DEF GatewayInit
  <2> QED
    BY <2>1, <2>3, <2>4, <2>5 DEF GatewayTypeOK, SourceType, Loops
<1>2. LoopAgrees
  BY NoChunk DEF GatewayInit, LoopAgrees, Started, FirstService, None, Requests
<1>3. Told = <<>>
  BY NoChunk DEF GatewayInit, Told
<1>4. /\ DoneIsLast(Told) /\ FromSource(Told) /\ CallsAgree(Told, loop)
      /\ AllAnswered(Told)
  BY <1>3 DEF DoneIsLast, FromSource, CallsAgree, AllAnswered, GatewayInit
<1> QED
  BY <1>1, <1>2, <1>4 DEF Answering, GatewayInit

-----------------------------------------------------------------------------
(* The kinds of steps.                                                     *)

\* Whether one may still be told of a done.
Going == source.at # "ended" \/ loop.at \notin {"off", "over"}

\* A loop that is through has no call left.
Through == loop.at \in {"off", "finishing", "over"} => loop.next > loop.calls

LEMMA GoingNotDone ==
    ASSUME DoneIsLast(Told), Going, NEW i \in DOMAIN Told
    PROVE  Told[i].kind # "done"
BY DEF DoneIsLast, Going

\* A chunk e is passed on.
LEMMA Passed ==
    ASSUME Answering, Awaited, NEW e \in Event, Pass(e), Going,
           source' \in SourceType, loop' \in Loops, LoopAgrees',
           e.kind = "done" => source'.at = "ended" /\ loop'.at \in {"off", "over"},
           ~request.tools =>
             /\ source'.name = source.name
             /\ e.kind \in Visible \cup {"error"} => e.by = source.name
             /\ e.kind = "error" => source'.at # "streaming" \/ source.name = "httpx"
             /\ source'.at = "streaming" => source.at = "streaming",
           CallsAgree(Append(Told, e), loop'),
           loop'.at \in {"off", "finishing", "over"} =>
             \/ loop'.next > loop'.calls
             \/ e.kind = "error" /\ e.by # "loop"
             \/ /\ loop.at \in {"off", "finishing", "over"}
                /\ loop'.next = loop.next /\ loop'.calls = loop.calls
    PROVE  Answering'
<1>1. /\ GatewayTypeOK /\ DoneIsLast(Told) /\ FromSource(Told)
  BY DEF Answering, Awaited
<1>2. /\ Told' = Append(Told, e) /\ Told' \in Seq(Event)
      /\ ready' = e /\ sent' = sent /\ guard' = "open" /\ request' = request
      /\ visible' = (visible \/ e.kind \in Visible)
  BY <1>1, PassTold
<1>3. Told \in Seq(Event)
  BY <1>1, ToldTyped
<1>4. GatewayTypeOK'
  <2>1. visible' \in BOOLEAN
    BY <1>1, <1>2 DEF GatewayTypeOK
  <2>2. request' \in Requests /\ sent' \in Seq(Event) /\ ready' \in Event
    BY <1>1, <1>2 DEF GatewayTypeOK
  <2> QED
    BY <1>2, <2>1, <2>2 DEF GatewayTypeOK, SourceType, Loops
<1>5. DoneIsLast(Told)'
  BY <1>1, <1>2, <1>3, GoingNotDone, Appended DEF DoneIsLast
<1>6. FromSource(Told)'
  <2>1. visible \/ e.kind \in Visible => visible'
    BY <1>2
  <2> SUFFICES ASSUME ~request.tools, NEW i \in DOMAIN Told'
               PROVE  /\ Told'[i].kind \in Visible \cup {"error"} =>
                           Told'[i].by = source'.name
                      /\ Told'[i].kind \in Visible => visible'
                      /\ Told'[i].kind = "error" =>
                           source'.at # "streaming" \/ source'.name = "httpx"
    BY <1>2 DEF FromSource
  <2>2. CASE i \in DOMAIN Told
    <3>1. Told'[i] = Told[i]
      BY <1>2, <1>3, <2>2, Appended
    <3> QED
      BY <1>1, <2>1, <2>2, <3>1 DEF FromSource
  <2>3. CASE i = Len(Told) + 1
    <3>1. Told'[i] = e
      BY <1>2, <1>3, <2>3, Appended
    <3> QED
      BY <2>1, <3>1
  <2> QED
    BY <1>2, <1>3, <2>2, <2>3, Appended
<1>7. AllAnswered(Told)'
  <2>1. AllAnswered(Told)
    BY DEF Answering, Awaited
  <2> QED
    BY <1>2, <1>3, <2>1, Appended DEF AllAnswered
<1> QED
  BY <1>2, <1>4, <1>5, <1>6, <1>7 DEF Answering

\* Nothing is told.
LEMMA Quiet ==
    ASSUME Answering, guard = "open", guard' = "open", request' = request,
           Told' = Told, GatewayTypeOK', LoopAgrees',
           Going \/ (source'.at = source.at /\ loop' = loop),
           ~request.tools =>
             \/ /\ source'.name = source.name /\ visible' = visible
                /\ source'.at = "streaming" => source.at = "streaming"
             \/ /\ ~visible /\ source.at = "streaming"
                /\ source.name # "httpx",
           CallsAgree(Told, loop'),
           Through' \/ loop' = loop
    PROVE  Answering'
<1>1. /\ GatewayTypeOK /\ DoneIsLast(Told) /\ FromSource(Told)
      /\ AllAnswered(Told)
  BY DEF Answering
<1>2. DoneIsLast(Told)'
  BY <1>1, GoingNotDone DEF DoneIsLast
<1>3. FromSource(Told)'
  BY <1>1 DEF FromSource
<1>4. AllAnswered(Told)'
  BY <1>1 DEF AllAnswered, Through
<1> QED
  BY <1>2, <1>3, <1>4 DEF Answering

\* The stream is closed.
LEMMA Closed ==
    ASSUME Answering, guard = "open", guard' \in Ends, ready' = None,
           UNCHANGED <<request, source, visible, loop>>,
           \/ sent' = sent
           \/ \E e \in Event : e.by = "guard" /\ sent' = Append(sent, e),
           CallsAnswered'
    PROVE  Answering'
<1>1. GatewayTypeOK /\ sent \in Seq(Event) /\ OneService /\ OneEnd /\ LoopAgrees
  BY ToldTyped, OpenIsSound DEF Answering
<1>2. guard' # "open"
  BY DEF Ends
<1>3. sent' \in Seq(Event)
  BY <1>1, Appended
<1>4. GatewayTypeOK'
  BY <1>1, <1>3 DEF GatewayTypeOK
<1>5. LoopAgrees'
  BY <1>1, NoChunk DEF LoopAgrees, None
<1>6. OneService' /\ OneEnd'
  <2>1. CASE sent' = sent
    BY <1>1, <2>1 DEF OneService, OneEnd, Shows
  <2>2. CASE \E e \in Event : e.by = "guard" /\ sent' = Append(sent, e)
    <3>1. PICK e \in Event : e.by = "guard" /\ sent' = Append(sent, e)
      BY <2>2
    <3>2. OneService'
      BY <1>1, <3>1, Appended DEF OneService, Shows, Services
    <3>3. OneEnd'
      BY <1>1, <3>1, Appended DEF OneEnd, Shows
    <3> QED
      BY <3>2, <3>3
  <2> QED
    BY <2>1, <2>2
<1> QED
  BY <1>2, <1>4, <1>5, <1>6 DEF Answering, OneAnswer

-----------------------------------------------------------------------------
(* The steps.                                                              *)

LEMMA Made ==
    ASSUME GatewayTypeOK, NEW kind \in Kinds
    PROVE  /\ By(kind) \in Event
           /\ By(kind).kind = kind /\ By(kind).by = source.name
           /\ \A call \in CallIds :
                /\ [By(kind) EXCEPT !.call = call] \in Event
                /\ [By(kind) EXCEPT !.call = call].kind = kind
                /\ [By(kind) EXCEPT !.call = call].by = source.name
                /\ [By(kind) EXCEPT !.call = call].call = call
                /\ FromLoop(kind, call) \in Event
                /\ FromLoop(kind, call).kind = kind
                /\ FromLoop(kind, call).by = "loop"
                /\ FromLoop(kind, call).call = call
           /\ <<0, 0>> \in CallIds
<1>1. source.name \in Services
  BY DEF GatewayTypeOK
<1>2. <<0, 0>> \in CallIds
  BY GatewayBounds DEF CallIds
<1>3. By(kind) \in Event /\ By(kind).kind = kind /\ By(kind).by = source.name
  BY <1>1, <1>2 DEF By, Event
<1>4. ASSUME NEW call \in CallIds
      PROVE  /\ [By(kind) EXCEPT !.call = call] \in Event
             /\ [By(kind) EXCEPT !.call = call].kind = kind
             /\ [By(kind) EXCEPT !.call = call].by = source.name
             /\ [By(kind) EXCEPT !.call = call].call = call
  BY <1>1 DEF By, Event
<1>5. ASSUME NEW call \in CallIds
      PROVE  /\ FromLoop(kind, call) \in Event
             /\ FromLoop(kind, call).kind = kind
             /\ FromLoop(kind, call).by = "loop"
             /\ FromLoop(kind, call).call = call
  BY DEF FromLoop, Event
<1> QED
  BY <1>2, <1>3, <1>4, <1>5

\* What every step may start from.
LEMMA Given ==
    ASSUME Answering
    PROVE  /\ GatewayTypeOK /\ LoopAgrees
           /\ source \in SourceType /\ loop \in Loops
           /\ loop.round \in Nat /\ loop.calls \in Nat /\ loop.next \in Nat
           /\ loop.next >= 1 /\ source.chunks \in Nat
           /\ guard = "open" =>
                /\ Told \in Seq(Event) /\ CallsAgree(Told, loop)
                /\ AllAnswered(Told) /\ DoneIsLast(Told) /\ FromSource(Told)
<1>1. /\ GatewayTypeOK /\ LoopAgrees
      /\ source \in SourceType /\ loop \in Loops
  BY DEF Answering, GatewayTypeOK, SourceType, Loops
<1>2. source.chunks \in Nat
  BY <1>1, GatewayBounds DEF SourceType
<1> QED
  BY <1>1, <1>2, LoopTypes, ToldTyped DEF Answering

LEMMA KindsApart ==
    ASSUME NEW e \in Event
    PROVE  e.kind \notin {"end", "raise"}
BY EventTypes, NoChunk

\* A chunk that is of no call passes, and the loop, if any, stays where it is.
LEMMA PassedBeside ==
    ASSUME Answering, Awaited, NEW e \in Event, Pass(e), loop' = loop,
           source.at \in {"streaming", "ending"}, source' \in SourceType,
           source'.name = source.name, source'.chunks >= source.chunks,
           e.kind \notin {"call", "started", "answer"},
           e.kind = "done" => source'.at = "ended" /\ loop.at = "off",
           e.kind \in Visible \cup {"error"} => e.by = source.name,
           e.kind = "error" => source'.at # "streaming" \/ source.name = "httpx",
           source'.at = "streaming" => source.at = "streaming"
    PROVE  Answering'
<1>1. ready' = e /\ guard' = "open" /\ request' = request /\ guard = "open"
  BY Given, PassTold DEF Awaited
<1>2. LoopAgrees'
  <2>1. /\ LoopAgrees /\ source.chunks \in Nat /\ loop.calls \in Nat
        /\ source'.chunks \in Nat
    BY Given, GatewayBounds DEF SourceType
  <2> QED
    BY <1>1, <2>1, KindsApart DEF LoopAgrees
<1>3. CallsAgree(Append(Told, e), loop')
  BY <1>1, Given, OtherTold
<1> QED
  BY <1>2, <1>3, Given, Passed DEF Going

LEMMA StreamTextAnswers ==
    ASSUME Answering, NEW kind \in {"text", "meta"}, StreamText(kind)
    PROVE  Answering'
<1> DEFINE e == By(kind)
<1>1. /\ Awaited /\ Pass(e) /\ loop' = loop
      /\ source.at = "streaming" /\ source.chunks < MaxChunks
      /\ source' = [source EXCEPT !.chunks = @ + 1]
  BY DEF StreamText, Chunk, Streaming
<1>2. e \in Event /\ e.kind = kind /\ e.by = source.name
  BY Given, Made DEF Kinds, Visible
<1>3. /\ source' \in SourceType /\ source'.at = source.at
      /\ source'.name = source.name /\ source'.chunks >= source.chunks
  BY <1>1, Given, GatewayBounds DEF SourceType
<1> HIDE DEF e
<1> QED
  BY <1>1, <1>2, <1>3, PassedBeside

LEMMA ProxiedErrorAnswers ==
    ASSUME Answering, ProxiedError
    PROVE  Answering'
<1> DEFINE e == By("error")
<1>1. /\ Awaited /\ Pass(e) /\ loop' = loop
      /\ source.at = "streaming" /\ source.chunks < MaxChunks
      /\ source.name = "httpx"
      /\ source' = [source EXCEPT !.chunks = @ + 1]
  BY DEF ProxiedError, Chunk, Streaming
<1>2. e \in Event /\ e.kind = "error" /\ e.by = source.name
  BY Given, Made DEF Kinds
<1>3. /\ source' \in SourceType /\ source'.at = source.at
      /\ source'.name = source.name /\ source'.chunks >= source.chunks
  BY <1>1, Given, GatewayBounds DEF SourceType
<1> HIDE DEF e
<1> QED
  BY <1>1, <1>2, <1>3, PassedBeside

LEMMA StreamDoneAnswers ==
    ASSUME Answering, StreamDone
    PROVE  Answering'
<1> DEFINE e == By("done")
<1>1. /\ Awaited /\ Pass(e) /\ loop' = loop /\ loop.at = "off"
      /\ source.at \in {"streaming", "ending"}
      /\ source' = [source EXCEPT !.at = "ended"]
  BY DEF StreamDone
<1>2. e \in Event /\ e.kind = "done"
  BY Given, Made DEF Kinds
<1>3. /\ source' \in SourceType /\ source'.at = "ended"
      /\ source'.name = source.name /\ source'.chunks >= source.chunks
  BY <1>1, Given DEF SourceType
<1> HIDE DEF e
<1> QED
  BY <1>1, <1>2, <1>3, PassedBeside DEF Visible

LEMMA StreamErrorAnswers ==
    ASSUME Answering, StreamError
    PROVE  Answering'
<1> DEFINE e == By("error")
<1>1. /\ Awaited /\ Pass(e) /\ guard = "open" /\ source.at = "streaming"
      /\ loop.at \in {"off", "model"}
      /\ source' = [source EXCEPT !.at = "ending"]
      /\ loop' = IF loop.at = "model" THEN [loop EXCEPT !.at = "finishing"]
                 ELSE loop
  BY DEF StreamError, Streaming, Awaited
<1>2. e \in Event /\ e.kind = "error" /\ e.by = source.name
  BY Given, Made DEF Kinds
<1>3. /\ source' \in SourceType /\ source'.at = "ending"
      /\ source'.name = source.name /\ source'.chunks >= source.chunks
  BY <1>1, Given DEF SourceType
<1> HIDE DEF e
<1>4. CASE loop.at = "off"
  BY <1>1, <1>2, <1>3, <1>4, PassedBeside
<1>5. CASE loop.at = "model"
  <2>1. /\ loop' \in Loops /\ loop'.at = "finishing"
        /\ loop'.round = loop.round /\ loop'.calls = loop.calls
        /\ loop'.next = loop.next /\ loop'.started = loop.started
    BY <1>1, <1>5, Given DEF Loops
  <2>2. ready' = e /\ guard' = "open" /\ request' = request
    BY <1>1, <1>2, Given, PassTold
  <2>3. LoopAgrees /\ loop.next \in Nat /\ loop.calls \in Nat
    BY Given
  <2>4. LoopAgrees'
    BY <1>2, <1>3, <1>5, <2>1, <2>2, <2>3, KindsApart DEF LoopAgrees
  <2>5. CallsAgree(Append(Told, e), loop)
    BY <1>1, <1>2, Given, OtherTold
  <2>6. CallsAgree(Append(Told, e), loop')
    BY <2>1, <2>5, LoopMoved
  <2>7. request.tools /\ e.by # "loop"
    BY <1>2, <1>5, <2>3, Given DEF LoopAgrees, SourceType, Services
  <2> QED
    BY <1>1, <1>2, <1>3, <1>5, <2>1, <2>4, <2>6, <2>7, Given, Passed DEF Going
<1> QED
  BY <1>1, <1>4, <1>5

LEMMA StreamCallAnswers ==
    ASSUME Answering, StreamCall
    PROVE  Answering'
<1> DEFINE call == <<loop.round, loop.calls + 1>>
           e == [By("call") EXCEPT !.call = call]
<1>1. /\ Awaited /\ Pass(e) /\ guard = "open" /\ source.at = "streaming"
      /\ source.chunks < MaxChunks /\ loop.at = "model"
      /\ source' = [source EXCEPT !.chunks = @ + 1]
      /\ loop' = [loop EXCEPT !.calls = @ + 1]
  BY DEF StreamCall, Chunk, Streaming, Awaited
<1>2. /\ loop.next = 1 /\ loop.calls <= source.chunks /\ ~loop.started
      /\ request.tools
  BY <1>1, Given DEF LoopAgrees
<1>3. loop.calls < MaxChunks /\ loop.calls + 1 \in 0..MaxChunks
  BY <1>1, <1>2, Given, GatewayBounds
<1>4. call \in CallIds
  BY <1>3, Given, GatewayBounds DEF CallIds, Loops
<1>5. e \in Event /\ e.kind = "call" /\ e.call = call
  BY <1>4, Given, Made DEF Kinds, Visible
<1>6. /\ source' \in SourceType /\ source'.at = source.at
      /\ source'.name = source.name /\ source'.chunks = source.chunks + 1
  <2> DEFINE c == source.chunks + 1
  <2>1. source \in SourceType
    BY Given
  <2>2. c \in 0..MaxChunks
    BY <1>1, <2>1, GatewayBounds DEF SourceType
  <2>3. source' = [source EXCEPT !.chunks = c]
    BY <1>1
  <2>4. c = source.chunks + 1
    OBVIOUS
  <2> HIDE DEF c
  <2> QED
    BY <2>1, <2>2, <2>3, <2>4 DEF SourceType
<1>7. /\ loop' \in Loops /\ loop'.at = "model" /\ loop'.calls = loop.calls + 1
      /\ loop'.round = loop.round /\ loop'.next = 1 /\ ~loop'.started
  <2> DEFINE c == loop.calls + 1
  <2>1. loop \in Loops
    BY Given
  <2>2. loop' = [loop EXCEPT !.calls = c] /\ c \in 0..MaxChunks
    BY <1>1, <1>3
  <2>3. c = loop.calls + 1
    OBVIOUS
  <2> HIDE DEF c
  <2> QED
    BY <1>1, <1>2, <2>1, <2>2, <2>3 DEF Loops
<1> HIDE DEF e
<1>8. LoopAgrees'
  <2>1. ready' = e /\ guard' = "open" /\ request' = request
    BY <1>1, <1>5, Given, PassTold
  <2>2. LoopAgrees /\ source.chunks \in Nat /\ loop.calls \in Nat
    BY Given
  <2> QED
    BY <1>1, <1>2, <1>5, <1>6, <1>7, <2>1, <2>2, KindsApart DEF LoopAgrees
<1>9. CallsAgree(Append(Told, e), loop')
  BY <1>1, <1>2, <1>5, <1>7, Given, CallTold
<1> QED
  BY <1>1, <1>2, <1>5, <1>6, <1>7, <1>8, <1>9, Given, Passed DEF Going

\* A service takes over before anything of the former was shown.
LEMMA TakeOverAnswers ==
    ASSUME Answering, NEW s \in Services, TakeOver(s), Streaming, ~visible,
           source.name # "httpx", loop.at = "off"
    PROVE  Answering'
<1>1. /\ guard = "open" /\ source.at = "streaming" /\ ready.kind \notin Kinds
      /\ source' = Started(s) /\ visible' = FALSE /\ loop' = loop
      /\ guard' = guard /\ request' = request /\ ready' = ready /\ sent' = sent
  BY NoChunk DEF TakeOver, Streaming, Awaited
<1>2. source' \in SourceType
  BY <1>1, GatewayBounds DEF Started, SourceType
<1>3. GatewayTypeOK'
  BY <1>1, <1>2, Given DEF GatewayTypeOK, SourceType
<1>4. LoopAgrees'
  BY <1>1, Given DEF LoopAgrees
<1>5. Told' = Told
  BY <1>1 DEF Told
<1> QED
  BY <1>1, <1>3, <1>4, <1>5, Given, Quiet DEF Going

LEMMA NativeFailsAnswers ==
    ASSUME Answering, NativeFails
    PROVE  Answering'
<1>1. /\ Streaming /\ source.name = "gemini" /\ ~visible /\ TakeOver("litellm")
  BY DEF NativeFails
<1>2. loop.at = "off"
  BY <1>1, Given DEF LoopAgrees
<1>3. "litellm" \in Services
  BY DEF Services
<1> HIDE DEF TakeOver, Streaming
<1> QED
  BY <1>1, <1>2, <1>3, TakeOverAnswers

LEMMA FallsBackAnswers ==
    ASSUME Answering, FallsBack
    PROVE  Answering'
<1>1. /\ Streaming /\ source.name = "litellm" /\ ~visible /\ TakeOver("httpx")
      /\ loop.at = "off"
  BY DEF FallsBack
<1>2. "httpx" \in Services
  BY DEF Services
<1> QED
  BY <1>1, <1>2, TakeOverAnswers

LEMMA ProxyEndsAnswers ==
    ASSUME Answering, NEW how \in {"ended", "raised"}, ProxyEnds(how)
    PROVE  Answering'
<1>1. /\ guard = "open" /\ source.at = "streaming" /\ ready.kind \notin Kinds
      /\ source' = [source EXCEPT !.at = how] /\ visible' = visible
      /\ loop' = loop /\ guard' = guard /\ request' = request
      /\ ready' = ready /\ sent' = sent
  BY NoChunk DEF ProxyEnds, Streaming, Awaited
<1>2. /\ source' \in SourceType /\ source'.at = how
      /\ source'.name = source.name /\ source'.chunks = source.chunks
  BY <1>1, Given DEF SourceType
<1>3. GatewayTypeOK'
  BY <1>1, <1>2, Given DEF GatewayTypeOK, SourceType
<1>4. LoopAgrees'
  BY <1>1, <1>2, Given DEF LoopAgrees
<1>5. Told' = Told
  BY <1>1 DEF Told
<1> QED
  BY <1>1, <1>2, <1>3, <1>4, <1>5, Given, Quiet DEF Going

LEMMA ExhaustedAnswers ==
    ASSUME Answering, Exhausted
    PROVE  Answering'
<1>1. /\ guard = "open" /\ ready.kind \notin Kinds /\ loop.at \in {"off", "over"}
      /\ request' = request /\ source' = source /\ visible' = visible
      /\ loop' = loop /\ sent' = sent /\ guard' = guard
  BY NoChunk DEF Exhausted, Awaited
<1>2. \/ ready' = [None EXCEPT !.kind = "end"]
      \/ ready' = [None EXCEPT !.kind = "raise"]
  BY DEF Exhausted
<1>3. ready'.kind \notin Kinds
  BY <1>2, NoChunk
<1>4. GatewayTypeOK'
  BY <1>1, <1>2, Given DEF GatewayTypeOK
<1>5. LoopAgrees'
  BY <1>1, Given DEF LoopAgrees
<1>6. Told' = Told
  BY <1>1, <1>3 DEF Told
<1> QED
  BY <1>1, <1>4, <1>5, <1>6, Given, Quiet

LEMMA ForwardAnswers ==
    ASSUME Answering, Forward
    PROVE  Answering'
<1>1. /\ guard = "open" /\ ready.kind \in Kinds
      /\ sent' = Append(sent, ready) /\ ready' = None
      /\ request' = request /\ source' = source /\ visible' = visible
      /\ loop' = loop /\ guard' = guard
  BY DEF Forward
<1>2. Told' = Told
  BY <1>1, NoChunk DEF Told
<1>3. Told \in Seq(Event) /\ Told = sent'
  BY <1>1, Given DEF Told
<1>4. GatewayTypeOK'
  BY <1>1, <1>3, Given DEF GatewayTypeOK
<1>5. LoopAgrees'
  BY <1>1, NoChunk, Given DEF LoopAgrees, None
<1> QED
  BY <1>1, <1>2, <1>4, <1>5, Given, Quiet

LEMMA RoundDoneAnswers ==
    ASSUME Answering, RoundDone
    PROVE  Answering'
<1>1. /\ guard = "open" /\ source.at = "streaming" /\ ready = None
      /\ loop.at = "model" /\ source' = [source EXCEPT !.at = "ended"]
      /\ loop' = [loop EXCEPT !.at = IF loop.calls = 0 THEN "finishing"
                                     ELSE "tools"]
      /\ request' = request /\ visible' = visible /\ ready' = ready
      /\ sent' = sent /\ guard' = guard
  BY DEF RoundDone, Streaming, Awaited
<1>2. /\ source' \in SourceType /\ source'.name = source.name
      /\ source'.chunks = source.chunks
  BY <1>1, Given DEF SourceType
<1>3. /\ loop' \in Loops /\ loop'.at \in {"finishing", "tools"}
      /\ loop'.at = "finishing" => loop.calls = 0
      /\ loop'.round = loop.round /\ loop'.calls = loop.calls
      /\ loop'.next = loop.next /\ loop'.started = loop.started
  BY <1>1, Given DEF Loops
<1>4. loop.next = 1 /\ ~loop.started /\ request.tools
  BY <1>1, Given DEF LoopAgrees
<1>5. GatewayTypeOK'
  BY <1>1, <1>2, <1>3, Given DEF GatewayTypeOK, SourceType, Loops
<1>6. LoopAgrees'
  <2>1. LoopAgrees /\ loop.calls \in Nat
    BY Given
  <2> QED
    BY <1>1, <1>2, <1>3, <1>4, <2>1, NoChunk DEF LoopAgrees, None
<1>7. Told' = Told
  BY <1>1 DEF Told
<1>8. CallsAgree(Told, loop')
  BY <1>1, <1>3, Given, LoopMoved
<1>9. Through'
  BY <1>3, <1>4 DEF Through
<1>10. Going /\ guard' = "open" /\ guard = "open" /\ request' = request
  BY <1>1 DEF Going
<1> QED
  BY <1>4, <1>5, <1>6, <1>7, <1>8, <1>9, <1>10, Quiet

LEMMA NextRoundAnswers ==
    ASSUME Answering, NextRound
    PROVE  Answering'
<1>1. /\ guard = "open" /\ ready = None /\ loop.at = "tools"
      /\ loop.next > loop.calls /\ loop.round < MaxToolRounds
      /\ source' = Started("litellm")
      /\ loop' = [loop EXCEPT !.at = "model", !.round = @ + 1, !.calls = 0,
                              !.next = 1]
      /\ request' = request /\ visible' = visible /\ ready' = ready
      /\ sent' = sent /\ guard' = guard
  BY DEF NextRound, Awaited
<1>2. /\ source' \in SourceType /\ source'.name = "litellm"
      /\ source'.chunks = 0
  BY <1>1, GatewayBounds DEF Started, SourceType, Services
<1>3. /\ loop.round + 1 \in 1..MaxToolRounds /\ 0 \in 0..MaxChunks
      /\ 1 \in 1..(MaxChunks + 1)
  BY <1>1, Given, GatewayBounds
<1>4. /\ loop' \in Loops /\ loop'.at = "model" /\ loop'.round = loop.round + 1
      /\ loop'.calls = 0 /\ loop'.next = 1 /\ loop'.started = loop.started
  <2>1. loop \in Loops
    BY Given
  <2> QED
    BY <1>1, <1>3, <2>1 DEF Loops
<1>5. ~loop.started /\ request.tools
  BY <1>1, Given DEF LoopAgrees
<1>6. GatewayTypeOK'
  BY <1>1, <1>2, <1>4, Given DEF GatewayTypeOK, SourceType, Loops
<1>7. LoopAgrees'
  BY <1>1, <1>2, <1>4, <1>5, NoChunk DEF LoopAgrees, None
<1>8. Told' = Told
  BY <1>1 DEF Told
<1>9. CallsAgree(Told, loop')
  BY <1>1, <1>4, <1>5, Given, RoundTold
<1>10. Going /\ guard' = "open" /\ guard = "open" /\ request' = request
  BY <1>1 DEF Going
<1>11. Through'
  BY <1>4 DEF Through
<1> QED
  BY <1>5, <1>6, <1>7, <1>8, <1>9, <1>10, <1>11, Quiet

\* The state of the loop when its tools are called.
LEMMA ToolFacts ==
    ASSUME Answering, Awaited, loop.at = "tools"
    PROVE  /\ guard = "open" /\ request.tools /\ Going
           /\ LoopAgrees /\ loop \in Loops /\ source \in SourceType
           /\ loop.next <= loop.calls => <<loop.round, loop.next>> \in CallIds
<1>1. guard = "open" /\ request.tools /\ LoopAgrees
  BY Given DEF Awaited, LoopAgrees
<1>2. loop \in Loops /\ source \in SourceType
  BY Given
<1>3. ASSUME loop.next <= loop.calls
      PROVE  <<loop.round, loop.next>> \in CallIds
  <2>1. loop.round \in 0..MaxToolRounds /\ loop.next \in 0..MaxChunks
    BY <1>2, <1>3, Given, GatewayBounds DEF Loops
  <2> QED
    BY <2>1 DEF CallIds
<1> QED
  BY <1>1, <1>2, <1>3 DEF Going

LEMMA ToolStartsAnswers ==
    ASSUME Answering, ToolStarts
    PROVE  Answering'
<1> DEFINE call == <<loop.round, loop.next>>
           e == FromLoop("started", call)
<1>1. /\ Awaited /\ loop.at = "tools" /\ loop.next <= loop.calls
      /\ ~loop.started /\ loop' = [loop EXCEPT !.started = TRUE]
      /\ Pass(e) /\ source' = source
  BY DEF ToolStarts, ToolsLeft
<1>2. call \in CallIds /\ request.tools /\ guard = "open" /\ Going
  BY <1>1, ToolFacts
<1>3. e \in Event /\ e.kind = "started" /\ e.call = call
  <2> HIDE DEF call
  <2> QED
    BY <1>2 DEF FromLoop, Event, Kinds, Visible
<1>4. /\ loop' \in Loops /\ loop'.at = "tools" /\ loop'.started
      /\ loop'.round = loop.round /\ loop'.calls = loop.calls
      /\ loop'.next = loop.next
  BY <1>1, Given DEF Loops
<1> HIDE DEF e
<1>5. LoopAgrees'
  <2>1. ready' = e /\ guard' = "open" /\ request' = request
    BY <1>1, <1>3, Given, PassTold
  <2>2. LoopAgrees
    BY Given
  <2> QED
    BY <1>1, <1>2, <1>3, <1>4, <2>1, <2>2, KindsApart DEF LoopAgrees
<1>6. CallsAgree(Append(Told, e), loop')
  BY <1>1, <1>2, <1>3, <1>4, Given, StartTold
<1>7. source' \in SourceType
  BY <1>1, Given
<1> QED
  BY <1>1, <1>2, <1>3, <1>4, <1>5, <1>6, <1>7, Passed

LEMMA ToolAnswersAnswers ==
    ASSUME Answering, ToolAnswers
    PROVE  Answering'
<1> DEFINE call == <<loop.round, loop.next>>
           e == FromLoop("answer", call)
<1>1. /\ Awaited /\ loop.at = "tools" /\ loop.next <= loop.calls
      /\ loop.started /\ loop' = [loop EXCEPT !.started = FALSE, !.next = @ + 1]
      /\ Pass(e) /\ source' = source
  BY DEF ToolAnswers, ToolsLeft
<1>2. call \in CallIds /\ request.tools /\ guard = "open" /\ Going
  BY <1>1, ToolFacts
<1>3. e \in Event /\ e.kind = "answer" /\ e.call = call
  <2> HIDE DEF call
  <2> QED
    BY <1>2 DEF FromLoop, Event, Kinds, Visible
<1>4. loop.next + 1 \in 1..(MaxChunks + 1)
  <2>1. loop.calls \in 0..MaxChunks /\ loop.next \in Nat
    BY Given DEF Loops
  <2> QED
    BY <1>1, <2>1, GatewayBounds
<1>5. /\ loop' \in Loops /\ loop'.at = "tools" /\ ~loop'.started
      /\ loop'.round = loop.round /\ loop'.calls = loop.calls
      /\ loop'.next = loop.next + 1
  BY <1>1, <1>4, Given DEF Loops
<1> HIDE DEF e
<1>6. LoopAgrees'
  <2>1. ready' = e /\ guard' = "open" /\ request' = request
    BY <1>1, <1>3, Given, PassTold
  <2>2. LoopAgrees /\ loop.next \in Nat /\ loop.calls \in Nat
    BY Given
  <2>3. loop'.next <= loop'.calls + 1
    BY <1>1, <1>5, <2>2
  <2> QED
    BY <1>1, <1>2, <1>3, <1>5, <2>1, <2>2, <2>3, KindsApart DEF LoopAgrees
<1>7. CallsAgree(Append(Told, e), loop')
  BY <1>1, <1>2, <1>3, <1>5, Given, AnswerTold
<1>8. source' \in SourceType
  BY <1>1, Given
<1> QED
  BY <1>1, <1>2, <1>3, <1>5, <1>6, <1>7, <1>8, Passed

LEMMA TooManyRoundsAnswers ==
    ASSUME Answering, TooManyRounds
    PROVE  Answering'
<1> DEFINE e == FromLoop("error", <<0, 0>>)
<1>1. /\ Awaited /\ loop.at = "tools" /\ loop.next > loop.calls
      /\ loop' = [loop EXCEPT !.at = "finishing"]
      /\ Pass(e) /\ source' = source
  BY DEF TooManyRounds
<1>2. request.tools /\ guard = "open" /\ Going
  BY <1>1, ToolFacts
<1>3. e \in Event /\ e.kind = "error"
  BY Given, Made DEF Kinds
<1>4. /\ loop' \in Loops /\ loop'.at = "finishing"
      /\ loop'.round = loop.round /\ loop'.calls = loop.calls
      /\ loop'.next = loop.next /\ loop'.started = loop.started
  BY <1>1, Given DEF Loops
<1> HIDE DEF e
<1>5. LoopAgrees'
  <2>1. ready' = e /\ guard' = "open" /\ request' = request
    BY <1>1, <1>3, Given, PassTold
  <2>2. LoopAgrees /\ loop.next \in Nat /\ loop.calls \in Nat
    BY Given
  <2>3. ~loop.started
    BY <1>1, <2>2 DEF LoopAgrees
  <2> QED
    BY <1>1, <1>2, <1>3, <1>4, <2>1, <2>2, <2>3, KindsApart DEF LoopAgrees
<1>6. CallsAgree(Append(Told, e), loop')
  <2>1. CallsAgree(Append(Told, e), loop)
    BY <1>2, <1>3, Given, OtherTold
  <2> QED
    BY <1>4, <2>1, LoopMoved
<1>7. source' \in SourceType
  BY <1>1, Given
<1> QED
  BY <1>1, <1>2, <1>3, <1>4, <1>5, <1>6, <1>7, Passed

LEMMA LoopDoneAnswers ==
    ASSUME Answering, LoopDone
    PROVE  Answering'
<1> DEFINE e == FromLoop("done", <<0, 0>>)
<1>1. /\ Awaited /\ loop.at = "finishing"
      /\ loop' = [loop EXCEPT !.at = "over"]
      /\ Pass(e) /\ source' = [source EXCEPT !.at = "ended"]
  BY DEF LoopDone
<1>2. guard = "open" /\ request.tools /\ Going /\ LoopAgrees /\ ~loop.started
  BY <1>1, Given DEF LoopAgrees, Going, Awaited
<1>3. e \in Event /\ e.kind = "done"
  BY Given, Made DEF Kinds
<1>4. /\ loop' \in Loops /\ loop'.at = "over"
      /\ loop'.round = loop.round /\ loop'.calls = loop.calls
      /\ loop'.next = loop.next /\ loop'.started = loop.started
  BY <1>1, Given DEF Loops
<1>5. /\ source' \in SourceType /\ source'.at = "ended"
      /\ source'.name = source.name
  BY <1>1, Given DEF SourceType
<1> HIDE DEF e
<1>6. ready' = e /\ guard' = "open" /\ request' = request /\ sent' = sent
      /\ Told' = Append(Told, e)
  BY <1>1, <1>3, Given, PassTold
<1>7. LoopAgrees'
  BY <1>1, <1>2, <1>3, <1>4, <1>5, <1>6, KindsApart DEF LoopAgrees
<1>8. CallsAgree(Append(Told, e), loop')
  <2>1. CallsAgree(Append(Told, e), loop)
    BY <1>2, <1>3, Given, OtherTold
  <2> QED
    BY <1>4, <2>1, LoopMoved
<1> QED
  BY <1>1, <1>2, <1>3, <1>4, <1>5, <1>7, <1>8, Passed

\* The services have ended their stream: every call the client was shown was
\* started and answered.
LEMMA StreamEndsAnswers ==
    ASSUME Answering, StreamEnds
    PROVE  Answering'
<1>1. /\ guard = "open" /\ ready.kind \in {"end", "raise"} /\ ready' = None
      /\ guard' \in {"completed", "raised"}
      /\ request' = request /\ source' = source /\ visible' = visible
      /\ loop' = loop /\ sent' = sent
  BY DEF StreamEnds, Close
<1>2. Told = sent /\ loop.at \in {"off", "over"}
  BY <1>1, NoChunk, Given DEF Told, LoopAgrees
<1>3. CallsAnswered'
  <2> SUFFICES ASSUME Shows({"error"})' \subseteq EventsBy("loop")',
                      NEW i \in DOMAIN sent, sent[i].kind = "call"
               PROVE  AnsweredAfter(sent, i)
    BY <1>1 DEF CallsAnswered, Shows, AnsweredAfter, StartsOf, AnswersOf
  <2>1. ~ \E k \in DOMAIN sent : sent[k].kind = "error" /\ sent[k].by # "loop"
    BY <1>1 DEF Shows, EventsBy
  <2>2. loop.next > loop.calls
    BY <1>1, <1>2, <2>1, Given DEF AllAnswered
  <2>3. EventAgrees(sent, loop, i) /\ sent[i] \in Event
    BY <1>1, <1>2, Given DEF CallsAgree
  <2>4. Past(sent[i].call, loop)
    <3>1. /\ sent[i].call[1] \in Nat /\ sent[i].call[2] \in Nat
          /\ sent[i].call[1] <= loop.round
          /\ sent[i].call[1] = loop.round => sent[i].call[2] <= loop.calls
      BY <2>3, EventTypes DEF EventAgrees
    <3> QED
      BY <2>2, <3>1, Given DEF Past
  <2> QED
    BY <2>3, <2>4 DEF EventAgrees
<1> QED
  BY <1>1, <1>3, Closed DEF Ends

LEMMA ClientGoneAnswers ==
    ASSUME Answering, ClientGone
    PROVE  Answering'
<1>1. /\ guard = "open" /\ ready' = None /\ guard' = "disconnected"
      /\ request' = request /\ source' = source /\ visible' = visible
      /\ loop' = loop /\ sent' = sent
  BY DEF ClientGone, Close
<1> QED
  BY <1>1, Closed DEF Ends, CallsAnswered

LEMMA IdleTimeoutAnswers ==
    ASSUME Answering, IdleTimeout
    PROVE  Answering'
<1> DEFINE e == [kind |-> "error", by |-> "guard", call |-> <<0, 0>>]
<1>1. /\ guard = "open" /\ ready' = None /\ guard' \in {"raised", "idle"}
      /\ request' = request /\ source' = source /\ visible' = visible
      /\ loop' = loop /\ (sent' = sent \/ sent' = Append(sent, e))
  BY DEF IdleTimeout, Close
<1>2. e \in Event /\ e.by = "guard"
  BY Given, Made DEF Event, Kinds
<1> HIDE DEF e
<1> QED
  BY <1>1, <1>2, Closed DEF Ends, CallsAnswered

LEMMA AnsweringNext == Answering /\ [GatewayNext]_gatewayVars => Answering'
<1> SUFFICES ASSUME Answering, [GatewayNext]_gatewayVars
             PROVE  Answering'
  OBVIOUS
<1>1. ASSUME NEW kind \in {"text", "meta"}, StreamText(kind)
      PROVE  Answering'
  BY <1>1, StreamTextAnswers
<1>2. CASE StreamCall
  BY <1>2, StreamCallAnswers
<1>3. CASE StreamError
  BY <1>3, StreamErrorAnswers
<1>4. CASE ProxiedError
  BY <1>4, ProxiedErrorAnswers
<1>5. CASE StreamDone
  BY <1>5, StreamDoneAnswers
<1>6. ASSUME NEW how \in {"ended", "raised"}, ProxyEnds(how)
      PROVE  Answering'
  BY <1>6, ProxyEndsAnswers
<1>7. CASE NativeFails
  BY <1>7, NativeFailsAnswers
<1>8. CASE FallsBack
  BY <1>8, FallsBackAnswers
<1>9. CASE Exhausted
  BY <1>9, ExhaustedAnswers
<1>10. CASE RoundDone
  BY <1>10, RoundDoneAnswers
<1>11. CASE ToolStarts
  BY <1>11, ToolStartsAnswers
<1>12. CASE ToolAnswers
  BY <1>12, ToolAnswersAnswers
<1>13. CASE NextRound
  BY <1>13, NextRoundAnswers
<1>14. CASE TooManyRounds
  BY <1>14, TooManyRoundsAnswers
<1>15. CASE LoopDone
  BY <1>15, LoopDoneAnswers
<1>16. CASE Forward
  BY <1>16, ForwardAnswers
<1>17. CASE StreamEnds
  BY <1>17, StreamEndsAnswers
<1>18. CASE ClientGone
  BY <1>18, ClientGoneAnswers
<1>19. CASE IdleTimeout
  BY <1>19, IdleTimeoutAnswers
<1>20. CASE UNCHANGED gatewayVars
  <2>1. /\ request' = request /\ source' = source /\ visible' = visible
        /\ ready' = ready /\ loop' = loop /\ sent' = sent /\ guard' = guard
    BY <1>20 DEF gatewayVars
  <2>2. GatewayTypeOK' /\ LoopAgrees' /\ Told' = Told
    BY <2>1, Given DEF GatewayTypeOK, LoopAgrees, Told
  <2>3. CASE guard = "open"
    BY <2>1, <2>2, <2>3, Given, Quiet
  <2>4. CASE guard # "open"
    <3>1. OneAnswer
      BY AnsweringIsEnough
    <3>2. OneAnswer'
      BY <2>1, <3>1
         DEF OneAnswer, OneService, CallsAnswered, OneEnd, Shows, EventsBy
    <3> QED
      BY <2>1, <2>2, <2>4, <3>2 DEF Answering
  <2> QED
    BY <2>3, <2>4
<1> QED
  BY <1>1, <1>2, <1>3, <1>4, <1>5, <1>6, <1>7, <1>8, <1>9, <1>10, <1>11, <1>12,
     <1>13, <1>14, <1>15, <1>16, <1>17, <1>18, <1>19, <1>20 DEF GatewayNext

-----------------------------------------------------------------------------
\* The variables of the gateway keep their types, for any number of rounds and
\* chunks (runtime_routing_service.py, tool_runtime_service.py, api/chat.py).
THEOREM GatewayTypeCorrect == GatewaySpec => []GatewayTypeOK
<1>1. Answering => GatewayTypeOK
  BY DEF Answering
<1> QED
  BY <1>1, AnsweringInit, AnsweringNext, PTL DEF GatewaySpec

\* A client gets one answer, for any number of rounds and chunks: what it is
\* shown without tools comes from one service, the stream has one end, and in
\* one that ends without an error of the model every call was answered once
\* and in order.
THEOREM AlwaysOneAnswer == GatewaySpec => []OneAnswer
BY AnsweringInit, AnsweringNext, AnsweringIsEnough, PTL DEF GatewaySpec

-----------------------------------------------------------------------------
(* The summaries of the setup agent: sequences.                            *)

\* A set of natural numbers that is not empty has a least one.
LEMMA LeastNat ==
    ASSUME NEW T \in SUBSET Nat, T # {}
    PROVE  \E x \in T : \A y \in T : x <= y
<1> DEFINE R == {p \in Nat \X Nat : p[1] < p[2]}
<1>1. IsWellFoundedOn(R, Nat)
  BY NatLessThanWellFounded DEF OpToRel
<1> HIDE DEF R
<1>2. PICK x \in T : \A y \in T : <<y, x>> \notin R
  BY <1>1, WFMin
<1>3. \A y \in T : ~(y < x)
  BY <1>2 DEF R
<1> QED
  BY <1>3

\* How far a discussion has been gone through, and that a function says it.
ItemOf(d, i) == [stage |-> d.stage, index |-> i, text |-> d.texts[i]]
SpokenNext(d, f, i) ==
    IF i = 0 THEN <<>>
    ELSE IF d.texts[i] = 0 THEN f[i - 1] ELSE Append(f[i - 1], ItemOf(d, i))
SpokenTo(d, f, k) ==
    f \in [0..k -> Seq(Items)] /\ \A i \in 0..k : f[i] = SpokenNext(d, f, i)

LEMMA SpokenStep ==
    ASSUME NEW d \in Discussions, NEW k \in 1..Len(d.texts), NEW f,
           SpokenTo(d, f, k - 1)
    PROVE  \E g : SpokenTo(d, g, k)
<1> DEFINE h == SpokenNext(d, f, k)
           g == [i \in 0..k |-> IF i = k THEN h ELSE f[i]]
<1>1. d.texts \in Seq(Nat) /\ Len(d.texts) \in Nat /\ k \in Nat /\ k >= 1
  BY ContextAssumption
<1>2. ItemOf(d, k) \in Items
  BY <1>1 DEF ItemOf, Items
<1>3. f[k - 1] \in Seq(Items)
  BY <1>1 DEF SpokenTo
<1>4. h \in Seq(Items)
  BY <1>1, <1>2, <1>3 DEF SpokenNext
<1>5. \A i \in 0..k : i = k \/ i \in 0..(k - 1)
  BY <1>1
<1> HIDE DEF h
<1>6. g \in [0..k -> Seq(Items)]
  BY <1>4, <1>5 DEF SpokenTo
<1>7. ASSUME NEW i \in 0..k
      PROVE  g[i] = SpokenNext(d, g, i)
  <2>1. i # 0 => i - 1 \in 0..(k - 1) /\ i - 1 \in 0..k /\ i - 1 # k
    BY <1>1
  <2>2. i # 0 => g[i - 1] = f[i - 1]
    BY <2>1
  <2>3. SpokenNext(d, g, i) = SpokenNext(d, f, i)
    <3> HIDE DEF g
    <3>1. CASE i = 0
      BY <3>1 DEF SpokenNext
    <3>2. CASE i # 0
      BY <2>2, <3>2 DEF SpokenNext
    <3> QED
      BY <3>1, <3>2
  <2>4. CASE i = k
    BY <2>3, <2>4 DEF h
  <2>5. CASE i # k
    BY <1>5, <2>3, <2>5 DEF SpokenTo
  <2> QED
    BY <2>4, <2>5
<1> HIDE DEF g
<1> QED
  BY <1>6, <1>7 DEF SpokenTo

\* What is left of a discussion without the empty messages is a sequence of
\* messages.
LEMMA SpokenTyped ==
    ASSUME NEW d \in Discussions
    PROVE  Spoken(d) \in Seq(Items)
<1> DEFINE n == Len(d.texts)
           Solves(f) == f = [i \in 0..n |-> SpokenNext(d, f, i)]
<1>1. d.texts \in Seq(Nat) /\ n \in Nat
  BY ContextAssumption
<1>2. \E f : SpokenTo(d, f, n)
  <2> DEFINE T == {k \in 0..n : ~ \E f : SpokenTo(d, f, k)}
  <2> SUFFICES ASSUME T # {}
               PROVE  FALSE
    BY <1>1
  <2>a. T \in SUBSET Nat /\ \A j \in 0..n : j \in T \/ \E f : SpokenTo(d, f, j)
    BY <1>1
  <2>b. \A j \in T : j \in 0..n /\ ~ \E f : SpokenTo(d, f, j)
    OBVIOUS
  <2> HIDE DEF T
  <2>1. PICK k \in T : \A j \in T : k <= j
    BY <2>a, LeastNat
  <2>2. k # 0
    <3>1. SpokenTo(d, [i \in 0..0 |-> <<>>], 0)
      BY DEF SpokenTo, SpokenNext
    <3> QED
      BY <2>1, <2>b, <3>1
  <2>3. k \in 1..n /\ k - 1 \in 0..n /\ ~(k <= k - 1)
    BY <1>1, <2>1, <2>2, <2>b
  <2>4. PICK f : SpokenTo(d, f, k - 1)
    BY <2>1, <2>3, <2>a
  <2>5. \E g : SpokenTo(d, g, k)
    BY <2>3, <2>4, SpokenStep
  <2> QED
    BY <2>1, <2>5, <2>b
<1>3. \E f : Solves(f)
  <2>1. PICK f : SpokenTo(d, f, n)
    BY <1>2
  <2>2. f \in [0..n -> Seq(Items)] /\ \A i \in 0..n : f[i] = SpokenNext(d, f, i)
    BY <2>1 DEF SpokenTo
  <2>3. f = [i \in 0..n |-> SpokenNext(d, f, i)]
    BY <2>2
  <2> QED
    BY <2>3
<1>4. Spoken(d) = (CHOOSE f : Solves(f))[n]
  BY DEF Spoken, SpokenNext, ItemOf
<1>5. PICK u : Solves(u) /\ Spoken(d) = u[n]
  BY <1>3, <1>4
<1>6. \A i \in 0..n : u[i] = SpokenNext(d, u, i)
  BY <1>5
<1>7. u[n] \in Seq(Items)
  <2> DEFINE T == {k \in 0..n : u[k] \notin Seq(Items)}
  <2> SUFFICES ASSUME T # {}
               PROVE  FALSE
    BY <1>1
  <2>a. T \in SUBSET Nat /\ \A j \in 0..n : j \in T \/ u[j] \in Seq(Items)
    BY <1>1
  <2>b. \A j \in T : j \in 0..n /\ u[j] \notin Seq(Items)
    OBVIOUS
  <2> HIDE DEF T
  <2>1. PICK k \in T : \A j \in T : k <= j
    BY <2>a, LeastNat
  <2>c. u[k] = SpokenNext(d, u, k) /\ u[k] \notin Seq(Items) /\ k \in 0..n
    BY <1>6, <2>1, <2>b
  <2>2. k # 0
    <3>1. SpokenNext(d, u, 0) = <<>> /\ <<>> \in Seq(Items)
      BY DEF SpokenNext
    <3> QED
      BY <2>c, <3>1
  <2>3. k - 1 \in 0..n /\ ~(k <= k - 1) /\ k \in 1..n
    BY <1>1, <2>1, <2>2, <2>c
  <2>4. u[k - 1] \in Seq(Items)
    BY <2>1, <2>3, <2>a
  <2>5. ItemOf(d, k) \in Items
    BY <1>1, <2>3 DEF ItemOf, Items
  <2>6. SpokenNext(d, u, k) \in Seq(Items)
    BY <2>2, <2>4, <2>5 DEF SpokenNext
  <2> QED
    BY <2>c, <2>6
<1> QED
  BY <1>5, <1>7

-----------------------------------------------------------------------------
(* The summaries of the setup agent: lines, and the messages they speak of. *)

\* A set of n things, some of them perhaps the same.
LEMMA ImageOf ==
    ASSUME NEW n \in Nat, NEW f, NEW S, S = {f[j] : j \in 1..n}
    PROVE  IsFiniteSet(S) /\ Cardinality(S) \in Nat /\ Cardinality(S) <= n
<1> DEFINE g == [j \in 1..n |-> f[j]]
<1>1. g \in Surjection(1..n, S)
  BY DEF Surjection
<1>2. IsFiniteSet(1..n) /\ Cardinality(1..n) = n
  BY FS_Interval
<1> HIDE DEF g
<1>3. IsFiniteSet(S) /\ Cardinality(S) <= n
  BY <1>1, <1>2, FS_Surjection
<1> QED
  BY <1>3, FS_CardinalityType

\* The lines of a base and those of the first i new messages.
LinesTo(base, f, i) == base \cup {f[j] : j \in 1..i}

LEMMA LinesToFinite ==
    ASSUME NEW base, IsFiniteSet(base), NEW f, NEW i \in Nat
    PROVE  IsFiniteSet(LinesTo(base, f, i)) /\ Cardinality(LinesTo(base, f, i)) \in Nat
<1>1. IsFiniteSet({f[j] : j \in 1..i})
  BY ImageOf
<1> QED
  BY <1>1, FS_Union, FS_CardinalityType DEF LinesTo

\* Those there is room for.
Fitting(base, f, n) ==
    {k \in 1..n : Cardinality(LinesTo(base, f, k)) <= LineLimit}
LinesTaken(base, f, n) == base \cup {f[i] : i \in Fitting(base, f, n)}

\* Lines are taken as far as there is room: never more than that.
LEMMA LinesFit ==
    ASSUME NEW base, IsFiniteSet(base), Cardinality(base) <= LineLimit,
           NEW n \in Nat, NEW f
    PROVE  /\ IsFiniteSet(LinesTaken(base, f, n))
           /\ Cardinality(LinesTaken(base, f, n)) <= LineLimit
<1> DEFINE K == Fitting(base, f, n)
           lines == LinesTaken(base, f, n)
<1>0. Cardinality(base) \in Nat /\ LineLimit \in Nat
  BY FS_CardinalityType, ContextAssumption
<1>1. CASE K = {}
  <2>1. lines = base
    BY <1>1 DEF LinesTaken
  <2> QED
    BY <2>1
<1>2. CASE K # {}
  <2> DEFINE T == {x \in 0..n : \A k \in K : k <= x}
  <2>1. T \in SUBSET Nat /\ n \in T
    BY DEF Fitting
  <2>2. \A x \in T : x \in Nat /\ x <= n /\ \A k \in K : k <= x
    OBVIOUS
  <2>3. \A x \in 0..n : x \notin T => \E k \in K : ~(k <= x)
    OBVIOUS
  <2> HIDE DEF T, K, lines
  <2>4. PICK m \in T : \A y \in T : m <= y
    BY <2>1, LeastNat
  <2>5. \A k \in K : k \in 1..n /\ Cardinality(LinesTo(base, f, k)) <= LineLimit
    BY DEF Fitting, K
  <2>6. m \in K
    <3>1. PICK k \in K : k \in 1..n
      BY <1>2, <2>5
    <3>2. m \in 1..n /\ m - 1 \in 0..n /\ ~(m <= m - 1)
      BY <2>2, <2>4, <3>1
    <3>3. m - 1 \notin T
      BY <2>4, <3>2
    <3>4. PICK j \in K : ~(j <= m - 1)
      BY <2>3, <3>2, <3>3
    <3>5. j \in 1..n /\ j <= m
      BY <2>2, <2>4, <2>5, <3>4
    <3>6. j = m
      BY <3>2, <3>4, <3>5
    <3> QED
      BY <3>4, <3>6
  <2>7. m \in Nat /\ Cardinality(LinesTo(base, f, m)) <= LineLimit
    BY <2>5, <2>6
  <2>8. lines \subseteq LinesTo(base, f, m)
    <3>1. \A i \in K : i \in 1..m
      BY <2>2, <2>4, <2>5, <2>7
    <3> QED
      BY <3>1 DEF LinesTo, LinesTaken, K, lines
  <2>9. IsFiniteSet(LinesTo(base, f, m)) /\ Cardinality(LinesTo(base, f, m)) \in Nat
    BY <2>7, LinesToFinite
  <2>10. IsFiniteSet(lines) /\ Cardinality(lines) <= Cardinality(LinesTo(base, f, m))
    BY <2>8, <2>9, FS_Subset
  <2>11. Cardinality(lines) \in Nat
    BY <2>10, FS_CardinalityType
  <2> QED
    BY <1>0, <2>7, <2>9, <2>10, <2>11 DEF lines
<1> QED
  BY <1>1, <1>2

\* Where all the lines there may be fit, none is left out.
LEMMA AllLinesFit ==
    ASSUME NEW base, NEW n \in Nat, NEW f, NEW U, IsFiniteSet(U),
           Cardinality(U) <= LineLimit, base \subseteq U,
           \A j \in 1..n : f[j] \in U, NEW k \in 1..n
    PROVE  Cardinality(LinesTo(base, f, k)) <= LineLimit
<1>1. LinesTo(base, f, k) \subseteq U
  <2>1. \A j \in 1..k : j \in 1..n
    OBVIOUS
  <2> QED
    BY <2>1 DEF LinesTo
<1>2. /\ IsFiniteSet(LinesTo(base, f, k))
      /\ Cardinality(LinesTo(base, f, k)) <= Cardinality(U)
  BY <1>1, FS_Subset
<1>3. /\ Cardinality(LinesTo(base, f, k)) \in Nat /\ Cardinality(U) \in Nat
      /\ LineLimit \in Nat
  BY <1>2, FS_CardinalityType, ContextAssumption
<1> QED
  BY <1>2, <1>3

-----------------------------------------------------------------------------
(* The summaries of the setup agent: which there are.                       *)

\* What a summary takes if each message that no model has answered for has a
\* line to itself.
Need(s) == Cardinality(OwnLines(s)) + s.count - s.worded

\* Such messages are spoken of, all of them, as long as they fit.
SpeaksOfRest(s) ==
    Need(s) <= LineLimit =>
      \A i \in (s.worded + 1)..s.count : s.source[i] \in s.about

\* A summary of any number of messages, whoever made it.
SoundSummary(s) ==
    /\ s \in Summaries
    /\ IsFiniteSet(s.lines) /\ Cardinality(s.lines) <= LineLimit
    /\ s.count = Len(s.source) /\ s.about \subseteq Range(s.source)
    /\ s.worded <= s.count /\ Cardinality(s.lines) <= Need(s)
    /\ SpeaksOfRest(s)

LEMMA DroppedTyped ==
    ASSUME NEW d \in Discussions, NEW p \in Profiles
    PROVE  Dropped(d, p) \in Seq(Items)
<1>1. Spoken(d) \in Seq(Items) /\ RawWindow[p] \in Nat
  BY SpokenTyped, ContextAssumption
<1> DEFINE u == Spoken(d)
           w == RawWindow[p]
<1>2. Len(u) - w \in Int /\ Len(u) - w <= Len(u)
  BY <1>1
<1>3. Dropped(d, p) = SubSeq(u, 1, Len(u) - w)
  BY DEF Dropped
<1> HIDE DEF u, w
<1>4. u \in Seq(Items)
  BY <1>1 DEF u
<1> QED
  BY <1>2, <1>3, <1>4

LEMMA NoneIsSound == SoundSummary(NoSummary)
<1>1. NoSummary \in Summaries
  BY DEF NoSummary, Summaries
<1>2. Range(<<>>) = {}
  BY DEF Range
<1>3. LineLimit \in Nat
  BY ContextAssumption
<1>4. IsFiniteSet({}) /\ Cardinality({}) = 0
  BY FS_EmptySet
<1>5. /\ NoSummary.source = <<>> /\ NoSummary.count = 0 /\ NoSummary.lines = {}
      /\ NoSummary.about = {} /\ NoSummary.worded = 0
  BY DEF NoSummary
<1>6. OwnLines(NoSummary) = {}
  BY <1>5 DEF OwnLines
<1>7. Need(NoSummary) = 0
  BY <1>4, <1>5, <1>6 DEF Need
<1>8. SpeaksOfRest(NoSummary)
  BY <1>5 DEF SpeaksOfRest
<1> QED
  BY <1>1, <1>2, <1>3, <1>4, <1>5, <1>7, <1>8 DEF SoundSummary

\* What a new summary starts from and what is new make up what was dropped.
LEMMA OldAndNew ==
    ASSUME NEW d \in Seq(Items), NEW s, SoundSummary(s),
           NEW base, base = Base(d, s), NEW new, new = NewItems(d, s)
    PROVE  /\ SoundSummary(base) /\ new \in Seq(Items)
           /\ Len(base.source) <= Len(d) /\ Len(new) <= Len(d)
           /\ Range(base.source) \subseteq Range(d) /\ Range(new) \subseteq Range(d)
           /\ Len(base.source) + Len(new) = Len(d)
           /\ \A x \in 1..Len(base.source) : d[x] = base.source[x]
           /\ \A x \in (Len(base.source) + 1)..Len(d) : d[x] \in Range(new)
<1>1. CASE Action(d, s) = "updated"
  <2>1. IsValidPrefix(s, d)
    BY <1>1 DEF Action
  <2> DEFINE c == s.count
             n == Len(d)
  <2>2. base = s /\ new = SubSeq(d, c + 1, n)
    BY <1>1 DEF Base, NewItems
  <2>3. c \in Nat /\ c > 0 /\ c <= n /\ n \in Nat /\ s.source \in Seq(Items)
    BY <2>1 DEF IsValidPrefix, SoundSummary, Summaries
  <2>4. SubSeq(d, 1, c) = s.source
    BY <2>1 DEF IsValidPrefix
  <2>5. \A x \in 1..n : d[x] \in Items
    OBVIOUS
  <2> HIDE DEF c
  <2>6. Len(s.source) = c /\ \A x \in 1..c : s.source[x] = d[x]
    BY <2>3, <2>4
  <2>7. /\ new \in Seq(Items) /\ Len(new) = n - c
        /\ \A x \in 1..(n - c) : new[x] = d[c + x]
    BY <2>2, <2>3
  <2>8. Range(s.source) \subseteq Range(d)
    BY <2>3, <2>6 DEF Range
  <2>9. Range(new) \subseteq Range(d)
    <3>1. \A x \in 1..(n - c) : c + x \in 1..n
      BY <2>3
    <3>2. \A x \in 1..(n - c) : new[x] \in Range(d)
      BY <2>7, <3>1 DEF Range
    <3>3. DOMAIN new = 1..(n - c)
      BY <2>3, <2>7
    <3> QED
      BY <3>2, <3>3 DEF Range
  <2>10. \A x \in (c + 1)..n : d[x] \in Range(new)
    <3> SUFFICES ASSUME NEW x \in (c + 1)..n
                 PROVE  d[x] \in Range(new)
      OBVIOUS
    <3>1. x - c \in 1..(n - c) /\ c + (x - c) = x
      BY <2>3
    <3>2. new[x - c] = d[x]
      BY <3>1, <2>7
    <3> QED
      BY <3>1, <3>2, <2>7 DEF Range
  <2>11. Len(s.source) <= n /\ Len(new) <= n /\ c + Len(new) = n
    BY <2>3, <2>6, <2>7
  <2> QED
    BY <2>2, <2>6, <2>7, <2>8, <2>9, <2>10, <2>11
<1>2. CASE Action(d, s) # "updated"
  <2>1. base = NoSummary /\ new = d
    BY <1>2 DEF Base, NewItems
  <2>2. base.source = <<>> /\ Len(base.source) = 0 /\ Len(d) \in Nat
    BY <2>1 DEF NoSummary
  <2>3. Len(base.source) <= Len(d) /\ Range(base.source) = {}
    BY <2>2 DEF Range
  <2>4. \A x \in 1..Len(d) : d[x] \in Range(d)
    BY DEF Range
  <2> QED
    BY <2>1, <2>2, <2>3, <2>4, NoneIsSound
<1> QED
  BY <1>1, <1>2

LEMMA FirstOf ==
    ASSUME NEW new \in Seq(Items), NEW first, first = AtMost(new, LineLimit)
    PROVE  /\ first \in Seq(Items) /\ Range(first) \subseteq Range(new)
           /\ Len(new) <= LineLimit => first = new
<1>1. LineLimit \in Nat /\ Len(new) \in Nat
  BY ContextAssumption
<1>2. CASE Len(new) <= LineLimit
  <2>1. first = SubSeq(new, 1, Len(new))
    <3>1. CASE Len(new) < LineLimit
      BY <3>1 DEF AtMost
    <3>2. CASE ~(Len(new) < LineLimit)
      BY <1>1, <1>2, <3>2 DEF AtMost
    <3> QED
      BY <3>1, <3>2
  <2>2. first = new
    BY <1>1, <2>1
  <2> QED
    BY <2>2
<1>3. CASE ~(Len(new) <= LineLimit)
  <2>1. first = SubSeq(new, 1, LineLimit)
    BY <1>1, <1>3 DEF AtMost
  <2>2. /\ first \in Seq(Items) /\ Len(first) = LineLimit
        /\ \A x \in 1..LineLimit : x \in 1..Len(new) /\ first[x] = new[x]
    BY <1>1, <1>3, <2>1
  <2> QED
    BY <1>3, <2>2 DEF Range
<1> QED
  BY <1>2, <1>3

LEMMA FirstIsShort ==
    ASSUME NEW new \in Seq(Items)
    PROVE  Len(AtMost(new, LineLimit)) <= Len(new)
<1>1. LineLimit \in Nat /\ Len(new) \in Nat
  BY ContextAssumption
<1>2. CASE Len(new) < LineLimit
  BY <1>1, <1>2 DEF AtMost
<1>3. CASE ~(Len(new) < LineLimit)
  <2>1. AtMost(new, LineLimit) = SubSeq(new, 1, LineLimit)
    BY <1>3 DEF AtMost
  <2> QED
    BY <1>1, <1>3, <2>1
<1> QED
  BY <1>2, <1>3

LEMMA PlainIsSound ==
    ASSUME NEW d \in Seq(Items), NEW s, SoundSummary(s)
    PROVE  SoundSummary(PlainSummary(d, s)) /\ PlainSummary(d, s).source = d
<1> DEFINE base == Base(d, s)
           new == NewItems(d, s)
           first == AtMost(new, LineLimit)
           n == Len(first)
           f == [j \in 1..n |-> first[j].text]
           K == Fitting(base.lines, f, n)
           lines == base.lines \cup {f[i] : i \in K}
           about == base.about \cup {m \in Range(first) : m.text \in lines}
           plain == PlainSummary(d, s)
<1>1. /\ SoundSummary(base) /\ new \in Seq(Items)
      /\ Len(base.source) <= Len(d) /\ Len(new) <= Len(d)
      /\ Range(base.source) \subseteq Range(d) /\ Range(new) \subseteq Range(d)
      /\ Len(base.source) + Len(new) = Len(d)
      /\ \A x \in 1..Len(base.source) : d[x] = base.source[x]
      /\ \A x \in (Len(base.source) + 1)..Len(d) : d[x] \in Range(new)
  BY OldAndNew
<1> HIDE DEF base, new
<1>2. /\ first \in Seq(Items) /\ Range(first) \subseteq Range(new)
      /\ Len(new) <= LineLimit => first = new
  BY <1>1, FirstOf
<1>3. plain = [source |-> d, count |-> Len(d), lines |-> lines, about |-> about,
               worded |-> base.worded]
  <2> DEFINE With(i) == base.lines \cup {first[j].text : j \in 1..i}
             K2 == {k \in DOMAIN first : Cardinality(With(k)) <= LineLimit}
             lines2 == base.lines \cup {first[i].text : i \in K2}
  <2> HIDE DEF first
  <2>1. DOMAIN first = 1..n /\ n \in Nat
    BY <1>2
  <2>2. ASSUME NEW k \in 1..n
        PROVE  With(k) = LinesTo(base.lines, f, k)
    <3>1. \A j \in 1..k : j \in 1..n /\ f[j] = first[j].text
      BY <2>1
    <3> HIDE DEF f
    <3> QED
      BY <3>1 DEF LinesTo
  <2>3. K2 = K
    <3> HIDE DEF With
    <3> QED
      BY <2>1, <2>2 DEF Fitting
  <2>4. \A i \in K : f[i] = first[i].text
    BY DEF Fitting
  <2>5. lines2 = lines
    <3> HIDE DEF f, K, K2
    <3> QED
      BY <2>3, <2>4
  <2>6. plain = [source |-> d, count |-> Len(d), lines |-> lines2,
                 about |-> base.about \cup {m \in Range(first) : m.text \in lines2},
                 worded |-> base.worded]
    BY DEF PlainSummary, base, first, new
  <2> HIDE DEF lines, lines2, plain
  <2> QED
    BY <2>5, <2>6
<1>4. n \in Nat /\ LineLimit \in Nat /\ Len(d) \in Nat
  BY <1>2, ContextAssumption
<1> HIDE DEF first
<1>5. \A j \in 1..n : /\ first[j] \in Items /\ first[j] \in Range(first)
                      /\ f[j] = first[j].text /\ f[j] \in Nat
  <2>1. \A j \in 1..n : first[j] \in Items /\ first[j] \in Range(first)
    BY <1>2 DEF Range
  <2>2. \A m \in Items : m.text \in Nat
    BY DEF Items
  <2> QED
    BY <2>1, <2>2
<1>6. /\ base \in Summaries /\ IsFiniteSet(base.lines)
      /\ Cardinality(base.lines) <= LineLimit
      /\ base.about \subseteq Range(base.source)
      /\ base.count = Len(base.source) /\ base.worded <= base.count
      /\ Cardinality(base.lines) <= Need(base) /\ SpeaksOfRest(base)
  BY <1>1 DEF SoundSummary
<1>7. IsFiniteSet(lines) /\ Cardinality(lines) <= LineLimit
  <2> HIDE DEF f, K, lines
  <2>1. lines = LinesTaken(base.lines, f, n)
    BY DEF lines, K, LinesTaken
  <2>3. n \in Nat /\ IsFiniteSet(base.lines) /\ Cardinality(base.lines) <= LineLimit
    BY <1>4, <1>6
  <2> HIDE DEF n
  <2> QED
    BY <2>1, <2>3, LinesFit
<1>8. \A i \in K : i \in 1..n
  BY DEF Fitting
<1>9. \A l \in lines : l \in base.lines \/ \E i \in 1..n : l = f[i]
  <2> HIDE DEF f, K
  <2> QED
    BY <1>8
<1>10. lines \subseteq Int
  <2>1. base.lines \subseteq Int
    BY <1>6 DEF Summaries
  <2> HIDE DEF f, lines
  <2> QED
    BY <1>5, <1>9, <2>1
<1>11. Range(d) \subseteq Items
  BY DEF Range
<1>12. about \subseteq Range(d)
  <2> HIDE DEF lines
  <2> QED
    BY <1>1, <1>2, <1>6
<1>13. plain \in Summaries
  <2> HIDE DEF lines, about, plain
  <2>1. /\ about \in SUBSET Items /\ lines \in SUBSET Int /\ Len(d) \in Nat
        /\ base.worded \in Nat
    BY <1>4, <1>6, <1>10, <1>11, <1>12 DEF Summaries
  <2> QED
    BY <1>3, <2>1 DEF Summaries
<1> DEFINE U == base.lines \cup {f[j] : j \in 1..n}
           own == Cardinality(OwnLines(base))
           c == base.count
           w == base.worded
<1>14. /\ IsFiniteSet(U) /\ Cardinality(U) \in Nat
       /\ Cardinality(U) <= Cardinality(base.lines) + n
  <2> DEFINE V == {f[j] : j \in 1..n}
  <2>1. IsFiniteSet(V) /\ Cardinality(V) \in Nat /\ Cardinality(V) <= n
    <3> HIDE DEF f
    <3> QED
      BY <1>4, ImageOf
  <2> HIDE DEF V
  <2>2. /\ IsFiniteSet(base.lines \cup V)
        /\ Cardinality(base.lines \cup V)
             = Cardinality(base.lines) + Cardinality(V)
                 - Cardinality(base.lines \cap V)
    BY <1>6, <2>1, FS_Union
  <2>3. IsFiniteSet(base.lines \cap V)
    BY <2>1, FS_Intersection
  <2>4. /\ Cardinality(base.lines \cap V) \in Nat
        /\ Cardinality(base.lines \cup V) \in Nat
        /\ Cardinality(base.lines) \in Nat
    BY <1>6, <2>2, <2>3, FS_CardinalityType
  <2>5. U = base.lines \cup V
    BY DEF V
  <2> HIDE DEF U
  <2>6. \A x, y, z \in Nat : x + y - z <= x + y
    OBVIOUS
  <2>7. Cardinality(U) <= Cardinality(base.lines) + Cardinality(V)
    BY <2>1, <2>2, <2>4, <2>5, <2>6
  <2> HIDE DEF n
  <2> QED
    BY <1>4, <2>1, <2>2, <2>4, <2>5, <2>7
<1>15. c \in Nat /\ w \in Nat /\ w <= c /\ c = Len(base.source)
  BY <1>6 DEF Summaries
<1>16. own \in Nat
  <2>1. OwnLines(base) \subseteq base.lines
    BY DEF OwnLines
  <2> QED
    BY <1>6, <2>1, FS_Subset, FS_CardinalityType
<1>17. Len(new) \in Nat /\ c + Len(new) = Len(d) /\ n <= Len(new)
  <2>1. Len(new) \in Nat /\ c + Len(new) = Len(d)
    BY <1>1, <1>15
  <2>2. n <= Len(new)
    BY <1>1, FirstIsShort DEF first
  <2> QED
    BY <2>1, <2>2
<1>18. Cardinality(U) <= own + Len(d) - w
  <2>1. Cardinality(base.lines) <= own + c - w
    BY <1>6 DEF Need
  <2>2. Cardinality(base.lines) \in Nat
    BY <1>6, FS_CardinalityType
  <2> HIDE DEF U, own, c, w, n
  <2> QED
    BY <1>4, <1>14, <1>15, <1>16, <1>17, <2>1, <2>2
<1>19. \A j \in 1..n : f[j] \in U
  OBVIOUS
<1>20. lines \subseteq U
  <2> HIDE DEF f, K
  <2> QED
    BY <1>8
<1>21. base.lines \subseteq U
  OBVIOUS
<1>22. {l \in lines : l < 0} = OwnLines(base)
  <2>1. base.lines \subseteq lines
    OBVIOUS
  <2>2. \A i \in 1..n : f[i] \in Nat
    BY <1>5
  <2> HIDE DEF f, lines
  <2>3. ASSUME NEW l \in lines, l < 0
        PROVE  l \in base.lines
    <3>1. CASE l \in base.lines
      BY <3>1
    <3>2. CASE \E i \in 1..n : l = f[i]
      <4>1. l \in Nat
        BY <2>2, <3>2
      <4> QED
        BY <2>3, <4>1
    <3> QED
      BY <1>9, <3>1, <3>2
  <2> QED
    BY <2>1, <2>3 DEF OwnLines
<1>23. ASSUME own + Len(d) - w <= LineLimit
       PROVE  \A i \in (w + 1)..Len(d) : d[i] \in about
  <2> HIDE DEF U, own, c, w
  <2>1. first = new
    <3>1. Len(new) <= LineLimit
      BY <1>4, <1>15, <1>16, <1>17, <1>23
    <3> QED
      BY <1>2, <3>1
  <2>2. \A i \in (w + 1)..c : base.source[i] \in base.about
    <3>1. Need(base) <= LineLimit
      <4>1. Need(base) = own + c - w
        BY DEF Need, own, c, w
      <4> QED
        BY <1>4, <1>15, <1>16, <1>17, <1>23, <4>1
    <3> QED
      BY <1>6, <3>1 DEF SpeaksOfRest, c, w
  <2>3. Cardinality(U) <= LineLimit
    BY <1>4, <1>14, <1>15, <1>16, <1>18, <1>23
  <2>4. \A k \in 1..n : Cardinality(LinesTo(base.lines, f, k)) <= LineLimit
    <3> HIDE DEF f
    <3> QED
      BY <1>4, <1>14, <1>19, <1>21, <2>3, AllLinesFit
  <2>5. \A i \in 1..n : f[i] \in lines
    <3>1. \A i \in 1..n : i \in K
      BY <2>4 DEF Fitting
    <3> HIDE DEF f, K
    <3> QED
      BY <3>1
  <2>6. Range(new) \subseteq about
    <3> HIDE DEF f, lines
    <3> SUFFICES ASSUME NEW m \in Range(first)
                 PROVE  m \in about
      BY <2>1
    <3>1. PICK i \in 1..n : m = first[i]
      BY <1>2 DEF Range
    <3>2. m.text \in lines
      BY <1>5, <2>5, <3>1
    <3> QED
      BY <3>2
  <2>7. base.about \subseteq about
    OBVIOUS
  <2> HIDE DEF about
  <2> SUFFICES ASSUME NEW i \in (w + 1)..Len(d)
               PROVE  d[i] \in about
    OBVIOUS
  <2>8. CASE i <= c
    <3>1. i \in (w + 1)..c /\ i \in 1..Len(base.source)
      BY <1>4, <1>15, <2>8
    <3>2. d[i] = base.source[i]
      BY <1>1, <3>1
    <3> QED
      BY <2>2, <2>7, <3>1, <3>2
  <2>9. CASE ~(i <= c)
    <3>1. i \in (Len(base.source) + 1)..Len(d)
      BY <1>4, <1>15, <2>9
    <3> QED
      BY <1>1, <2>6, <3>1
  <2> QED
    BY <2>8, <2>9
<1>24. Cardinality(lines) \in Nat /\ Cardinality(lines) <= Cardinality(U)
  <2> HIDE DEF lines, U
  <2> QED
    BY <1>7, <1>14, <1>20, FS_Subset, FS_CardinalityType
<1> HIDE DEF plain, lines, about, U
<1>25. /\ plain.source = d /\ plain.count = Len(d) /\ plain.lines = lines
       /\ plain.about = about /\ plain.worded = w
  BY <1>3
<1>26. OwnLines(plain) = OwnLines(base)
  BY <1>22, <1>25 DEF OwnLines
<1>27. Need(plain) = own + Len(d) - w
  BY <1>25, <1>26 DEF Need
<1> HIDE DEF own, c, w
<1>28. SpeaksOfRest(plain)
  BY <1>23, <1>25, <1>27 DEF SpeaksOfRest
<1>29. w <= Len(d) /\ Cardinality(lines) <= own + Len(d) - w
  BY <1>4, <1>14, <1>15, <1>16, <1>17, <1>18, <1>24
<1>30. SoundSummary(plain)
  BY <1>7, <1>12, <1>13, <1>25, <1>27, <1>28, <1>29 DEF SoundSummary
<1> QED
  BY <1>25, <1>30 DEF plain

LEMMA ModelIsSound ==
    ASSUME NEW d \in Seq(Items), NEW s, SoundSummary(s), NEW n \in 0..LineLimit
    PROVE  SoundSummary(ModelSummary(d, s, n)) /\ ModelSummary(d, s, n).source = d
<1> DEFINE base == Base(d, s)
           new == NewItems(d, s)
           f == [k \in 1..n |-> -k]
           lines == {-k : k \in 1..n}
           about == IF n = 0 THEN {} ELSE base.about \cup Range(new)
           told == ModelSummary(d, s, n)
<1>1. /\ SoundSummary(base)
      /\ Range(base.source) \subseteq Range(d) /\ Range(new) \subseteq Range(d)
  BY OldAndNew
<1>2. n \in Nat /\ n <= LineLimit /\ LineLimit \in Nat /\ Len(d) \in Nat
  BY ContextAssumption
<1>3. told = [source |-> d, count |-> Len(d), lines |-> lines, about |-> about,
              worded |-> Len(d)]
  BY DEF ModelSummary
<1>4. /\ IsFiniteSet(lines) /\ Cardinality(lines) \in Nat
      /\ Cardinality(lines) <= LineLimit
  <2>1. lines = {f[k] : k \in 1..n}
    OBVIOUS
  <2> HIDE DEF f, lines
  <2>2. IsFiniteSet(lines) /\ Cardinality(lines) \in Nat /\ Cardinality(lines) <= n
    BY <1>2, <2>1, ImageOf
  <2> QED
    BY <1>2, <2>2
<1>5. \A l \in lines : l \in Int /\ l < 0
  BY <1>2
<1> HIDE DEF base, new, lines
<1>6. about \subseteq Range(d)
  BY <1>1 DEF SoundSummary
<1>7. Range(d) \subseteq Items
  BY DEF Range
<1> HIDE DEF about, told
<1>8. told \in Summaries
  BY <1>2, <1>3, <1>5, <1>6, <1>7 DEF Summaries
<1>9. /\ told.source = d /\ told.count = Len(d) /\ told.worded = Len(d)
      /\ told.lines = lines /\ told.about = about
  BY <1>3
<1>10. OwnLines(told) = lines
  BY <1>5, <1>9 DEF OwnLines
<1>11. Need(told) = Cardinality(lines)
  BY <1>2, <1>4, <1>9, <1>10 DEF Need
<1>12. SpeaksOfRest(told)
  BY <1>2, <1>9 DEF SpeaksOfRest
<1>13. SoundSummary(told)
  BY <1>2, <1>4, <1>6, <1>8, <1>9, <1>11, <1>12 DEF SoundSummary
<1> QED
  BY <1>9, <1>13 DEF told

-----------------------------------------------------------------------------
(* The summaries of the setup agent: the invariant.                         *)

\* Every summary that is stored or that a turn has is a sound one, and a turn
\* that runs is shown that of what was dropped from its discussion.
Summarised ==
    /\ SoundSummary(stored) /\ turn \in [Slots -> Turns]
    /\ \A t \in Slots :
         /\ SoundSummary(turn[t].summary)
         /\ turn[t].phase = "running" => turn[t].summary.source = turn[t].dropped

LEMMA SummarisedIsEnough == Summarised => SetupContextTypeOK /\ SummaryIsOfItsTurn
<1> SUFFICES ASSUME Summarised
             PROVE  SetupContextTypeOK /\ SummaryIsOfItsTurn
  OBVIOUS
<1>1. SetupContextTypeOK
  BY DEF Summarised, SetupContextTypeOK, SoundSummary
<1>2. SummaryIsCurrent
  BY DEF Summarised, SummaryIsCurrent, SoundSummary
<1>3. NothingFallsBetween
  BY DEF Summarised, NothingFallsBetween, SoundSummary, SpeaksOfRest, Need
<1> QED
  BY <1>1, <1>2, <1>3 DEF SummaryIsOfItsTurn

LEMMA SummarisedInit == SetupContextInit => Summarised
<1> SUFFICES ASSUME SetupContextInit
             PROVE  Summarised
  OBVIOUS
<1>1. NoTurn \in Turns
  BY NoneIsSound DEF NoTurn, Turns, SoundSummary
<1>2. stored = NoSummary /\ turn = [t \in Slots |-> NoTurn]
  BY DEF SetupContextInit
<1>3. NoTurn.summary = NoSummary /\ NoTurn.phase # "running"
  BY DEF NoTurn
<1> QED
  BY <1>1, <1>2, <1>3, NoneIsSound DEF Summarised

\* A slot gets a turn that is one, and what is stored is sound.
LEMMA SlotChanges ==
    ASSUME Summarised, NEW t \in Slots, NEW u \in Turns, SoundSummary(u.summary),
           u.phase = "running" => u.summary.source = u.dropped,
           turn' = [turn EXCEPT ![t] = u], SoundSummary(stored')
    PROVE  Summarised'
<1>1. turn \in [Slots -> Turns]
  BY DEF Summarised
<1>2. turn' \in [Slots -> Turns] /\ turn'[t] = u
  BY <1>1
<1>3. \A r \in Slots : r # t => turn'[r] = turn[r]
  BY <1>1
<1>4. ASSUME NEW r \in Slots
      PROVE  /\ SoundSummary(turn'[r].summary)
             /\ turn'[r].phase = "running" =>
                  turn'[r].summary.source = turn'[r].dropped
  <2>1. CASE r = t
    BY <1>2, <2>1
  <2>2. CASE r # t
    BY <1>3, <2>2 DEF Summarised
  <2> QED
    BY <2>1, <2>2
<1> QED
  BY <1>2, <1>4 DEF Summarised

LEMMA ShownIsSound ==
    ASSUME Summarised, NEW t \in Slots, NEW d \in Seq(Items), NEW s,
           SoundSummary(s), s.source = d, Shown(t, d, s)
    PROVE  Summarised'
<1> DEFINE u == [phase |-> "running", dropped |-> d, summary |-> s]
<1>1. u \in Turns /\ u.summary = s /\ u.dropped = d
  BY DEF Turns, SoundSummary
<1>2. turn' = [turn EXCEPT ![t] = u] /\ stored' = stored
  BY DEF Shown
<1> HIDE DEF u
<1>3. SoundSummary(stored')
  BY <1>2 DEF Summarised
<1> QED
  BY <1>1, <1>2, <1>3, SlotChanges

LEMMA TurnIsGone ==
    ASSUME Summarised, NEW t \in Slots, turn' = [turn EXCEPT ![t] = NoTurn],
           SoundSummary(stored')
    PROVE  Summarised'
<1>1. NoTurn \in Turns
  BY NoneIsSound DEF NoTurn, Turns, SoundSummary
<1>2. NoTurn.summary = NoSummary /\ NoTurn.phase # "running"
  BY DEF NoTurn
<1> QED
  BY <1>1, <1>2, NoneIsSound, SlotChanges

LEMMA SummarisedNext ==
    Summarised /\ [SetupContextNext]_contextVars => Summarised'
<1> SUFFICES ASSUME Summarised, [SetupContextNext]_contextVars
             PROVE  Summarised'
  OBVIOUS
<1>0. SoundSummary(stored) /\ turn \in [Slots -> Turns]
  BY DEF Summarised
<1>1. ASSUME NEW t \in Slots, NEW d \in Discussions, NEW p \in Profiles,
             BeginTurn(t, d, p)
      PROVE  Summarised'
  <2> DEFINE dropped == Dropped(d, p)
  <2>1. dropped \in Seq(Items)
    BY DroppedTyped
  <2>2. CASE Action(dropped, stored) = "none" /\ Shown(t, dropped, NoSummary)
    <3>1. dropped = <<>>
      BY <2>2 DEF Action
    <3>2. NoSummary.source = dropped
      BY <3>1 DEF NoSummary
    <3> HIDE DEF dropped
    <3> QED
      BY <2>1, <2>2, <3>2, NoneIsSound, ShownIsSound
  <2>3. CASE Action(dropped, stored) = "reused" /\ Shown(t, dropped, stored)
    <3> HIDE DEF dropped
    <3>1. stored.source = dropped
      BY <2>3 DEF Action
    <3> QED
      BY <1>0, <2>1, <2>3, <3>1, ShownIsSound
  <2>4. CASE Shown(t, dropped, PlainSummary(dropped, stored))
    <3> HIDE DEF dropped
    <3> QED
      BY <1>0, <2>1, <2>4, PlainIsSound, ShownIsSound
  <2> QED
    BY <1>1, <2>2, <2>3, <2>4 DEF BeginTurn
<1>2. ASSUME NEW t \in Slots, NEW d \in Discussions, AskModel(t, d)
      PROVE  Summarised'
  <2> DEFINE dropped == Dropped(d, "compact")
             u == [phase |-> "asking", dropped |-> dropped, summary |-> stored]
  <2>1. dropped \in Seq(Items)
    BY DroppedTyped DEF Profiles
  <2>2. turn' = [turn EXCEPT ![t] = u] /\ stored' = stored
    BY <1>2 DEF AskModel
  <2> HIDE DEF dropped
  <2>3. u \in Turns /\ u.summary = stored /\ u.phase # "running"
    BY <1>0, <2>1 DEF Turns, SoundSummary
  <2> HIDE DEF u
  <2>4. SoundSummary(stored')
    BY <1>0, <2>2
  <2> QED
    BY <1>0, <2>2, <2>3, <2>4, SlotChanges
<1>3. ASSUME NEW t \in Slots
      PROVE  turn[t].dropped \in Seq(Items) /\ SoundSummary(turn[t].summary)
  BY <1>0 DEF Summarised, Turns
<1>4. ASSUME NEW t \in Slots, ModelSummarises(t)
      PROVE  Summarised'
  <2>1. PICK n \in 0..LineLimit :
          Shown(t, turn[t].dropped, ModelSummary(turn[t].dropped, turn[t].summary, n))
    BY <1>4 DEF ModelSummarises
  <2> QED
    BY <1>3, <2>1, ModelIsSound, ShownIsSound
<1>5. ASSUME NEW t \in Slots, FallBack(t)
      PROVE  Summarised'
  <2>1. Shown(t, turn[t].dropped, PlainSummary(turn[t].dropped, turn[t].summary))
    BY <1>5 DEF FallBack
  <2> QED
    BY <1>3, <2>1, PlainIsSound, ShownIsSound
<1>6. ASSUME NEW t \in Slots, ModelFails(t)
      PROVE  Summarised'
  BY <1>0, <1>6, TurnIsGone DEF ModelFails
<1>7. ASSUME NEW t \in Slots, PersistTurn(t)
      PROVE  Summarised'
  BY <1>3, <1>7, TurnIsGone DEF PersistTurn
<1>8. ASSUME NEW t \in Slots, AbandonTurn(t)
      PROVE  Summarised'
  BY <1>0, <1>8, TurnIsGone DEF AbandonTurn
<1>9. CASE UNCHANGED contextVars
  BY <1>9 DEF contextVars, Summarised
<1> QED
  BY <1>1, <1>2, <1>4, <1>5, <1>6, <1>7, <1>8, <1>9 DEF SetupContextNext

-----------------------------------------------------------------------------
\* What is stored of the setup agent's context keeps its type, and a summary
\* no more lines than it may have, for all discussions, windows and slots
\* (setup_context_compaction_service.py, setup_agent_runtime_state_service.py).
THEOREM SetupContextTypeCorrect == SetupContextSpec => []SetupContextTypeOK
BY SummarisedInit, SummarisedNext, SummarisedIsEnough, PTL DEF SetupContextSpec

\* The summary a turn of the setup agent is shown is of what was dropped from
\* its own history as that is now, and loses none of what no model has put in
\* its own words before its lines run out, for all discussions, windows, slots
\* and numbers of lines.
THEOREM SummaryAlwaysOfItsTurn == SetupContextSpec => []SummaryIsOfItsTurn
BY SummarisedInit, SummarisedNext, SummarisedIsEnough, PTL DEF SetupContextSpec

-----------------------------------------------------------------------------
(* The setup agent: the invariant.                                          *)

\* Until it is answered, the obligation is what the first failure of the last
\* batch asks for.
ObligationAgrees ==
    run.node \in {"model", "inspect", "tools", "reflect"} =>
      /\ run.failed # "unknown"
      /\ run.obligation = ObligationOf(run.failed)

\* Why a run ends is set on the way to one of its two ends.
ReasonAgrees ==
    /\ run.node \in {"idle", "model", "tools", "assess", "reflect"} =>
         run.reason = "none"
    /\ run.node = "inspect" =>
         run.reason = IF run.output = "error" THEN "upstream_error" ELSE "none"
    /\ run.node = "success" => run.reason \in {"text", "question"}
    /\ run.node = "failure" => Failed
    /\ run.node = "ended" => run.reason # "none"
    /\ run.node \notin {"failure", "ended"} => run.retries <= 1

\* What a run that succeeds has answered.
Answered ==
    /\ run.output \in {"text", "question"}
    /\ run.failed \notin {"repair", "unknown"}
    /\ run.failed = "ask" => run.output = "question"

\* The last text that was sent is what the model said last.
SaidLast == shown.texts # <<>> /\ shown.texts[Len(shown.texts)] = run.output

\* What a client was sent of a run that goes on: no done, the error of the
\* model if there was one, and a text before it counts as said.
TellingAgrees ==
    /\ ~run.stream => shown = Nothing
    /\ Running /\ run.stream =>
         /\ shown.dones = 0
         /\ shown.errors = IF run.reason = "upstream_error" THEN 1 ELSE 0
    /\ run.node = "inspect" /\ run.output \in {"text", "question", "repeated"}
         /\ run.stream => SaidLast
    /\ run.node = "success" /\ run.stream => SaidLast

\* A snapshot is never built on a later draft than its run was launched with.
EditsAgree ==
    /\ memory.basis <= workspace.launched
    /\ workspace.outside => workspace.launched < workspace.version

\* A client that reads a turn to its end is told once that it is over, and
\* of an error exactly when it failed; what it saw last is the answer.
ToldOnce ==
    run.node = "ended" /\ run.stream =>
      /\ shown.dones = 1
      /\ Failed <=> shown.errors > 0
      /\ run.reason # "recursion" => shown.errors <= 1
      /\ ~Failed => /\ shown.texts # <<>>
                    /\ shown.texts[Len(shown.texts)] = run.output

AgentInv ==
    /\ SetupAgentTypeOK /\ ObligationAgrees /\ ReasonAgrees
    /\ (run.node = "success" => Answered) /\ (Completed => Answered)
    /\ OnlyFailuresOverrun /\ TellingAgrees /\ ToldOnce /\ EditsAgree

LEMMA LimitIsNat == RecursionLimit \in Nat /\ RecursionLimit >= 32
BY AgentBounds DEF RecursionLimit

\* What a step makes of a run.
LEMMA StepFields ==
    ASSUME NEW r \in Runs, NEW n \in Nat, NEW to \in Nodes,
           r.steps + n <= RecursionLimit, Step(n, to, r)
    PROVE  /\ run' \in Runs /\ run'.node = to
           /\ run'.stream = r.stream /\ run'.reading = r.reading
           /\ run'.round = r.round /\ run'.output = r.output
           /\ run'.failed = r.failed /\ run'.obligation = r.obligation
           /\ run'.ticket = r.ticket /\ run'.repairs = r.repairs
           /\ run'.retries = r.retries /\ run'.reason = r.reason
           /\ run'.no = r.no /\ run'.outcomes = r.outcomes
<1>1. r.steps + n \in 0..RecursionLimit
  BY LimitIsNat DEF Runs
<1>2. run' = [r EXCEPT !.steps = r.steps + n, !.node = to]
  BY DEF Step
<1> QED
  BY <1>1, <1>2 DEF Runs

\* Where nothing else changes, the rest of the invariant is about the run.
LEMMA OnlyTheRun ==
    ASSUME AgentInv, run' \in Runs, shown' = shown,
           workspace' = workspace, memory' = memory,
           ObligationAgrees', ReasonAgrees', TellingAgrees', ToldOnce',
           run'.node = "success" => Answered', Completed' => Answered',
           OnlyFailuresOverrun'
    PROVE  AgentInv'
<1>1. SetupAgentTypeOK'
  BY DEF AgentInv, SetupAgentTypeOK
<1>2. EditsAgree'
  BY DEF AgentInv, EditsAgree
<1> QED
  BY <1>1, <1>2 DEF AgentInv

LEMMA InspectErrorInv ==
    ASSUME AgentInv, InspectError
    PROVE  AgentInv'
<1>1. /\ run \in Runs /\ run.node = "inspect" /\ run.output = "error"
      /\ run.steps + 1 <= RecursionLimit /\ Step(1, "failure", run)
      /\ shown' = shown /\ workspace' = workspace /\ memory' = memory
  BY DEF AgentInv, SetupAgentTypeOK, InspectError, At, Within
<1>2. "failure" \in Nodes /\ 1 \in Nat
  BY DEF Nodes
<1>3. /\ run' \in Runs /\ run'.node = "failure" /\ run'.stream = run.stream
      /\ run'.reason = run.reason /\ run'.retries = run.retries
  BY <1>1, <1>2, StepFields
<1>4. ReasonAgrees' /\ ObligationAgrees' /\ OnlyFailuresOverrun'
  BY <1>1, <1>3
     DEF AgentInv, ReasonAgrees, ObligationAgrees, Failed, OnlyFailuresOverrun
<1>5. TellingAgrees' /\ ToldOnce'
  BY <1>1, <1>3 DEF AgentInv, TellingAgrees, ToldOnce, Running, Nothing
<1>6. run'.node # "success" /\ ~Completed'
  BY <1>3 DEF Completed
<1> QED
  BY <1>1, <1>3, <1>4, <1>5, <1>6, OnlyTheRun

LEMMA InspectInvalidInv ==
    ASSUME AgentInv, InspectInvalid
    PROVE  AgentInv'
<1> DEFINE r == IF run.retries >= 1
                THEN [run EXCEPT !.retries = @ + 1, !.reason = "unfulfilled"]
                ELSE [run EXCEPT !.retries = @ + 1, !.ticket = "retry"]
           to == IF run.retries >= 1 THEN "failure" ELSE "reflect"
<1>1. /\ run \in Runs /\ run.node = "inspect"
      /\ run.output \in {"pseudo", "malformed"}
      /\ run.steps + 1 <= RecursionLimit /\ Step(1, to, r)
      /\ shown' = shown /\ workspace' = workspace /\ memory' = memory
  BY DEF AgentInv, SetupAgentTypeOK, InspectInvalid, At, Within
<1>2. run.retries \in 0..1 /\ run.retries + 1 \in 0..2
  BY <1>1 DEF AgentInv, ReasonAgrees, Runs
<1>3. /\ r \in Runs /\ r.steps = run.steps /\ r.stream = run.stream
      /\ r.output = run.output /\ r.failed = run.failed
      /\ r.obligation = run.obligation /\ r.round = run.round
      /\ r.retries = run.retries + 1
      /\ r.reason = IF run.retries >= 1 THEN "unfulfilled" ELSE run.reason
  BY <1>1, <1>2 DEF Runs, Reasons, Tickets
<1>4. to \in Nodes /\ 1 \in Nat /\ to \in {"failure", "reflect"}
  BY DEF Nodes
<1>5. to = "reflect" => run.retries + 1 <= 1
  BY <1>2
<1>6. to = IF run.retries >= 1 THEN "failure" ELSE "reflect"
  OBVIOUS
<1> HIDE DEF r, to
<1>7. /\ run' \in Runs /\ run'.node = to /\ run'.stream = run.stream
      /\ run'.reason = r.reason /\ run'.retries = run.retries + 1
      /\ run'.failed = run.failed /\ run'.obligation = run.obligation
  BY <1>1, <1>3, <1>4, StepFields
<1>8. ReasonAgrees' /\ ObligationAgrees' /\ OnlyFailuresOverrun'
  BY <1>1, <1>3, <1>4, <1>5, <1>6, <1>7
     DEF AgentInv, ReasonAgrees, ObligationAgrees, Failed, OnlyFailuresOverrun
<1>9. TellingAgrees' /\ ToldOnce'
  BY <1>1, <1>3, <1>4, <1>6, <1>7
     DEF AgentInv, ReasonAgrees, TellingAgrees, ToldOnce, Running, Nothing
<1>10. run'.node # "success" /\ ~Completed'
  BY <1>4, <1>7 DEF Completed
<1> QED
  BY <1>1, <1>7, <1>8, <1>9, <1>10, OnlyTheRun

LEMMA InspectCallsInv ==
    ASSUME AgentInv, InspectCalls
    PROVE  AgentInv'
<1> DEFINE r == [run EXCEPT !.ticket = "none"]
<1>1. /\ run \in Runs /\ run.node = "inspect" /\ run.output = "tools"
      /\ run.steps + 1 <= RecursionLimit /\ Step(1, "tools", r)
      /\ shown' = shown /\ workspace' = workspace /\ memory' = memory
  BY DEF AgentInv, SetupAgentTypeOK, InspectCalls, At, Within
<1>2. /\ r \in Runs /\ r.steps = run.steps /\ r.stream = run.stream
      /\ r.failed = run.failed /\ r.obligation = run.obligation
      /\ r.retries = run.retries /\ r.reason = run.reason
  BY <1>1 DEF Runs, Tickets
<1>3. "tools" \in Nodes /\ 1 \in Nat
  BY DEF Nodes
<1> HIDE DEF r
<1>4. /\ run' \in Runs /\ run'.node = "tools" /\ run'.stream = run.stream
      /\ run'.reason = run.reason /\ run'.retries = run.retries
      /\ run'.failed = run.failed /\ run'.obligation = run.obligation
  BY <1>1, <1>2, <1>3, StepFields
<1>5. ReasonAgrees' /\ ObligationAgrees' /\ OnlyFailuresOverrun'
  BY <1>1, <1>4
     DEF AgentInv, ReasonAgrees, ObligationAgrees, OnlyFailuresOverrun
<1>6. TellingAgrees' /\ ToldOnce'
  BY <1>1, <1>4
     DEF AgentInv, ReasonAgrees, TellingAgrees, ToldOnce, Running, Nothing
<1>7. run'.node # "success" /\ ~Completed'
  BY <1>4 DEF Completed
<1> QED
  BY <1>1, <1>4, <1>5, <1>6, <1>7, OnlyTheRun

\* What the guard lets through is an answer to what the tools have left.
LEMMA GuardIsStrict ==
    ASSUME NEW output \in {"empty", "text", "question", "repeated"},
           NEW obligation \in Obligations, NEW ticket \in Tickets
    PROVE  /\ Guard(output, obligation, ticket) \in Tickets
           /\ Guard(output, obligation, ticket) = "none" =>
                /\ output \in {"text", "question"} /\ obligation # "repair"
                /\ obligation = "ask" => output = "question"
BY DEF Guard, Obligations, Tickets

LEMMA InspectTextInv ==
    ASSUME AgentInv, InspectText
    PROVE  AgentInv'
<1> DEFINE ticket == Guard(run.output, run.obligation, run.ticket)
           r == IF ticket = "none"
                THEN [run EXCEPT !.obligation = "none",
                                 !.reason = FinishReason(run.output)]
                ELSE [run EXCEPT !.ticket = ticket]
           to == IF ticket = "none" THEN "success" ELSE "reflect"
<1>1. /\ run \in Runs /\ run.node = "inspect"
      /\ run.output \in {"empty", "text", "question", "repeated"}
      /\ run.steps + 1 <= RecursionLimit /\ Step(1, to, r)
      /\ shown' = shown /\ workspace' = workspace /\ memory' = memory
  BY DEF AgentInv, SetupAgentTypeOK, InspectText, At, Within
<1>2. /\ ticket \in Tickets
      /\ ticket = "none" =>
           /\ run.output \in {"text", "question"} /\ run.obligation # "repair"
           /\ run.obligation = "ask" => run.output = "question"
  BY <1>1, GuardIsStrict DEF Runs
<1> HIDE DEF ticket
<1>3. /\ r \in Runs /\ r.steps = run.steps /\ r.stream = run.stream
      /\ r.output = run.output /\ r.failed = run.failed
      /\ r.retries = run.retries
      /\ ticket # "none" =>
           r.obligation = run.obligation /\ r.reason = run.reason
      /\ ticket = "none" => r.reason \in {"text", "question"}
  <2>1. FinishReason(run.output) \in {"text", "question"}
    BY DEF FinishReason
  <2>2. CASE ticket = "none"
    <3> DEFINE why == FinishReason(run.output)
    <3>1. r = [run EXCEPT !.obligation = "none", !.reason = why]
      BY <2>2
    <3>2. "none" \in Obligations /\ why \in Reasons
      BY <2>1 DEF Obligations, Reasons
    <3> HIDE DEF r, why
    <3>3. /\ r \in Runs /\ r.steps = run.steps /\ r.stream = run.stream
          /\ r.output = run.output /\ r.failed = run.failed
          /\ r.retries = run.retries /\ r.reason = why
      BY <1>1, <3>1, <3>2 DEF Runs
    <3> QED
      BY <2>1, <2>2, <3>3 DEF why
  <2>3. CASE ticket # "none"
    <3>1. r = [run EXCEPT !.ticket = ticket]
      BY <2>3
    <3> HIDE DEF r
    <3> QED
      BY <1>1, <1>2, <2>3, <3>1 DEF Runs
  <2> QED
    BY <2>2, <2>3
<1>4. to \in Nodes /\ 1 \in Nat
  BY DEF Nodes
<1>5. /\ ticket = "none" => to = "success"
      /\ ticket # "none" => to = "reflect"
  OBVIOUS
<1> HIDE DEF r, to
<1>6. /\ run' \in Runs /\ run'.node = to /\ run'.stream = run.stream
      /\ run'.output = run.output /\ run'.retries = run.retries
      /\ run'.failed = run.failed /\ run'.obligation = r.obligation
      /\ run'.reason = r.reason
  BY <1>1, <1>3, <1>4, StepFields
<1>7. ReasonAgrees' /\ ObligationAgrees' /\ OnlyFailuresOverrun'
  BY <1>1, <1>3, <1>5, <1>6
     DEF AgentInv, ReasonAgrees, ObligationAgrees, OnlyFailuresOverrun
<1>8. TellingAgrees' /\ ToldOnce'
  <2>1. run.reason = "none"
    BY <1>1 DEF AgentInv, ReasonAgrees
  <2>2. r.reason # "upstream_error" /\ to \in {"success", "reflect"}
    BY <1>3, <1>5, <2>1
  <2>3. run.stream => shown.dones = 0 /\ shown.errors = 0
    BY <1>1, <2>1 DEF AgentInv, TellingAgrees, Running
  <2>4. run.stream /\ to = "success" => SaidLast
    BY <1>1, <1>2, <1>5 DEF AgentInv, TellingAgrees
  <2>5. SaidLast => SaidLast'
    BY <1>1, <1>6 DEF SaidLast
  <2> QED
    BY <1>1, <1>6, <2>2, <2>3, <2>4, <2>5
       DEF AgentInv, TellingAgrees, ToldOnce, Running, Nothing
<1>9. run'.node = "success" => Answered'
  <2>1. run.failed # "unknown" /\ run.obligation = ObligationOf(run.failed)
    BY <1>1 DEF AgentInv, ObligationAgrees
  <2> QED
    BY <1>2, <1>5, <1>6, <2>1 DEF Answered, ObligationOf
<1>10. ~Completed'
  BY <1>5, <1>6 DEF Completed
<1> QED
  BY <1>1, <1>6, <1>7, <1>8, <1>9, <1>10, OnlyTheRun

LEMMA ReflectInv ==
    ASSUME AgentInv, Reflect
    PROVE  AgentInv'
<1> DEFINE lost == /\ run.ticket = "retry" /\ run.obligation = "repair"
                   /\ run.repairs >= 1
           ends == ~RoundsLeft \/ lost
           why == IF ~RoundsLeft THEN "max_rounds" ELSE "unfulfilled"
           r == IF ends THEN [run EXCEPT !.ticket = "none", !.reason = why]
                        ELSE [run EXCEPT !.ticket = "none"]
           to == IF ends THEN "failure" ELSE "model"
<1>1. /\ run \in Runs /\ run.node = "reflect"
      /\ run.steps + 1 <= RecursionLimit
      /\ shown' = shown /\ workspace' = workspace /\ memory' = memory
  BY DEF AgentInv, SetupAgentTypeOK, Reflect, At, Within
<1>2. Step(1, to, r)
  <2>1. CASE ~RoundsLeft
    BY <2>1 DEF Reflect
  <2>2. CASE RoundsLeft /\ lost
    BY <2>2 DEF Reflect
  <2>3. CASE RoundsLeft /\ ~lost
    BY <2>3 DEF Reflect
  <2> QED
    BY <2>1, <2>2, <2>3
<1>3. /\ ~ends => run.round < MaxRounds
      /\ why \in Reasons /\ why \notin {"none", "text", "question", "upstream_error"}
  BY DEF RoundsLeft, Reasons
<1> HIDE DEF ends, why
<1>4. /\ r \in Runs /\ r.steps = run.steps /\ r.stream = run.stream
      /\ r.failed = run.failed /\ r.obligation = run.obligation
      /\ r.retries = run.retries /\ r.round = run.round
      /\ ends => r.reason = why
      /\ ~ends => r.reason = run.reason
  BY <1>1, <1>3 DEF Runs, Tickets
<1>5. to \in Nodes /\ 1 \in Nat /\ (ends => to = "failure") /\ (~ends => to = "model")
  BY DEF Nodes
<1> HIDE DEF r, to
<1>6. /\ run' \in Runs /\ run'.node = to /\ run'.stream = run.stream
      /\ run'.round = run.round /\ run'.retries = run.retries
      /\ run'.failed = run.failed /\ run'.obligation = run.obligation
      /\ run'.reason = r.reason
  BY <1>1, <1>2, <1>4, <1>5, StepFields
<1>7. ReasonAgrees' /\ ObligationAgrees'
  BY <1>1, <1>3, <1>4, <1>5, <1>6
     DEF AgentInv, ReasonAgrees, ObligationAgrees, Failed
<1>8. OnlyFailuresOverrun'
  <2>1. run.round \in Nat /\ MaxRounds \in Nat
    BY <1>1, AgentBounds DEF Runs
  <2> QED
    BY <1>3, <1>5, <1>6, <2>1 DEF OnlyFailuresOverrun
<1>9. TellingAgrees' /\ ToldOnce'
  BY <1>1, <1>3, <1>4, <1>5, <1>6
     DEF AgentInv, ReasonAgrees, TellingAgrees, ToldOnce, Running, Nothing
<1>10. run'.node # "success" /\ ~Completed'
  BY <1>5, <1>6 DEF Completed
<1> QED
  BY <1>1, <1>6, <1>7, <1>8, <1>9, <1>10, OnlyTheRun

LEMMA CallModelInv ==
    ASSUME AgentInv, NEW output \in Outputs, CallModel(output)
    PROVE  AgentInv'
<1> DEFINE why == IF output = "error" THEN "upstream_error" ELSE run.reason
           r == [run EXCEPT !.round = run.round + 1, !.output = output, !.reason = why]
<1>1. /\ run \in Runs /\ run.node = "model"
      /\ run.steps + 4 <= RecursionLimit /\ Step(4, "inspect", r)
      /\ Emit(ShownBy(output)) /\ workspace' = workspace /\ memory' = memory
  BY DEF AgentInv, SetupAgentTypeOK, CallModel, At, Within
<1>2. run.reason = "none" /\ run.retries <= 1
  BY <1>1 DEF AgentInv, ReasonAgrees
<1>2a. /\ run.round + 1 \in Nat /\ why \in Reasons
      /\ why = IF output = "error" THEN "upstream_error" ELSE "none"
  BY <1>1, <1>2 DEF Runs, Reasons
<1> HIDE DEF why
<1>3. /\ r \in Runs /\ r.steps = run.steps /\ r.stream = run.stream
      /\ r.output = output /\ r.failed = run.failed
      /\ r.obligation = run.obligation /\ r.retries = run.retries
      /\ r.reason = IF output = "error" THEN "upstream_error" ELSE "none"
  BY <1>1, <1>2a DEF Runs
<1>4. "inspect" \in Nodes /\ 4 \in Nat
  BY DEF Nodes
<1> HIDE DEF r
<1>5. /\ run' \in Runs /\ run'.node = "inspect" /\ run'.stream = run.stream
      /\ run'.output = output /\ run'.retries = run.retries
      /\ run'.failed = run.failed /\ run'.obligation = run.obligation
      /\ run'.reason = IF output = "error" THEN "upstream_error" ELSE "none"
  BY <1>1, <1>3, <1>4, StepFields
<1>6. /\ shown \in [texts : Seq({"text", "question", "repeated"}),
                    errors : 0..2, dones : 0..1]
      /\ run.stream => shown.dones = 0 /\ shown.errors = 0
      /\ ~run.stream => shown = Nothing
  BY <1>1, <1>2
     DEF AgentInv, SetupAgentTypeOK, TellingAgrees, Running
<1>7. /\ ~run.stream => shown' = shown
      /\ run.stream => shown' = ShownBy(output)
  BY <1>1 DEF Emit
<1>8. /\ shown' \in [texts : Seq({"text", "question", "repeated"}),
                     errors : 0..2, dones : 0..1]
      /\ run.stream =>
           /\ shown'.dones = 0
           /\ shown'.errors = IF output = "error" THEN 1 ELSE 0
           /\ output \in {"text", "question", "repeated"} =>
                shown'.texts = Append(shown.texts, output)
  BY <1>6, <1>7 DEF ShownBy
<1>9. SetupAgentTypeOK'
  BY <1>1, <1>5, <1>8 DEF AgentInv, SetupAgentTypeOK
<1>10. EditsAgree'
  BY <1>1 DEF AgentInv, EditsAgree
<1>11. ReasonAgrees' /\ ObligationAgrees' /\ OnlyFailuresOverrun'
  BY <1>1, <1>2, <1>5
     DEF AgentInv, ReasonAgrees, ObligationAgrees, OnlyFailuresOverrun
<1>12. run.stream /\ output \in {"text", "question", "repeated"} => SaidLast'
  <2> SUFFICES ASSUME run.stream, output \in {"text", "question", "repeated"}
               PROVE  SaidLast'
    OBVIOUS
  <2> DEFINE t == shown.texts
  <2>1. t \in Seq({"text", "question", "repeated"})
    BY <1>6
  <2>2. shown'.texts = Append(t, output)
    BY <1>8
  <2> HIDE DEF t
  <2>3. Append(t, output) # <<>> /\ Append(t, output)[Len(Append(t, output))] = output
    BY <2>1
  <2> QED
    BY <1>5, <2>2, <2>3 DEF SaidLast
<1>13. TellingAgrees' /\ ToldOnce'
  BY <1>5, <1>6, <1>7, <1>8, <1>12 DEF TellingAgrees, ToldOnce, Running, Nothing
<1>14. run'.node # "success" /\ ~Completed'
  BY <1>5 DEF Completed
<1> QED
  BY <1>9, <1>10, <1>11, <1>13, <1>14 DEF AgentInv

\* The first failure of a batch is one of it.
LEMMA FirstFailureIs ==
    ASSUME NEW batch \in Batches
    PROVE  FirstFailure(batch) \in {"none"} \cup FailureKinds
<1> DEFINE bad == FailuresOf(batch)
<1>1. PICK n \in 1..MaxCalls : batch \in [1..n -> Results]
  BY DEF Batches
<1>2. bad \in SUBSET Nat /\ \A i \in bad : batch[i] \in FailureKinds
  BY <1>1 DEF FailuresOf
<1>3. CASE bad = {}
  BY <1>3 DEF FirstFailure
<1>4. CASE bad # {}
  <2> DEFINE i == CHOOSE i \in bad : \A j \in bad : i <= j
  <2> HIDE DEF bad
  <2>1. \E x \in bad : \A j \in bad : x <= j
    BY <1>2, <1>4, LeastNat
  <2>2. i \in bad
    BY <2>1
  <2>3. FirstFailure(batch) = batch[i]
    BY <1>4 DEF FirstFailure, bad
  <2> HIDE DEF i
  <2> QED
    BY <1>2, <2>2, <2>3
<1> QED
  BY <1>3, <1>4

LEMMA ExecuteToolsInv ==
    ASSUME AgentInv, NEW batch \in Batches, ExecuteTools(batch)
    PROVE  AgentInv'
<1> DEFINE W == {i \in DOMAIN batch : batch[i] = "write"}
           writes == Cardinality(W)
           K == {Outcome(batch[i]) : i \in {j \in DOMAIN batch : batch[j] \in Compared}}
           first == FirstFailure(batch)
           r == [run EXCEPT !.failed = first, !.outcomes = @ \cup K]
<1>1. /\ run \in Runs /\ run.node = "tools"
      /\ run.steps + 1 <= RecursionLimit /\ Step(1, "assess", r)
      /\ workspace.writes + writes <= MaxWrites
      /\ workspace' = [workspace EXCEPT !.version = @ + writes, !.writes = @ + writes]
      /\ shown' = shown /\ memory' = memory
  BY DEF AgentInv, SetupAgentTypeOK, ExecuteTools, At, Within
<1>2. writes \in Nat
  <2>1. PICK n \in 1..MaxCalls : batch \in [1..n -> Results]
    BY DEF Batches
  <2>2. n \in Nat /\ IsFiniteSet(1..n)
    BY AgentBounds, FS_Interval
  <2>3. W \subseteq 1..n
    BY <2>1
  <2> HIDE DEF W
  <2>4. IsFiniteSet(W)
    BY <2>2, <2>3, FS_Subset
  <2> QED
    BY <2>4, FS_CardinalityType
<1>3. K \subseteq {Outcome(k) : k \in Compared}
  OBVIOUS
<1>4. first \in {"none"} \cup FailureKinds
  BY FirstFailureIs
<1> HIDE DEF writes, K, first
<1>5. /\ r \in Runs /\ r.steps = run.steps /\ r.stream = run.stream
      /\ r.reason = run.reason /\ r.retries = run.retries
  BY <1>1, <1>3, <1>4 DEF Runs
<1>6. "assess" \in Nodes /\ 1 \in Nat
  BY DEF Nodes
<1> HIDE DEF r
<1>7. /\ run' \in Runs /\ run'.node = "assess" /\ run'.stream = run.stream
      /\ run'.reason = run.reason /\ run'.retries = run.retries
  BY <1>1, <1>5, <1>6, StepFields
<1>8. /\ workspace \in [version : Nat, edits : 0..MaxEdits, outside : BOOLEAN,
                        writes : 0..MaxWrites, launched : Nat]
      /\ workspace.launched <= workspace.version
      /\ memory \in [basis : 0..workspace.version, invalid : BOOLEAN,
                     outcomes : SUBSET {Outcome(k) : k \in Compared}]
  BY DEF AgentInv, SetupAgentTypeOK
<1>9. workspace.writes + writes \in 0..MaxWrites
  BY <1>1, <1>2, <1>8, AgentBounds
<1>10. /\ workspace' \in [version : Nat, edits : 0..MaxEdits, outside : BOOLEAN,
                          writes : 0..MaxWrites, launched : Nat]
       /\ workspace'.version = workspace.version + writes
       /\ workspace'.launched = workspace.launched
       /\ workspace'.outside = workspace.outside
  <2> DEFINE v == workspace.version + writes
             w == workspace.writes + writes
  <2>1. v \in Nat /\ w \in 0..MaxWrites
    BY <1>2, <1>8, <1>9
  <2>2. workspace' = [workspace EXCEPT !.version = v, !.writes = w]
    BY <1>1
  <2>3. v = workspace.version + writes
    OBVIOUS
  <2> HIDE DEF v, w
  <2> QED
    BY <1>8, <2>1, <2>2, <2>3
<1>11. memory.basis \in 0..(workspace.version + writes)
  BY <1>2, <1>8
<1>12. memory' \in [basis : 0..workspace'.version, invalid : BOOLEAN,
                    outcomes : SUBSET {Outcome(k) : k \in Compared}]
  BY <1>1, <1>8, <1>10, <1>11
<1>13. workspace'.launched <= workspace'.version
  BY <1>2, <1>8, <1>10
<1>14. SetupAgentTypeOK'
  BY <1>1, <1>7, <1>10, <1>12, <1>13 DEF AgentInv, SetupAgentTypeOK
<1>15. EditsAgree'
  BY <1>1, <1>2, <1>8, <1>10 DEF AgentInv, EditsAgree
<1>16. ReasonAgrees' /\ ObligationAgrees' /\ OnlyFailuresOverrun'
  BY <1>1, <1>7
     DEF AgentInv, ReasonAgrees, ObligationAgrees, OnlyFailuresOverrun
<1>17. TellingAgrees' /\ ToldOnce'
  BY <1>1, <1>7 DEF AgentInv, TellingAgrees, ToldOnce, Running, Nothing
<1>18. run'.node # "success" /\ ~Completed'
  BY <1>7 DEF Completed
<1> QED
  BY <1>14, <1>15, <1>16, <1>17, <1>18 DEF AgentInv

LEMMA AssessProgressInv ==
    ASSUME AgentInv, AssessProgress
    PROVE  AgentInv'
<1> DEFINE kind == run.failed
           decision == RepairDecision(kind)
<1>1. /\ run \in Runs /\ run.node = "assess"
      /\ run.steps + 2 <= RecursionLimit
      /\ shown' = shown /\ workspace' = workspace /\ memory' = memory
  BY DEF AgentInv, SetupAgentTypeOK, AssessProgress, At, Within
<1>2. /\ decision \in {"continue", "obligation", "max_rounds", "unrecoverable", "schema"}
      /\ decision = "continue" => kind = "none" /\ run.round < MaxRounds
      /\ decision = "obligation" =>
           /\ kind \in FailureKinds /\ kind # "unknown"
           /\ kind = "repair" => ~(run.repairs >= 1)
  BY <1>1 DEF RepairDecision, Runs, RoundsLeft
<1>3. run.reason = "none" /\ run.retries <= 1
  BY <1>1 DEF AgentInv, ReasonAgrees
<1> HIDE DEF decision
<1>4. ASSUME NEW r \in Runs, NEW to \in {"model", "reflect"}, Step(2, to, r),
             r.steps = run.steps, r.stream = run.stream, r.reason = run.reason,
             r.retries = run.retries, r.failed # "unknown",
             r.obligation = ObligationOf(r.failed), r.round = run.round,
             run.round < MaxRounds \/ r.obligation # "none"
      PROVE  AgentInv'
  <2>1. to \in Nodes /\ 2 \in Nat
    BY DEF Nodes
  <2>2. /\ run' \in Runs /\ run'.node = to /\ run'.stream = run.stream
        /\ run'.round = run.round /\ run'.retries = run.retries
        /\ run'.failed = r.failed /\ run'.obligation = r.obligation
        /\ run'.reason = run.reason
    BY <1>1, <1>4, <2>1, StepFields
  <2>3. ReasonAgrees' /\ ObligationAgrees'
    BY <1>3, <1>4, <2>2 DEF ReasonAgrees, ObligationAgrees
  <2>4. OnlyFailuresOverrun'
    <3>1. run.round \in Nat /\ MaxRounds \in Nat
      BY <1>1, AgentBounds DEF Runs
    <3> QED
      BY <1>4, <2>2, <3>1 DEF OnlyFailuresOverrun
  <2>5. TellingAgrees' /\ ToldOnce'
    BY <1>1, <1>4, <2>2 DEF AgentInv, TellingAgrees, ToldOnce, Running, Nothing
  <2>6. run'.node # "success" /\ ~Completed'
    BY <1>4, <2>2 DEF Completed
  <2> QED
    BY <1>1, <2>2, <2>3, <2>4, <2>5, <2>6, OnlyTheRun
<1>5. CASE decision = "continue"
  <2> DEFINE r == [run EXCEPT !.obligation = "none", !.ticket = "none"]
  <2>1. Step(2, "model", r)
    BY <1>5 DEF AssessProgress, decision
  <2>2. /\ r \in Runs /\ r.steps = run.steps /\ r.stream = run.stream
        /\ r.reason = run.reason /\ r.retries = run.retries
        /\ r.failed = run.failed /\ r.obligation = "none" /\ r.round = run.round
    BY <1>1 DEF Runs, Obligations, Tickets
  <2>3. ObligationOf("none") = "none"
    BY DEF ObligationOf
  <2> HIDE DEF r
  <2> QED
    BY <1>2, <1>4, <1>5, <2>1, <2>2, <2>3
<1>6. CASE decision = "obligation"
  <2> DEFINE to == IF kind = "block" THEN "reflect" ELSE "model"
             r == [run EXCEPT !.obligation = ObligationOf(kind),
                     !.ticket = IF kind = "block" THEN "block" ELSE "none",
                     !.repairs = IF kind = "repair" THEN @ + 1 ELSE @]
  <2>1. Step(2, to, r)
    BY <1>6 DEF AssessProgress, decision
  <2>2. run.repairs \in 0..1 /\ (kind = "repair" => run.repairs + 1 \in 0..1)
    BY <1>1, <1>2, <1>6 DEF Runs
  <2>3. ObligationOf(kind) \in Obligations /\ ObligationOf(kind) # "none"
    BY <1>2, <1>6 DEF ObligationOf, Obligations, FailureKinds
  <2>4. /\ r \in Runs /\ r.steps = run.steps /\ r.stream = run.stream
        /\ r.reason = run.reason /\ r.retries = run.retries
        /\ r.failed = run.failed /\ r.obligation = ObligationOf(kind)
        /\ r.round = run.round
    BY <1>1, <2>2, <2>3 DEF Runs, Tickets
  <2>5. to \in {"model", "reflect"}
    OBVIOUS
  <2> HIDE DEF r, to
  <2> QED
    BY <1>2, <1>4, <1>6, <2>1, <2>3, <2>4, <2>5
<1>7. CASE decision \in {"max_rounds", "unrecoverable", "schema"}
  <2> DEFINE r == [run EXCEPT !.reason = decision]
  <2>1. Step(2, "failure", r)
    BY <1>7 DEF AssessProgress, decision
  <2>2. r \in Runs /\ r.steps = run.steps /\ r.stream = run.stream /\ r.reason = decision
    BY <1>1, <1>7 DEF Runs, Reasons
  <2>3. "failure" \in Nodes /\ 2 \in Nat
    BY DEF Nodes
  <2> HIDE DEF r
  <2>4. /\ run' \in Runs /\ run'.node = "failure" /\ run'.stream = run.stream
        /\ run'.reason = decision
    BY <1>1, <2>1, <2>2, <2>3, StepFields
  <2>5. ReasonAgrees' /\ ObligationAgrees' /\ OnlyFailuresOverrun'
    BY <1>7, <2>4
       DEF ReasonAgrees, ObligationAgrees, OnlyFailuresOverrun, Failed
  <2>6. TellingAgrees' /\ ToldOnce'
    BY <1>1, <1>3, <1>7, <2>4
       DEF AgentInv, TellingAgrees, ToldOnce, Running, Nothing
  <2>7. run'.node # "success" /\ ~Completed'
    BY <2>4 DEF Completed
  <2> QED
    BY <1>1, <2>4, <2>5, <2>6, <2>7, OnlyTheRun
<1> QED
  BY <1>2, <1>5, <1>6, <1>7

\* What a run leaves in the snapshot.
LEMMA SnapshotKept ==
    ASSUME AgentInv, workspace' = workspace,
           \/ memory' = memory
           \/ memory' = Persisted
           \/ memory' = [memory EXCEPT !.basis = workspace.launched]
    PROVE  /\ memory' \in [basis : 0..workspace'.version, invalid : BOOLEAN,
                           outcomes : SUBSET {Outcome(k) : k \in Compared}]
           /\ EditsAgree'
<1>1. /\ run \in Runs
      /\ workspace \in [version : Nat, edits : 0..MaxEdits, outside : BOOLEAN,
                        writes : 0..MaxWrites, launched : Nat]
      /\ workspace.launched <= workspace.version
      /\ memory \in [basis : 0..workspace.version, invalid : BOOLEAN,
                     outcomes : SUBSET {Outcome(k) : k \in Compared}]
  BY DEF AgentInv, SetupAgentTypeOK
<1>2. workspace.launched \in 0..workspace.version
  BY <1>1
<1>3. memory.basis <= workspace.launched
  BY DEF AgentInv, EditsAgree
<1> DEFINE o == memory.outcomes \cup run.outcomes
<1>4. o \subseteq {Outcome(k) : k \in Compared}
  BY <1>1 DEF Runs
<1>5. Persisted = [memory EXCEPT !.basis = workspace.launched, !.outcomes = o]
  BY DEF Persisted
<1> HIDE DEF o
<1>6. /\ memory' \in [basis : 0..workspace.version, invalid : BOOLEAN,
                      outcomes : SUBSET {Outcome(k) : k \in Compared}]
      /\ memory'.basis <= workspace.launched
  <2>1. CASE memory' = memory
    BY <1>1, <1>3, <2>1
  <2>2. CASE memory' = Persisted
    <3> DEFINE b == workspace.launched
    <3>1. b \in 0..workspace.version /\ b <= b
      BY <1>1, <1>2
    <3>2. memory' = [memory EXCEPT !.basis = b, !.outcomes = o]
      BY <1>5, <2>2
    <3> HIDE DEF b
    <3>3. /\ memory' \in [basis : 0..workspace.version, invalid : BOOLEAN,
                          outcomes : SUBSET {Outcome(k) : k \in Compared}]
          /\ memory'.basis = b
      BY <1>1, <1>4, <3>1, <3>2
    <3> QED
      BY <3>1, <3>3 DEF b
  <2>3. CASE memory' = [memory EXCEPT !.basis = workspace.launched]
    BY <1>1, <1>2, <2>3
  <2> QED
    BY <2>1, <2>2, <2>3
<1> QED
  BY <1>6 DEF AgentInv, EditsAgree

LEMMA FinalizeSuccessInv ==
    ASSUME AgentInv, FinalizeSuccess
    PROVE  AgentInv'
<1>1. /\ run \in Runs /\ run.node = "success"
      /\ run.steps + 1 <= RecursionLimit /\ Step(1, "ended", run)
      /\ Emit([shown EXCEPT !.dones = @ + 1]) /\ workspace' = workspace
      /\ memory' \in {memory, Persisted}
  BY DEF AgentInv, SetupAgentTypeOK, FinalizeSuccess, Finish, At, Within
<1>2. run.reason \in {"text", "question"} /\ Answered
  BY <1>1 DEF AgentInv, ReasonAgrees
<1>3. "ended" \in Nodes /\ 1 \in Nat
  BY DEF Nodes
<1>4. /\ run' \in Runs /\ run'.node = "ended" /\ run'.stream = run.stream
      /\ run'.reason = run.reason /\ run'.failed = run.failed
      /\ run'.output = run.output
  BY <1>1, <1>3, StepFields
<1>5. /\ shown \in [texts : Seq({"text", "question", "repeated"}),
                    errors : 0..2, dones : 0..1]
      /\ run.stream => shown.dones = 0 /\ shown.errors = 0 /\ SaidLast
      /\ ~run.stream => shown = Nothing
  BY <1>1, <1>2
     DEF AgentInv, SetupAgentTypeOK, TellingAgrees, Running
<1>6. /\ shown' \in [texts : Seq({"text", "question", "repeated"}),
                     errors : 0..2, dones : 0..1]
      /\ run.stream => /\ shown'.dones = 1 /\ shown'.errors = 0
                       /\ shown'.texts = shown.texts
      /\ ~run.stream => shown' = shown
  BY <1>1, <1>5 DEF Emit
<1>7. SetupAgentTypeOK' /\ EditsAgree'
  BY <1>1, <1>4, <1>6, SnapshotKept DEF AgentInv, SetupAgentTypeOK
<1>8. ReasonAgrees' /\ ObligationAgrees' /\ OnlyFailuresOverrun'
  BY <1>2, <1>4 DEF ReasonAgrees, ObligationAgrees, OnlyFailuresOverrun
<1>9. run.stream => SaidLast'
  BY <1>4, <1>5, <1>6 DEF SaidLast
<1>10. TellingAgrees' /\ ToldOnce'
  <2>1. ~Failed'
    BY <1>2, <1>4 DEF Failed
  <2> QED
    BY <1>4, <1>5, <1>6, <1>9, <2>1
       DEF TellingAgrees, ToldOnce, Running, Nothing, SaidLast
<1>11. run'.node # "success" /\ Answered'
  BY <1>2, <1>4 DEF Answered
<1> QED
  BY <1>7, <1>8, <1>10, <1>11 DEF AgentInv

LEMMA FinalizeFailureInv ==
    ASSUME AgentInv, FinalizeFailure
    PROVE  AgentInv'
<1>1. /\ run \in Runs /\ run.node = "failure"
      /\ run.steps + 1 <= RecursionLimit /\ Step(1, "ended", run)
      /\ Emit([shown EXCEPT !.dones = @ + 1, !.errors = ErrorsSent])
      /\ workspace' = workspace /\ memory' \in {memory, Persisted}
  BY DEF AgentInv, SetupAgentTypeOK, FinalizeFailure, Finish, At, Within
<1>2. Failed
  BY <1>1 DEF AgentInv, ReasonAgrees
<1>3. "ended" \in Nodes /\ 1 \in Nat
  BY DEF Nodes
<1>4. /\ run' \in Runs /\ run'.node = "ended" /\ run'.stream = run.stream
      /\ run'.reason = run.reason
  BY <1>1, <1>3, StepFields
<1>5. /\ shown \in [texts : Seq({"text", "question", "repeated"}),
                    errors : 0..2, dones : 0..1]
      /\ run.stream => shown.dones = 0 /\ ErrorsSent = 1
      /\ ~run.stream => shown = Nothing
  BY <1>1 DEF AgentInv, SetupAgentTypeOK, TellingAgrees, Running, ErrorsSent
<1>6. /\ shown' \in [texts : Seq({"text", "question", "repeated"}),
                     errors : 0..2, dones : 0..1]
      /\ run.stream => shown'.dones = 1 /\ shown'.errors = 1
      /\ ~run.stream => shown' = shown
  <2>1. CASE run.stream
    <3> DEFINE d == shown.dones + 1
    <3>1. d = 1 /\ 1 \in 0..1 /\ 1 \in 0..2
      BY <1>5, <2>1
    <3>2. shown' = [shown EXCEPT !.dones = 1, !.errors = 1]
      BY <1>1, <1>5, <2>1, <3>1 DEF Emit
    <3> QED
      BY <1>5, <2>1, <3>1, <3>2
  <2>2. CASE ~run.stream
    BY <1>1, <1>5, <2>2 DEF Emit
  <2> QED
    BY <2>1, <2>2
<1>7. SetupAgentTypeOK' /\ EditsAgree'
  BY <1>1, <1>4, <1>6, SnapshotKept DEF AgentInv, SetupAgentTypeOK
<1>8. ReasonAgrees' /\ ObligationAgrees' /\ OnlyFailuresOverrun' /\ Failed'
  BY <1>2, <1>4
     DEF ReasonAgrees, ObligationAgrees, OnlyFailuresOverrun, Failed
<1>9. TellingAgrees' /\ ToldOnce'
  BY <1>4, <1>5, <1>6, <1>8 DEF TellingAgrees, ToldOnce, Running, Nothing
<1>10. run'.node # "success" /\ ~Completed'
  BY <1>4, <1>8 DEF Completed
<1> QED
  BY <1>7, <1>8, <1>9, <1>10 DEF AgentInv

LEMMA OverrunInv ==
    ASSUME AgentInv, Overrun
    PROVE  AgentInv'
<1>1. /\ run \in Runs /\ Running
      /\ run' = [run EXCEPT !.node = "ended", !.reason = "recursion"]
      /\ Emit([shown EXCEPT !.dones = @ + 1, !.errors = @ + 1])
      /\ workspace' = workspace
      /\ memory' \in {memory, [memory EXCEPT !.basis = workspace.launched]}
  BY DEF AgentInv, SetupAgentTypeOK, Overrun
<1>2. /\ run' \in Runs /\ run'.node = "ended" /\ run'.stream = run.stream
      /\ run'.reason = "recursion"
  BY <1>1 DEF Runs, Nodes, Reasons
<1>3. /\ shown \in [texts : Seq({"text", "question", "repeated"}),
                    errors : 0..2, dones : 0..1]
      /\ run.stream => shown.dones = 0 /\ shown.errors \in 0..1
      /\ ~run.stream => shown = Nothing
  BY <1>1 DEF AgentInv, SetupAgentTypeOK, TellingAgrees
<1>4. /\ shown' \in [texts : Seq({"text", "question", "repeated"}),
                     errors : 0..2, dones : 0..1]
      /\ run.stream => shown'.dones = 1 /\ shown'.errors > 0
      /\ ~run.stream => shown' = shown
  <2>1. CASE run.stream
    <3> DEFINE d == shown.dones + 1
               e == shown.errors + 1
    <3>1. d = 1 /\ d \in 0..1 /\ e > 0 /\ e \in 0..2
      BY <1>3, <2>1
    <3>2. shown' = [shown EXCEPT !.dones = d, !.errors = e]
      BY <1>1, <2>1 DEF Emit
    <3> HIDE DEF d, e
    <3> QED
      BY <1>3, <2>1, <3>1, <3>2
  <2>2. CASE ~run.stream
    BY <1>1, <1>3, <2>2 DEF Emit
  <2> QED
    BY <2>1, <2>2
<1>5. SetupAgentTypeOK' /\ EditsAgree'
  BY <1>1, <1>2, <1>4, SnapshotKept DEF AgentInv, SetupAgentTypeOK
<1>6. ReasonAgrees' /\ ObligationAgrees' /\ OnlyFailuresOverrun' /\ Failed'
  BY <1>2 DEF ReasonAgrees, ObligationAgrees, OnlyFailuresOverrun, Failed
<1>7. TellingAgrees' /\ ToldOnce'
  BY <1>2, <1>3, <1>4, <1>6 DEF TellingAgrees, ToldOnce, Running, Nothing
<1>8. run'.node # "success" /\ ~Completed'
  BY <1>2, <1>6 DEF Completed
<1> QED
  BY <1>5, <1>6, <1>7, <1>8 DEF AgentInv

LEMMA DisconnectInv ==
    ASSUME AgentInv, Disconnect
    PROVE  AgentInv'
<1>1. /\ run \in Runs /\ run' = [run EXCEPT !.reading = FALSE]
      /\ shown' = shown /\ workspace' = workspace /\ memory' = memory
  BY DEF AgentInv, SetupAgentTypeOK, Disconnect
<1>2. /\ run' \in Runs /\ run'.node = run.node /\ run'.stream = run.stream
      /\ run'.round = run.round /\ run'.output = run.output
      /\ run'.failed = run.failed /\ run'.obligation = run.obligation
      /\ run'.retries = run.retries /\ run'.reason = run.reason
  BY <1>1 DEF Runs
<1>3. ReasonAgrees' /\ ObligationAgrees' /\ OnlyFailuresOverrun'
  BY <1>2
     DEF AgentInv, ReasonAgrees, ObligationAgrees, OnlyFailuresOverrun, Failed
<1>4. TellingAgrees' /\ ToldOnce'
  BY <1>1, <1>2
     DEF AgentInv, TellingAgrees, ToldOnce, Running, Nothing, SaidLast, Failed
<1>5. (run'.node = "success" => Answered') /\ (Completed' => Answered')
  BY <1>2 DEF AgentInv, Completed, Failed, Answered
<1> QED
  BY <1>1, <1>2, <1>3, <1>4, <1>5, OnlyTheRun

LEMMA OutsideEditInv ==
    ASSUME AgentInv, OutsideEdit
    PROVE  AgentInv'
<1> DEFINE v == workspace.version + 1
           e == workspace.edits + 1
<1>1. /\ workspace \in [version : Nat, edits : 0..MaxEdits, outside : BOOLEAN,
                        writes : 0..MaxWrites, launched : Nat]
      /\ workspace.launched <= workspace.version
      /\ memory \in [basis : 0..workspace.version, invalid : BOOLEAN,
                     outcomes : SUBSET {Outcome(k) : k \in Compared}]
  BY DEF AgentInv, SetupAgentTypeOK
<1>2. /\ workspace.edits < MaxEdits /\ MaxEdits \in Nat
      /\ workspace' = [workspace EXCEPT !.version = v, !.edits = e, !.outside = TRUE]
      /\ run' = run /\ shown' = shown /\ memory' = memory
  BY AgentBounds DEF OutsideEdit
<1>3. /\ v \in Nat /\ e \in 0..MaxEdits /\ workspace.launched < v
      /\ memory.basis \in 0..v
  BY <1>1, <1>2
<1> HIDE DEF v, e
<1>4. /\ workspace' \in [version : Nat, edits : 0..MaxEdits, outside : BOOLEAN,
                         writes : 0..MaxWrites, launched : Nat]
      /\ workspace'.launched = workspace.launched /\ workspace'.version = v
  BY <1>1, <1>2, <1>3
<1>5. memory' \in [basis : 0..workspace'.version, invalid : BOOLEAN,
                   outcomes : SUBSET {Outcome(k) : k \in Compared}]
  BY <1>1, <1>2, <1>3, <1>4
<1>6. workspace'.launched <= workspace'.version
  BY <1>1, <1>3, <1>4
<1>7. SetupAgentTypeOK' /\ EditsAgree'
  BY <1>2, <1>3, <1>4, <1>5, <1>6 DEF AgentInv, SetupAgentTypeOK, EditsAgree
<1>8. ReasonAgrees' /\ ObligationAgrees' /\ OnlyFailuresOverrun'
  BY <1>2 DEF AgentInv, ReasonAgrees, ObligationAgrees, OnlyFailuresOverrun, Failed
<1>9. TellingAgrees' /\ ToldOnce'
  BY <1>2 DEF AgentInv, TellingAgrees, ToldOnce, Running, Nothing, SaidLast, Failed
<1>10. (run'.node = "success" => Answered') /\ (Completed' => Answered')
  BY <1>2 DEF AgentInv, Completed, Failed, Answered
<1> QED
  BY <1>7, <1>8, <1>9, <1>10 DEF AgentInv

LEMMA LaunchInv ==
    ASSUME AgentInv, NEW stream \in BOOLEAN, Launch(stream)
    PROVE  AgentInv'
<1> DEFINE no == run.no + 1
           fresh == NewRun(stream, no)
           v == workspace.version
           o == memory.outcomes
<1>1. /\ run \in Runs
      /\ workspace \in [version : Nat, edits : 0..MaxEdits, outside : BOOLEAN,
                        writes : 0..MaxWrites, launched : Nat]
      /\ memory \in [basis : 0..workspace.version, invalid : BOOLEAN,
                     outcomes : SUBSET {Outcome(k) : k \in Compared}]
  BY DEF AgentInv, SetupAgentTypeOK
<1>2. /\ run.no < MaxRuns /\ MaxRuns \in Nat
      /\ memory' = Reconciled(memory, v)
      /\ run' = [fresh EXCEPT !.outcomes = o] /\ shown' = Nothing
      /\ workspace' = [workspace EXCEPT !.outside = FALSE, !.launched = v]
  BY AgentBounds DEF Launch
<1>3. no \in 0..MaxRuns /\ v \in Nat /\ o \subseteq {Outcome(k) : k \in Compared}
  BY <1>1, <1>2 DEF Runs
<1>4. 1 \in 0..RecursionLimit /\ 0 \in 0..1 /\ 0 \in 0..2
  BY LimitIsNat
<1> HIDE DEF no, v, o
<1>5. fresh \in Runs
  <2>1. {} \subseteq {Outcome(k) : k \in Compared} /\ 0 \in Nat
    OBVIOUS
  <2>2. /\ "model" \in Nodes /\ "empty" \in Outputs /\ "none" \in Obligations
        /\ "none" \in Tickets /\ "none" \in Reasons
    BY DEF Nodes, Outputs, Obligations, Tickets, Reasons
  <2> QED
    BY <1>3, <1>4, <2>1, <2>2 DEF NewRun, Runs
<1>6. /\ fresh.node = "model" /\ fresh.stream = stream /\ fresh.round = 0
      /\ fresh.failed = "none" /\ fresh.obligation = "none"
      /\ fresh.retries = 0 /\ fresh.reason = "none"
  BY DEF NewRun
<1> HIDE DEF fresh
<1>7. /\ run' \in Runs /\ run'.node = "model" /\ run'.stream = stream
      /\ run'.round = 0 /\ run'.failed = "none" /\ run'.obligation = "none"
      /\ run'.retries = 0 /\ run'.reason = "none"
  BY <1>2, <1>3, <1>5, <1>6 DEF Runs
<1>8. /\ workspace' \in [version : Nat, edits : 0..MaxEdits, outside : BOOLEAN,
                         writes : 0..MaxWrites, launched : Nat]
      /\ workspace'.version = v /\ workspace'.launched = v /\ ~workspace'.outside
  BY <1>1, <1>2, <1>3 DEF v
<1>9. /\ memory' \in [basis : 0..v, invalid : BOOLEAN,
                      outcomes : SUBSET {Outcome(k) : k \in Compared}]
      /\ memory'.basis <= v
  <2>1. CASE memory.basis = 0
    BY <1>1, <1>2, <1>3, <2>1 DEF Reconciled, v
  <2>2. CASE memory.basis # 0
    <3> DEFINE b == memory.invalid \/ memory.basis # v
    <3>1. b \in BOOLEAN /\ v \in 0..v /\ v <= v
      BY <1>3
    <3>2. memory' = [memory EXCEPT !.invalid = b, !.basis = v]
      BY <1>2, <2>2 DEF Reconciled
    <3> HIDE DEF b
    <3>3. memory' \in [basis : 0..v, invalid : BOOLEAN,
                       outcomes : SUBSET {Outcome(k) : k \in Compared}]
      BY <1>1, <3>1, <3>2
    <3>4. memory'.basis = v
      BY <1>1, <3>2
    <3> QED
      BY <3>1, <3>3, <3>4
  <2> QED
    BY <2>1, <2>2
<1>10. /\ Nothing \in [texts : Seq({"text", "question", "repeated"}),
                       errors : 0..2, dones : 0..1]
       /\ Nothing.dones = 0 /\ Nothing.errors = 0
  BY <1>4 DEF Nothing
<1>11. v <= v
  BY <1>3
<1>12. SetupAgentTypeOK' /\ EditsAgree'
  BY <1>2, <1>7, <1>8, <1>9, <1>10, <1>11 DEF SetupAgentTypeOK, EditsAgree
<1>13. ReasonAgrees' /\ ObligationAgrees'
  BY <1>7 DEF ReasonAgrees, ObligationAgrees, ObligationOf
<1>14. OnlyFailuresOverrun'
  BY <1>7, AgentBounds DEF OnlyFailuresOverrun
<1>15. TellingAgrees' /\ ToldOnce'
  BY <1>2, <1>7, <1>10 DEF TellingAgrees, ToldOnce, Running
<1>16. run'.node # "success" /\ ~Completed'
  BY <1>7 DEF Completed
<1> QED
  BY <1>12, <1>13, <1>14, <1>15, <1>16 DEF AgentInv

LEMMA AgentInit == SetupAgentInit => AgentInv
<1> SUFFICES ASSUME SetupAgentInit
             PROVE  AgentInv
  OBVIOUS
<1> DEFINE fresh == NewRun(FALSE, 0)
<1>1. /\ run = [fresh EXCEPT !.node = "idle", !.steps = 0]
      /\ shown = Nothing /\ memory = NoMemory
      /\ workspace = [version |-> 1, edits |-> 0, writes |-> 0,
                      outside |-> FALSE, launched |-> 0]
  BY DEF SetupAgentInit
<1>2. /\ 0 \in 0..RecursionLimit /\ 1 \in 0..RecursionLimit
      /\ 0 \in 0..1 /\ 0 \in 0..2 /\ 0 \in 0..MaxRuns
      /\ 0 \in 0..MaxEdits /\ 0 \in 0..MaxWrites
  BY LimitIsNat, AgentBounds
<1>3. fresh \in Runs
  <2>1. {} \subseteq {Outcome(k) : k \in Compared} /\ 0 \in Nat
    OBVIOUS
  <2>2. /\ "model" \in Nodes /\ "empty" \in Outputs /\ "none" \in Obligations
        /\ "none" \in Tickets /\ "none" \in Reasons
    BY DEF Nodes, Outputs, Obligations, Tickets, Reasons
  <2> QED
    BY <1>2, <2>1, <2>2 DEF NewRun, Runs
<1>4. fresh.stream = FALSE /\ fresh.retries = 0 /\ fresh.reason = "none"
  BY DEF NewRun
<1> HIDE DEF fresh
<1>5. /\ run \in Runs /\ run.node = "idle" /\ run.stream = FALSE
      /\ run.retries = 0 /\ run.reason = "none"
  <2>1. "idle" \in Nodes
    BY DEF Nodes
  <2>2. run = [fresh EXCEPT !.node = "idle", !.steps = 0]
    BY <1>1
  <2>3. run \in Runs
    BY <1>2, <1>3, <2>1, <2>2 DEF Runs
  <2>4. run.node = "idle" /\ run.stream = fresh.stream
    BY <1>3, <2>2 DEF Runs
  <2>5. run.retries = fresh.retries /\ run.reason = fresh.reason
    BY <1>3, <2>2 DEF Runs
  <2> QED
    BY <1>4, <2>3, <2>4, <2>5
<1>6. SetupAgentTypeOK /\ EditsAgree
  <2>1. shown \in [texts : Seq({"text", "question", "repeated"}),
                   errors : 0..2, dones : 0..1]
    BY <1>1, <1>2 DEF Nothing
  <2>2. /\ workspace \in [version : Nat, edits : 0..MaxEdits, outside : BOOLEAN,
                          writes : 0..MaxWrites, launched : Nat]
        /\ workspace.version = 1 /\ workspace.launched = 0 /\ ~workspace.outside
    BY <1>1, <1>2
  <2>3. 0 \in 0..workspace.version /\ 0 <= workspace.version
    BY <2>2
  <2>4. /\ memory \in [basis : 0..workspace.version, invalid : BOOLEAN,
                       outcomes : SUBSET {Outcome(k) : k \in Compared}]
        /\ memory.basis = 0
    BY <1>1, <2>3 DEF NoMemory
  <2> QED
    BY <1>5, <2>1, <2>2, <2>3, <2>4 DEF SetupAgentTypeOK, EditsAgree
<1>7. ReasonAgrees /\ ObligationAgrees /\ OnlyFailuresOverrun
  BY <1>5 DEF ReasonAgrees, ObligationAgrees, OnlyFailuresOverrun
<1>8. TellingAgrees /\ ToldOnce
  BY <1>1, <1>5 DEF TellingAgrees, ToldOnce, Running
<1>9. run.node # "success" /\ ~Completed
  BY <1>5 DEF Completed
<1> QED
  BY <1>6, <1>7, <1>8, <1>9 DEF AgentInv

LEMMA AgentNext == AgentInv /\ [SetupAgentNext]_agentVars => AgentInv'
<1> SUFFICES ASSUME AgentInv, [SetupAgentNext]_agentVars
             PROVE  AgentInv'
  OBVIOUS
<1>1. CASE UNCHANGED agentVars
  <2>1. /\ run' = run /\ shown' = shown
        /\ workspace' = workspace /\ memory' = memory
    BY <1>1 DEF agentVars
  <2>2. run \in Runs
    BY DEF AgentInv, SetupAgentTypeOK
  <2>3. ReasonAgrees' /\ ObligationAgrees' /\ OnlyFailuresOverrun'
    BY <2>1 DEF AgentInv, ReasonAgrees, ObligationAgrees, OnlyFailuresOverrun, Failed
  <2>4. TellingAgrees' /\ ToldOnce'
    BY <2>1 DEF AgentInv, TellingAgrees, ToldOnce, Running, Nothing, SaidLast, Failed
  <2>5. (run'.node = "success" => Answered') /\ (Completed' => Answered')
    BY <2>1 DEF AgentInv, Completed, Failed, Answered
  <2> QED
    BY <2>1, <2>2, <2>3, <2>4, <2>5, OnlyTheRun
<1> QED
  BY <1>1, LaunchInv, CallModelInv, InspectErrorInv, InspectInvalidInv,
     InspectCallsInv, InspectTextInv, ExecuteToolsInv, AssessProgressInv,
     ReflectInv, FinalizeSuccessInv, FinalizeFailureInv, OverrunInv,
     DisconnectInv, OutsideEditInv DEF SetupAgentNext

LEMMA AgentIsEnough == AgentInv => SetupAgentTypeOK /\ FinishIsHonest /\ ToldOnce
BY DEF AgentInv, FinishIsHonest, CompletedIsComplete, Answered

\* A run begins in one way.
LEMMA OnlyLaunchCounts ==
    ASSUME AgentInv, SetupAgentNext, run'.no > run.no
    PROVE  \E stream \in BOOLEAN : Launch(stream)
<1>1. run \in Runs /\ ~(run.no > run.no)
  BY DEF AgentInv, SetupAgentTypeOK, Runs
<1>2. \A output \in Outputs : CallModel(output) => run'.no = run.no
  BY <1>1 DEF CallModel, Step, Runs
<1>3. InspectError => run'.no = run.no
  BY <1>1 DEF InspectError, Step, Runs
<1>4. InspectInvalid => run'.no = run.no
  BY <1>1 DEF InspectInvalid, Step, Runs
<1>5. InspectCalls => run'.no = run.no
  BY <1>1 DEF InspectCalls, Step, Runs
<1>6. InspectText => run'.no = run.no
  BY <1>1 DEF InspectText, Step, Runs
<1>7. \A batch \in Batches : ExecuteTools(batch) => run'.no = run.no
  BY <1>1 DEF ExecuteTools, Step, Runs
<1>8. AssessProgress => run'.no = run.no
  BY <1>1 DEF AssessProgress, Step, Runs
<1>9. Reflect => run'.no = run.no
  BY <1>1 DEF Reflect, Step, Runs
<1>10. FinalizeSuccess \/ FinalizeFailure => run'.no = run.no
  BY <1>1 DEF FinalizeSuccess, FinalizeFailure, Step, Runs
<1>11. Overrun => run'.no = run.no
  BY <1>1 DEF Overrun, Runs
<1>12. Disconnect => run'.no = run.no
  BY <1>1 DEF Disconnect, Runs
<1>13. OutsideEdit => run'.no = run.no
  BY DEF OutsideEdit
<1> QED
  BY <1>1, <1>2, <1>3, <1>4, <1>5, <1>6, <1>7, <1>8, <1>9, <1>10, <1>11,
     <1>12, <1>13 DEF SetupAgentNext

\* What the next run sees of an edit.
LEMMA LaunchNotices ==
    AgentInv /\ [SetupAgentNext]_agentVars =>
      (run'.no > run.no /\ workspace.outside /\ memory.basis # 0 => memory'.invalid)
<1> SUFFICES ASSUME AgentInv, [SetupAgentNext]_agentVars, run'.no > run.no,
                    workspace.outside, memory.basis # 0
             PROVE  memory'.invalid
  OBVIOUS
<1>1. run \in Runs /\ ~(run.no > run.no)
  BY DEF AgentInv, SetupAgentTypeOK, Runs
<1>2. SetupAgentNext
  BY <1>1 DEF agentVars
<1>3. PICK stream \in BOOLEAN : Launch(stream)
  BY <1>2, OnlyLaunchCounts
<1>4. /\ workspace.version \in Nat /\ workspace.launched \in Nat
      /\ memory \in [basis : 0..workspace.version, invalid : BOOLEAN,
                     outcomes : SUBSET {Outcome(k) : k \in Compared}]
  BY DEF AgentInv, SetupAgentTypeOK
<1>5. memory.basis # workspace.version
  BY <1>4 DEF AgentInv, EditsAgree
<1> DEFINE v == workspace.version
           b == memory.invalid \/ memory.basis # v
<1>6. memory' = [memory EXCEPT !.invalid = b, !.basis = v]
  BY <1>3 DEF Launch, Reconciled
<1>7. b
  BY <1>5
<1> HIDE DEF b
<1>8. memory'.invalid <=> b
  BY <1>4, <1>6
<1> QED
  BY <1>7, <1>8

-----------------------------------------------------------------------------
\* The variables of a setup agent keep their types, for any numbers of rounds,
\* calls, runs and edits (executor.py, setup_agent_runtime_state_service.py).
THEOREM SetupAgentTypeCorrect == SetupAgentSpec => []SetupAgentTypeOK
BY AgentInit, AgentNext, AgentIsEnough, PTL DEF SetupAgentSpec

\* No turn of the setup agent is reported as completed over a call that has to
\* be repaired or a question that has to be asked, and only failing tools
\* carry one past its rounds, for any numbers of rounds and calls.
THEOREM FinishAlwaysHonest == SetupAgentSpec => []FinishIsHonest
BY AgentInit, AgentNext, AgentIsEnough, PTL DEF SetupAgentSpec

\* Who reads a turn to its end is told once that it is over, and of an error
\* exactly when it failed; and every run notices what another has edited since
\* the last one began, for any numbers of runs and edits.
THEOREM AlwaysOneVerdict == SetupAgentSpec => OneVerdict
<1>1. SetupAgentSpec => []ToldOnce
  BY AgentInit, AgentNext, AgentIsEnough, PTL DEF SetupAgentSpec
<1>2. SetupAgentSpec => NoEditIsMissed
  BY AgentInit, AgentNext, LaunchNotices, PTL DEF SetupAgentSpec, NoEditIsMissed
<1> QED
  BY <1>1, <1>2 DEF OneVerdict, ToldOnce

-----------------------------------------------------------------------------
(* The setup workspace.                                                    *)

SetupRecord == [state : {"drafting", "ready_to_activate", "activated"},
                stage : StageSet, session : BOOLEAN,
                readiness : [Units -> Readiness]]
CommitRecord == [unit : Units, snapshot : 0..MaxRevision]
IngestionJobs == UNION {[kinds -> JobState] : kinds \in SUBSET JobKind}

\* The last commit of a step or stage, in us, is the latest of cs for it, and
\* what is frozen shows what it committed.
LastIsLatest(us, cs) ==
    \A x \in Units :
      /\ \A c \in DOMAIN cs : cs[c].unit = x => c <= us[x].last
      /\ us[x].last # 0 => /\ us[x].last \in DOMAIN cs
                           /\ cs[us[x].last].unit = x
FrozenShows(us, cs) ==
    \A x \in Units :
      us[x].state = "frozen" =>
        us[x].last # 0 /\ cs[us[x].last].snapshot = us[x].draft
StagesBehind(us, stage) ==
    \A i \in DOMAIN Stages :
      (\E j \in DOMAIN Stages : i < j /\ Stages[j] = stage) =>
        us[Stages[i]].last > 0

\* What waits to be ingested has not been touched yet.
QueuedUntilIngested ==
    \A c \in ingesting :
      c \in DOMAIN job /\ \A k \in DOMAIN job[c] : job[c][k] = "queued"
JobsAreDone == \A c \in DOMAIN job : \A k \in DOMAIN job[c] :
                 job[c][k] = "completed"
\* What the check of the graph found is so until the session is marked.
CheckedStaysSo ==
    activation \in {"seeding", "marking"} =>
      /\ ~setup.session /\ JobsAreDone
      /\ \A s \in Steps : unit[s].state = "frozen"

SetupInv ==
    /\ unit \in [Units -> UnitRecord] /\ proposed \subseteq Units
    /\ commit \in Seq(CommitRecord) /\ Len(commit) <= MaxCommits
    /\ job \in Seq(IngestionJobs) /\ Len(job) = Len(commit)
    /\ setup \in SetupRecord /\ rows \in Nat
    /\ activation \in {"idle", "checking", "seeding", "marking", "refused"}
    /\ thread \in BOOLEAN
    /\ LastIsLatest(unit, commit) /\ FrozenShows(unit, commit)
    /\ StagesBehind(unit, setup.stage)
    /\ ReadinessIsFresh /\ OneStorySession
    /\ QueuedUntilIngested /\ CheckedStaysSo

LEMMA UnitFields ==
    ASSUME NEW u \in UnitRecord
    PROVE  /\ u.state \in StepState /\ u.last \in 0..MaxCommits
           /\ u.draft \in 0..MaxRevision /\ u.parsed \in BOOLEAN
           /\ u.last \in Nat /\ u.draft \in Nat
BY SetupBounds DEF UnitRecord

\* A step or stage with another state, and another draft or last commit.
LEMMA UnitEdited ==
    ASSUME NEW u \in UnitRecord, NEW st
    PROVE  /\ [u EXCEPT !.state = st]
                = [state |-> st, last |-> u.last, draft |-> u.draft,
                   parsed |-> u.parsed]
           /\ \A d : [[u EXCEPT !.state = st] EXCEPT !.draft = d]
                = [state |-> st, last |-> u.last, draft |-> d,
                   parsed |-> u.parsed]
           /\ \A c : [[u EXCEPT !.state = st] EXCEPT !.last = c]
                = [state |-> st, last |-> c, draft |-> u.draft,
                   parsed |-> u.parsed]
<1> DEFINE e == [u EXCEPT !.state = st]
<1>1. e = [state |-> st, last |-> u.last, draft |-> u.draft,
           parsed |-> u.parsed]
  BY DEF UnitRecord
<1> HIDE DEF e
<1>2. \A d : [e EXCEPT !.draft = d]
              = [state |-> st, last |-> u.last, draft |-> d,
                 parsed |-> u.parsed]
  BY <1>1
<1>3. \A c : [e EXCEPT !.last = c]
              = [state |-> st, last |-> c, draft |-> u.draft,
                 parsed |-> u.parsed]
  BY <1>1
<1> QED
  BY <1>1, <1>2, <1>3 DEF e

LEMMA ReadinessIsTyped ==
    ASSUME NEW us
    PROVE  RefreshedReadiness(us) \in [Units -> Readiness]
<1>1. \A x \in Units : ReadinessOf(us[x]) \in Readiness
  BY DEF ReadinessOf, Readiness
<1> QED
  BY <1>1 DEF RefreshedReadiness

LEMMA SetupFields ==
    ASSUME NEW s \in SetupRecord
    PROVE  /\ s.stage \in StageSet /\ s.session \in BOOLEAN
           /\ \A us : /\ [s EXCEPT !.readiness = RefreshedReadiness(us)]
                           \in SetupRecord
                      /\ [s EXCEPT !.readiness = RefreshedReadiness(us)].stage
                           = s.stage
                      /\ [s EXCEPT !.readiness = RefreshedReadiness(us)].session
                           = s.session
                      /\ [s EXCEPT !.readiness = RefreshedReadiness(us)].readiness
                           = RefreshedReadiness(us)
<1>1. \A us : RefreshedReadiness(us) \in [Units -> Readiness]
  BY ReadinessIsTyped
<1> QED
  BY <1>1 DEF SetupRecord

\* A step or stage is changed that gets no new commit.
LEMMA UnitChanged ==
    ASSUME SetupInv, NEW x \in Units, NEW r \in UnitRecord,
           r.last = unit[x].last,
           r.state = "frozen" =>
             unit[x].state = "frozen" /\ r.draft = unit[x].draft,
           NEW us, us = [unit EXCEPT ![x] = r]
    PROVE  /\ us \in [Units -> UnitRecord]
           /\ LastIsLatest(us, commit) /\ FrozenShows(us, commit)
           /\ StagesBehind(us, setup.stage)
           /\ us[x] = r /\ \A y \in Units : y # x => us[y] = unit[y]
<1>1. unit \in [Units -> UnitRecord] /\ LastIsLatest(unit, commit)
      /\ FrozenShows(unit, commit) /\ StagesBehind(unit, setup.stage)
  BY DEF SetupInv
<1>2. /\ us \in [Units -> UnitRecord] /\ us[x] = r
      /\ \A y \in Units : y # x => us[y] = unit[y]
  BY <1>1
<1>3. \A y \in Units : us[y].last = unit[y].last
  BY <1>2
<1>4. LastIsLatest(us, commit)
  BY <1>1, <1>3 DEF LastIsLatest
<1>5. FrozenShows(us, commit)
  <2> SUFFICES ASSUME NEW y \in Units, us[y].state = "frozen"
               PROVE  us[y].last # 0 /\ commit[us[y].last].snapshot = us[y].draft
    BY DEF FrozenShows
  <2>1. unit[y].state = "frozen" /\ us[y].draft = unit[y].draft
    BY <1>2
  <2> QED
    BY <1>1, <1>3, <2>1 DEF FrozenShows
<1>6. StagesBehind(us, setup.stage)
  <2>1. \A i \in DOMAIN Stages : Stages[i] \in Units
    BY DEF Units, StageSet, Range
  <2> QED
    BY <1>1, <1>3, <2>1 DEF StagesBehind
<1> QED
  BY <1>2, <1>4, <1>5, <1>6

\* An edit of a step or stage while no activation is under way.
LEMMA EditedIsSound ==
    ASSUME SetupInv, NEW x \in Units, NEW r \in UnitRecord,
           r.last = unit[x].last,
           r.state = "frozen" =>
             unit[x].state = "frozen" /\ r.draft = unit[x].draft,
           unit' = [unit EXCEPT ![x] = r],
           setup' = [setup EXCEPT !.readiness = RefreshedReadiness(unit')],
           proposed' \subseteq Units, activation = "idle",
           UNCHANGED <<commit, job, rows, ingesting, activation, thread>>
    PROVE  SetupInv' /\ ActivatedWhole
<1> DEFINE us == unit'
<1>1. /\ us \in [Units -> UnitRecord]
      /\ LastIsLatest(us, commit) /\ FrozenShows(us, commit)
      /\ StagesBehind(us, setup.stage)
  <2>1. us = [unit EXCEPT ![x] = r]
    OBVIOUS
  <2> HIDE DEF us
  <2> QED
    BY <2>1, UnitChanged
<1>2. /\ setup \in SetupRecord /\ setup' \in SetupRecord
      /\ setup'.stage = setup.stage /\ setup'.session = setup.session
      /\ setup'.readiness = RefreshedReadiness(us)
  <2>1. setup \in SetupRecord
    BY DEF SetupInv
  <2> HIDE DEF us
  <2> QED
    BY <2>1, SetupFields DEF us
<1>3. ReadinessIsFresh' /\ OneStorySession' /\ QueuedUntilIngested'
      /\ CheckedStaysSo'
  BY <1>2 DEF SetupInv, ReadinessIsFresh, OneStorySession,
              QueuedUntilIngested, CheckedStaysSo
<1>4. StagesBehind(unit', setup'.stage)
  BY <1>1, <1>2
<1> QED
  BY <1>1, <1>2, <1>3, <1>4 DEF SetupInv, ActivatedWhole

LEMMA PatchDraftIsSound ==
    ASSUME SetupInv, NEW x \in Units, PatchDraft(x)
    PROVE  SetupInv' /\ ActivatedWhole
<1> DEFINE u == unit[x]
           r == [state |-> "discussing", last |-> u.last, draft |-> u.draft + 1,
                 parsed |-> u.parsed]
<1>1. unit \in [Units -> UnitRecord] /\ u \in UnitRecord
      /\ proposed \subseteq Units
  BY DEF SetupInv
<1>2. r \in UnitRecord /\ r.last = u.last /\ r.state # "frozen"
  <2>1. u.last \in 0..MaxCommits /\ u.draft \in 0..MaxRevision
        /\ u.parsed \in BOOLEAN /\ u.draft < MaxRevision
    BY <1>1, UnitFields DEF PatchDraft
  <2>2. u.draft + 1 \in 0..MaxRevision
    BY <2>1, SetupBounds
  <2> QED
    BY <2>1, <2>2 DEF UnitRecord, StepState
<1>3. unit' = [unit EXCEPT ![x] = r]
  <2>1. unit' = [unit EXCEPT ![x] = [[u EXCEPT !.state = "discussing"]
                                       EXCEPT !.draft = u.draft + 1]]
    BY <1>1 DEF PatchDraft
  <2>2. [[u EXCEPT !.state = "discussing"] EXCEPT !.draft = u.draft + 1] = r
    BY <1>1, UnitEdited
  <2> QED
    BY <2>1, <2>2
<1> HIDE DEF r
<1>4. /\ setup' = [setup EXCEPT !.readiness = RefreshedReadiness(unit')]
      /\ activation = "idle"
      /\ UNCHANGED <<proposed, commit, job, rows, ingesting, activation, thread>>
  BY DEF PatchDraft
<1> QED
  BY <1>1, <1>2, <1>3, <1>4, EditedIsSound

LEMMA RegisterAssetIsSound ==
    ASSUME SetupInv, NEW x \in AssetSteps, RegisterAsset(x)
    PROVE  SetupInv' /\ ActivatedWhole
<1> DEFINE u == unit[x]
           r == [u EXCEPT !.parsed = TRUE]
<1>1. /\ unit \in [Units -> UnitRecord] /\ x \in Units /\ u \in UnitRecord
      /\ unit' = [unit EXCEPT ![x] = r] /\ activation = "idle"
      /\ UNCHANGED <<proposed, commit, job, setup, rows, ingesting, activation,
                     thread>>
  BY SetupBounds DEF SetupInv, RegisterAsset, Units
<1>2. /\ r \in UnitRecord /\ r.state = u.state /\ r.last = u.last
      /\ r.draft = u.draft
  <2>1. \A t \in BOOLEAN : [u EXCEPT !.parsed = t] \in UnitRecord
    BY <1>1 DEF UnitRecord
  <2>2. r \in UnitRecord
    BY <2>1
  <2> QED
    BY <1>1, <2>2 DEF UnitRecord
<1> HIDE DEF r
<1>3. /\ unit' \in [Units -> UnitRecord]
      /\ LastIsLatest(unit', commit) /\ FrozenShows(unit', commit)
      /\ StagesBehind(unit', setup.stage)
      /\ unit'[x] = r /\ \A y \in Units : y # x => unit'[y] = unit[y]
  BY <1>1, <1>2, UnitChanged
<1>4. \A y \in Units : ReadinessOf(unit'[y]) = ReadinessOf(unit[y])
  BY <1>2, <1>3 DEF ReadinessOf
<1>5. ReadinessIsFresh' /\ OneStorySession' /\ QueuedUntilIngested'
      /\ CheckedStaysSo'
  <2>1. ReadinessIsFresh'
    BY <1>1, <1>4 DEF SetupInv, ReadinessIsFresh, RefreshedReadiness
  <2> QED
    BY <1>1, <2>1 DEF SetupInv, OneStorySession, QueuedUntilIngested,
                      CheckedStaysSo
<1> QED
  BY <1>1, <1>3, <1>5 DEF SetupInv, ActivatedWhole

LEMMA ProposalIsSound ==
    ASSUME SetupInv, NEW x \in Units, ProposeCommit(x) \/ RejectCommit(x)
    PROVE  SetupInv' /\ ActivatedWhole
<1> DEFINE u == unit[x]
<1>1. unit \in [Units -> UnitRecord] /\ u \in UnitRecord
      /\ proposed \subseteq Units
  BY DEF SetupInv
<1>2. PICK st \in {"review_pending", "discussing"} :
        /\ unit' = [unit EXCEPT ![x] = [u EXCEPT !.state = st]]
        /\ setup' = [setup EXCEPT !.readiness = RefreshedReadiness(unit')]
  <2>1. CASE ProposeCommit(x)
    <3>1. /\ unit' = [unit EXCEPT ![x] = [u EXCEPT !.state = "review_pending"]]
          /\ setup' = [setup EXCEPT !.readiness = RefreshedReadiness(unit')]
      BY <1>1, <2>1 DEF ProposeCommit
    <3> QED
      BY <3>1
  <2>2. CASE RejectCommit(x)
    <3>1. /\ unit' = [unit EXCEPT ![x] = [u EXCEPT !.state = "discussing"]]
          /\ setup' = [setup EXCEPT !.readiness = RefreshedReadiness(unit')]
      BY <1>1, <2>2 DEF RejectCommit
    <3> QED
      BY <3>1
  <2> QED
    BY <2>1, <2>2
<1> DEFINE r == [u EXCEPT !.state = st]
<1>3. r \in UnitRecord /\ r.last = u.last /\ r.state # "frozen"
  <2>1. r = [state |-> st, last |-> u.last, draft |-> u.draft,
             parsed |-> u.parsed]
    BY <1>1, UnitEdited
  <2> QED
    BY <1>1, <2>1, UnitFields DEF UnitRecord, StepState
<1>4. unit' = [unit EXCEPT ![x] = r]
  BY <1>2
<1> HIDE DEF r
<1>5. /\ activation = "idle" /\ proposed' \subseteq Units
      /\ UNCHANGED <<commit, job, rows, ingesting, activation, thread>>
  BY <1>1 DEF ProposeCommit, RejectCommit
<1> QED
  BY <1>1, <1>2, <1>3, <1>4, <1>5, EditedIsSound

-----------------------------------------------------------------------------

LEMMA CommitJobs ==
    ASSUME NEW x
    PROVE  [k \in JobKindsOf(x) |-> "queued"] \in IngestionJobs
<1>1. JobKindsOf(x) \in SUBSET JobKind
  BY DEF JobKindsOf, JobKind
<1>2. [k \in JobKindsOf(x) |-> "queued"] \in [JobKindsOf(x) -> JobState]
  BY DEF JobState
<1> QED
  BY <1>1, <1>2 DEF IngestionJobs

\* The stage a commit moves on to has every stage before it frozen.
LEMMA AdvancedIsBehind ==
    ASSUME NEW us \in [Units -> UnitRecord], NEW cs, FrozenShows(us, cs),
           NEW x \in StageSet
    PROVE  /\ CurrentStage(us, x) \in StageSet
           /\ StagesBehind(us, CurrentStage(us, x))
<1> DEFINE open == {i \in DOMAIN Stages : us[Stages[i]].state # "frozen"}
           stage == CurrentStage(us, x)
<1>1. /\ DOMAIN Stages = 1..Len(Stages) /\ Len(Stages) \in Nat
      /\ \A i \in DOMAIN Stages : Stages[i] \in StageSet
      /\ \A i, j \in DOMAIN Stages : Stages[i] = Stages[j] => i = j
  BY SetupBounds DEF IsInjective
<1>2. \A i \in DOMAIN Stages :
        us[Stages[i]].state = "frozen" => us[Stages[i]].last > 0
  <2> SUFFICES ASSUME NEW i \in DOMAIN Stages,
                      us[Stages[i]].state = "frozen"
               PROVE  us[Stages[i]].last > 0
    OBVIOUS
  <2>1. Stages[i] \in Units
    BY <1>1 DEF Units
  <2>2. us[Stages[i]].last # 0 /\ us[Stages[i]].last \in Nat
    BY <2>1, UnitFields DEF FrozenShows
  <2> QED
    BY <2>2
<1>3. CASE open = {}
  <2>1. stage = x
    BY <1>3 DEF CurrentStage
  <2>2. \A i \in DOMAIN Stages : us[Stages[i]].last > 0
    BY <1>2, <1>3
  <2> QED
    BY <2>1, <2>2 DEF StagesBehind
<1>4. CASE open # {}
  <2>1. PICK m \in open : \A i \in open : m <= i
    <3>1. open \in SUBSET Nat
      BY <1>1
    <3> HIDE DEF open
    <3> QED
      BY <1>4, <3>1, LeastNat
  <2>2. Min(open) = m
    <3>1. open \subseteq Nat
      BY <1>1
    <3> HIDE DEF open
    <3>2. \A k \in open : (\A i \in open : k <= i) => k = m
      BY <2>1, <3>1
    <3> QED
      BY <2>1, <3>2 DEF Min
  <2>3. stage = Stages[m]
    BY <1>4, <2>2 DEF CurrentStage
  <2>4. \A i \in DOMAIN Stages : i < m => us[Stages[i]].state = "frozen"
    BY <1>1, <2>1
  <2>5. \A j \in DOMAIN Stages : Stages[j] = stage => j = m
    BY <1>1, <2>1, <2>3
  <2>6. StagesBehind(us, stage)
    BY <1>2, <2>4, <2>5 DEF StagesBehind
  <2> QED
    BY <1>1, <2>1, <2>3, <2>6
<1> QED
  BY <1>3, <1>4

LEMMA AcceptCommitIsSound ==
    ASSUME SetupInv, NEW x \in Units, AcceptCommit(x)
    PROVE  SetupInv' /\ ActivatedWhole
<1> DEFINE c == Len(commit) + 1
           u == unit[x]
           r == [state |-> "frozen", last |-> c, draft |-> u.draft,
                 parsed |-> u.parsed]
           record == [unit |-> x, snapshot |-> u.draft]
           jobs == [k \in JobKindsOf(x) |-> "queued"]
           us == unit'
           cs == Append(commit, record)
           js == Append(job, jobs)
<1>1. /\ unit \in [Units -> UnitRecord] /\ u \in UnitRecord
      /\ commit \in Seq(CommitRecord) /\ job \in Seq(IngestionJobs)
      /\ Len(job) = Len(commit) /\ Len(commit) \in Nat
      /\ LastIsLatest(unit, commit) /\ FrozenShows(unit, commit)
      /\ StagesBehind(unit, setup.stage) /\ setup \in SetupRecord
  BY DEF SetupInv
<1>2. /\ activation = "idle" /\ c <= MaxCommits /\ c \in Nat
      /\ commit' = cs /\ job' = js
      /\ ingesting' = ingesting \cup {c}
      /\ UNCHANGED <<proposed, rows, activation, thread>>
  BY <1>1 DEF AcceptCommit
<1>3. us = [unit EXCEPT ![x] = r]
  <2>1. us = [unit EXCEPT ![x] = [[u EXCEPT !.state = "frozen"]
                                    EXCEPT !.last = c]]
    BY <1>1 DEF AcceptCommit
  <2>2. [[u EXCEPT !.state = "frozen"] EXCEPT !.last = c] = r
    <3>0. u \in UnitRecord
      BY <1>1
    <3> HIDE DEF u
    <3>1. \A d : [[u EXCEPT !.state = "frozen"] EXCEPT !.last = d]
                  = [state |-> "frozen", last |-> d, draft |-> u.draft,
                     parsed |-> u.parsed]
      BY <3>0, UnitEdited, ZenonT(60)
    <3> QED
      BY <3>1
  <2> QED
    BY <2>1, <2>2
<1>4. /\ r \in UnitRecord /\ r.last = c /\ r.draft = u.draft
      /\ record \in CommitRecord /\ record.unit = x
      /\ record.snapshot = u.draft
  BY <1>1, <1>2, UnitFields, SetupBounds DEF UnitRecord, CommitRecord, StepState
<1>5. jobs \in IngestionJobs /\ \A k \in DOMAIN jobs : jobs[k] = "queued"
  BY CommitJobs
<1> HIDE DEF r, record, jobs
<1>6. /\ cs \in Seq(CommitRecord) /\ Len(cs) = c /\ cs[c] = record
      /\ DOMAIN cs = 1..c /\ DOMAIN commit = 1..Len(commit)
      /\ \A d \in DOMAIN commit : cs[d] = commit[d]
  BY <1>1, <1>4
<1>7. /\ js \in Seq(IngestionJobs) /\ Len(js) = c /\ js[c] = jobs
      /\ DOMAIN js = 1..c /\ DOMAIN job = 1..Len(commit)
      /\ \A d \in DOMAIN job : js[d] = job[d]
  BY <1>1, <1>5
<1>8. /\ us \in [Units -> UnitRecord] /\ us[x] = r
      /\ \A y \in Units : y # x => us[y] = unit[y]
  BY <1>1, <1>3, <1>4
<1>9. setup' =
        [setup EXCEPT
           !.readiness = RefreshedReadiness(us),
           !.stage = IF x \in StageSet THEN CurrentStage(us, x) ELSE setup.stage]
  BY <1>1 DEF AcceptCommit, SetupRecord
<1> HIDE DEF us, cs, js
<1>10. LastIsLatest(us, cs)
  <2> SUFFICES ASSUME NEW y \in Units
               PROVE  /\ \A d \in DOMAIN cs : cs[d].unit = y => d <= us[y].last
                      /\ us[y].last # 0 => /\ us[y].last \in DOMAIN cs
                                           /\ cs[us[y].last].unit = y
    BY DEF LastIsLatest
  <2>1. CASE y = x
    BY <1>2, <1>4, <1>6, <1>8, <2>1
  <2>2. CASE y # x
    <3>1. us[y].last = unit[y].last /\ unit[y].last \in Nat
      BY <1>1, <1>8, <2>2, UnitFields
    <3>2. \A d \in DOMAIN cs : cs[d].unit = y => d \in DOMAIN commit
      BY <1>1, <1>2, <1>4, <1>6, <2>2
    <3>3. \A d \in DOMAIN cs : cs[d].unit = y => d <= us[y].last
      BY <1>1, <1>6, <3>1, <3>2 DEF LastIsLatest
    <3>4. unit[y].last # 0 => /\ unit[y].last \in DOMAIN commit
                              /\ commit[unit[y].last].unit = y
      BY <1>1 DEF LastIsLatest
    <3>5. DOMAIN commit \subseteq DOMAIN cs
      BY <1>1, <1>2, <1>6
    <3> QED
      BY <1>6, <3>1, <3>3, <3>4, <3>5
  <2> QED
    BY <2>1, <2>2
<1>11. FrozenShows(us, cs)
  <2> SUFFICES ASSUME NEW y \in Units, us[y].state = "frozen"
               PROVE  us[y].last # 0 /\ cs[us[y].last].snapshot = us[y].draft
    BY DEF FrozenShows
  <2>1. CASE y = x
    BY <1>1, <1>2, <1>4, <1>6, <1>8, <2>1
  <2>2. CASE y # x
    <3>1. us[y] = unit[y]
      BY <1>8, <2>2
    <3>2. /\ unit[y].last # 0 /\ commit[unit[y].last].snapshot = unit[y].draft
          /\ unit[y].last \in DOMAIN commit
      BY <1>1, <3>1 DEF FrozenShows, LastIsLatest
    <3> QED
      BY <1>6, <3>1, <3>2
  <2> QED
    BY <2>1, <2>2
<1>12. setup' \in SetupRecord /\ setup'.session = setup.session
       /\ setup'.readiness = RefreshedReadiness(us)
       /\ StagesBehind(us, setup'.stage)
  <2> DEFINE stage == IF x \in StageSet THEN CurrentStage(us, x)
                      ELSE setup.stage
  <2>1. stage \in StageSet /\ StagesBehind(us, stage)
    <3>1. CASE x \in StageSet
      BY <1>8, <1>11, <3>1, AdvancedIsBehind
    <3>2. CASE x \notin StageSet
      <4>1. \A i \in DOMAIN Stages : Stages[i] \in Units
        BY DEF Units, StageSet, Range
      <4>2. \A i \in DOMAIN Stages : Stages[i] # x
        BY <3>2 DEF StageSet, Range
      <4>3. StagesBehind(us, setup.stage)
        BY <1>1, <1>8, <4>1, <4>2 DEF StagesBehind
      <4>4. setup.stage \in StageSet
        BY <1>1 DEF SetupRecord
      <4> QED
        BY <3>2, <4>3, <4>4
    <3> QED
      BY <3>1, <3>2
  <2>2. RefreshedReadiness(us) \in [Units -> Readiness]
    BY ReadinessIsTyped
  <2> HIDE DEF stage
  <2>3. setup' = [setup EXCEPT !.readiness = RefreshedReadiness(us),
                               !.stage = stage]
    BY <1>9 DEF stage
  <2>4. /\ setup' \in SetupRecord /\ setup'.session = setup.session
        /\ setup'.readiness = RefreshedReadiness(us) /\ setup'.stage = stage
    BY <1>1, <2>1, <2>2, <2>3 DEF SetupRecord
  <2> QED
    BY <2>1, <2>4
<1>13. QueuedUntilIngested'
  <2> SUFFICES ASSUME NEW d \in ingesting'
               PROVE  d \in DOMAIN js /\ \A k \in DOMAIN js[d] :
                                           js[d][k] = "queued"
    BY <1>2 DEF QueuedUntilIngested
  <2>1. CASE d = c
    BY <1>1, <1>2, <1>5, <1>7, <2>1
  <2>2. CASE d \in ingesting
    <3>1. d \in DOMAIN job /\ \A k \in DOMAIN job[d] : job[d][k] = "queued"
      BY <2>2 DEF SetupInv, QueuedUntilIngested
    <3>2. d \in DOMAIN js
      BY <1>1, <1>7, <3>1
    <3> QED
      BY <1>7, <3>1, <3>2
  <2> QED
    BY <1>2, <2>1, <2>2
<1>14. ReadinessIsFresh' /\ OneStorySession' /\ CheckedStaysSo'
  BY <1>2, <1>12 DEF SetupInv, ReadinessIsFresh, OneStorySession,
                     CheckedStaysSo, us
<1>15. /\ unit' \in [Units -> UnitRecord] /\ LastIsLatest(unit', commit')
       /\ FrozenShows(unit', commit') /\ StagesBehind(unit', setup'.stage)
  BY <1>2, <1>8, <1>10, <1>11, <1>12 DEF us
<1>16. /\ commit' \in Seq(CommitRecord) /\ Len(commit') <= MaxCommits
       /\ job' \in Seq(IngestionJobs) /\ Len(job') = Len(commit')
  BY <1>2, <1>6, <1>7
<1> QED
  BY <1>2, <1>12, <1>13, <1>14, <1>15, <1>16 DEF SetupInv, ActivatedWhole

-----------------------------------------------------------------------------

LEMMA IngestionIsSound ==
    ASSUME SetupInv, NEW c, IngestCommit(c) \/ IngestAbort(c)
    PROVE  SetupInv' /\ ActivatedWhole
<1>1. /\ job \in Seq(IngestionJobs) /\ c \in DOMAIN job
      /\ \A k \in DOMAIN job[c] : job[c][k] = "queued"
      /\ ingesting' = ingesting \ {c}
      /\ UNCHANGED <<unit, proposed, commit, setup, rows, activation, thread>>
  BY DEF SetupInv, QueuedUntilIngested, IngestCommit, IngestAbort
<1>2. PICK kinds \in SUBSET JobKind : job[c] \in [kinds -> JobState]
  <2>1. job[c] \in IngestionJobs
    BY <1>1
  <2> QED
    BY <2>1 DEF IngestionJobs
<1>3. PICK jobs \in [kinds -> JobState] : job' = [job EXCEPT ![c] = jobs]
  <2>1. CASE IngestCommit(c)
    <3>1. PICK result \in [DOMAIN job[c] -> {"completed", "failed"}] :
            job' = [job EXCEPT ![c] = result]
      BY <2>1 DEF IngestCommit
    <3>2. result \in [kinds -> JobState]
      BY <1>2 DEF JobState
    <3> QED
      BY <3>1, <3>2
  <2>2. CASE IngestAbort(c)
    <3>1. PICK done \in SUBSET DOMAIN job[c] :
            job' = [job EXCEPT ![c] =
                      [k \in DOMAIN job[c] |-> IF k \in done THEN "completed"
                                               ELSE job[c][k]]]
      BY <1>1, <2>2 DEF IngestAbort
    <3> DEFINE jobs == [k \in DOMAIN job[c] |-> IF k \in done THEN "completed"
                                                ELSE job[c][k]]
    <3>2. jobs \in [kinds -> JobState]
      BY <1>2 DEF JobState
    <3> QED
      BY <3>1, <3>2
  <2> QED
    BY <2>1, <2>2
<1>4. /\ job' \in Seq(IngestionJobs) /\ Len(job') = Len(job)
      /\ DOMAIN job' = DOMAIN job /\ job'[c] = jobs
      /\ \A d \in DOMAIN job : d # c => job'[d] = job[d]
  <2>1. jobs \in IngestionJobs
    BY DEF IngestionJobs
  <2> QED
    BY <1>1, <1>3, <2>1
<1>5. QueuedUntilIngested'
  BY <1>1, <1>4 DEF SetupInv, QueuedUntilIngested
<1>6. CheckedStaysSo'
  <2> SUFFICES ASSUME activation \in {"seeding", "marking"}
               PROVE  JobsAreDone'
    BY <1>1 DEF SetupInv, CheckedStaysSo
  <2>1. JobsAreDone
    BY DEF SetupInv, CheckedStaysSo
  <2>2. \A k \in DOMAIN job[c] : FALSE
    BY <1>1, <2>1 DEF JobsAreDone
  <2>3. \A k \in DOMAIN jobs : FALSE
    BY <1>2, <1>3, <2>2
  <2> QED
    BY <1>4, <2>1, <2>3 DEF JobsAreDone
<1> QED
  BY <1>1, <1>4, <1>5, <1>6
     DEF SetupInv, ReadinessIsFresh, OneStorySession, ActivatedWhole

\* A verdict on the workspace, and no more of the activation than that.
LEMMA VerdictIsSound ==
    ASSUME SetupInv, NEW verdict, StoreVerdict(verdict),
           activation' \in {"idle", "checking", "seeding", "marking", "refused"},
           thread' \in BOOLEAN,
           activation' \in {"seeding", "marking"} =>
             /\ ~setup.session /\ JobsAreDone
             /\ \A s \in Steps : unit[s].state = "frozen",
           UNCHANGED <<unit, proposed, commit, job, rows, ingesting>>
    PROVE  SetupInv' /\ ActivatedWhole
<1>1. PICK state \in {"drafting", "ready_to_activate"} :
        setup' = [setup EXCEPT !.state = state]
  BY DEF StoreVerdict
<1>2. /\ setup' \in SetupRecord /\ setup'.stage = setup.stage
      /\ setup'.session = setup.session
      /\ setup'.readiness = setup.readiness
  BY <1>1 DEF SetupInv, SetupRecord
<1>3. CheckedStaysSo'
  BY <1>2 DEF CheckedStaysSo, JobsAreDone
<1> QED
  BY <1>2, <1>3
     DEF SetupInv, ReadinessIsFresh, OneStorySession, QueuedUntilIngested,
         ActivatedWhole

LEMMA ActivationIsSound ==
    ASSUME SetupInv,
           \/ ActivationCheck \/ Activate \/ ThreadRefuses \/ LoadActivated
           \/ GraphCheck \/ AnswerRefusal \/ SeedSession \/ SetupCrash
    PROVE  SetupInv' /\ ActivatedWhole
<1>1. CASE ActivationCheck \/ Activate
  BY <1>1, VerdictIsSound DEF ActivationCheck, Activate, SetupInv
<1>2. CASE GraphCheck
  <2>1. /\ StoreVerdict(ActivationReady) /\ ~setup.session
        /\ activation' = IF ActivationReady THEN "seeding" ELSE "refused"
        /\ thread' = ~ActivationReady
        /\ UNCHANGED <<unit, proposed, commit, job, rows, ingesting>>
    BY <1>2 DEF GraphCheck
  <2>2. ActivationReady => /\ JobsAreDone
                           /\ \A s \in Steps : unit[s].state = "frozen"
    BY DEF ActivationReady, JobsAreDone
  <2>3. thread' \in BOOLEAN
    BY <2>1 DEF ActivationReady
  <2> QED
    BY <2>1, <2>2, <2>3, VerdictIsSound
<1>3. CASE ThreadRefuses \/ LoadActivated \/ AnswerRefusal \/ SeedSession
           \/ SetupCrash
  <2>1. /\ UNCHANGED <<unit, proposed, commit, job, setup, rows, thread>>
        /\ activation' \in {"idle", "refused", "marking"}
        /\ activation' = "marking" => activation = "seeding"
        /\ ingesting' \subseteq ingesting
    BY <1>3 DEF ThreadRefuses, LoadActivated, AnswerRefusal, SeedSession,
                SetupCrash
  <2>2. CheckedStaysSo' /\ QueuedUntilIngested'
    BY <2>1 DEF SetupInv, CheckedStaysSo, JobsAreDone, QueuedUntilIngested
  <2> QED
    BY <2>1, <2>2
       DEF SetupInv, ReadinessIsFresh, OneStorySession, ActivatedWhole
<1> QED
  BY <1>1, <1>2, <1>3

LEMMA MarkIsSound ==
    ASSUME SetupInv, MarkActivated
    PROVE  SetupInv' /\ ActivatedWhole
<1>1. /\ setup \in SetupRecord /\ ~setup.session /\ JobsAreDone
      /\ \A s \in Steps : unit[s].state = "frozen"
      /\ rows = 0 /\ rows' = 1 /\ activation' = "idle"
      /\ UNCHANGED <<unit, proposed, commit, job, ingesting, thread>>
  BY DEF SetupInv, MarkActivated, CheckedStaysSo, OneStorySession
<1>2. setup' = [[setup EXCEPT !.state = "activated"] EXCEPT !.session = TRUE]
  BY DEF MarkActivated
<1>3. /\ setup' \in SetupRecord /\ setup'.stage = setup.stage
      /\ setup'.session /\ setup'.readiness = setup.readiness
  <2> DEFINE marked == [setup EXCEPT !.state = "activated"]
  <2>1. marked \in SetupRecord /\ marked.stage = setup.stage
        /\ marked.readiness = setup.readiness
    BY <1>1 DEF SetupRecord
  <2> HIDE DEF marked
  <2>2. \A t \in BOOLEAN :
          /\ [marked EXCEPT !.session = t] \in SetupRecord
          /\ [marked EXCEPT !.session = t].stage = marked.stage
          /\ [marked EXCEPT !.session = t].session = t
          /\ [marked EXCEPT !.session = t].readiness = marked.readiness
    BY <2>1 DEF SetupRecord
  <2>3. setup' = [marked EXCEPT !.session = TRUE]
    BY <1>2 DEF marked
  <2> QED
    BY <2>1, <2>2, <2>3
<1>4. /\ CheckedStaysSo' /\ OneStorySession' /\ ReadinessIsFresh'
      /\ QueuedUntilIngested'
  BY <1>1, <1>3 DEF SetupInv, CheckedStaysSo, OneStorySession,
                    ReadinessIsFresh, QueuedUntilIngested
<1>5. ActivatedWhole
  <2>1. Len(job) = Len(commit) /\ DOMAIN commit = DOMAIN job
    BY DEF SetupInv
  <2> QED
    BY <1>1, <2>1 DEF ActivatedWhole, JobsAreDone
<1> QED
  BY <1>1, <1>3, <1>4, <1>5 DEF SetupInv

LEMMA SetupInitIsSound == SetupInit => SetupInv
<1> SUFFICES ASSUME SetupInit PROVE SetupInv
  OBVIOUS
<1> DEFINE new == [state |-> "discussing", last |-> 0, draft |-> 0,
                   parsed |-> FALSE]
<1>1. /\ unit = [x \in Units |-> new] /\ proposed = {} /\ commit = <<>>
      /\ job = <<>> /\ rows = 0 /\ ingesting = {} /\ activation = "idle"
      /\ thread = FALSE /\ setup.stage = Stages[1] /\ ~setup.session
      /\ setup.readiness = [x \in Units |-> "not_ready"]
      /\ setup = [state |-> "drafting", stage |-> Stages[1],
                  session |-> FALSE,
                  readiness |-> [x \in Units |-> "not_ready"]]
  BY DEF SetupInit
<1>2. new \in UnitRecord /\ new.last = 0 /\ new.state = "discussing"
      /\ new.draft = 0
  BY SetupBounds DEF UnitRecord, StepState
<1> HIDE DEF new
<1>3. /\ DOMAIN Stages = 1..Len(Stages) /\ 1 \in DOMAIN Stages
      /\ \A i, j \in DOMAIN Stages : Stages[i] = Stages[j] => i = j
  BY SetupBounds DEF IsInjective
<1>4. setup \in SetupRecord
  <2>1. Stages[1] \in StageSet
    BY <1>3 DEF StageSet, Range
  <2>2. [x \in Units |-> "not_ready"] \in [Units -> Readiness]
    BY DEF Readiness
  <2> QED
    BY <1>1, <2>1, <2>2 DEF SetupRecord
<1>5. unit \in [Units -> UnitRecord] /\ \A x \in Units : unit[x] = new
  BY <1>1, <1>2
<1>6. StagesBehind(unit, setup.stage)
  <2>1. \A j \in DOMAIN Stages : Stages[j] = Stages[1] => j = 1
    BY <1>3
  <2>2. \A i \in DOMAIN Stages : ~(i < 1)
    BY <1>3
  <2> QED
    BY <1>1, <2>1, <2>2 DEF StagesBehind
<1>7. ReadinessIsFresh
  BY <1>1, <1>2, <1>5 DEF ReadinessIsFresh, RefreshedReadiness, ReadinessOf
<1>8. LastIsLatest(unit, commit) /\ FrozenShows(unit, commit)
  BY <1>1, <1>2, <1>5 DEF LastIsLatest, FrozenShows
<1>9. /\ commit \in Seq(CommitRecord) /\ job \in Seq(IngestionJobs)
      /\ Len(commit) = 0 /\ Len(job) = 0 /\ Len(commit) <= MaxCommits
  BY <1>1, SetupBounds
<1> QED
  BY <1>1, <1>4, <1>5, <1>6, <1>7, <1>8, <1>9
     DEF SetupInv, OneStorySession, QueuedUntilIngested, CheckedStaysSo

LEMMA SetupStep ==
    ASSUME SetupInv, [SetupNext]_setupVars
    PROVE  SetupInv' /\ ActivatedWhole
<1>1. CASE UNCHANGED setupVars
  BY <1>1 DEF setupVars, SetupInv, ReadinessIsFresh, OneStorySession,
              QueuedUntilIngested, CheckedStaysSo, JobsAreDone, ActivatedWhole
<1>2. CASE SetupNext
  <2>1. ASSUME NEW x \in Units,
               PatchDraft(x) \/ ProposeCommit(x) \/ AcceptCommit(x)
               \/ RejectCommit(x)
        PROVE  SetupInv' /\ ActivatedWhole
    BY <2>1, PatchDraftIsSound, ProposalIsSound, AcceptCommitIsSound
  <2>2. ASSUME NEW s \in AssetSteps, RegisterAsset(s)
        PROVE  SetupInv' /\ ActivatedWhole
    BY <2>2, RegisterAssetIsSound
  <2>3. ASSUME NEW c \in 1..MaxCommits, IngestCommit(c) \/ IngestAbort(c)
        PROVE  SetupInv' /\ ActivatedWhole
    BY <2>3, IngestionIsSound
  <2> QED
    BY <1>2, <2>1, <2>2, <2>3, ActivationIsSound, MarkIsSound DEF SetupNext
<1> QED
  BY <1>1, <1>2

\* What is frozen shows its latest commit, which is what it hands on.
LEMMA FrozenIsLatest ==
    ASSUME SetupInv, NEW x \in Units, unit[x].state = "frozen"
    PROVE  /\ unit[x].last \in DOMAIN commit
           /\ commit[unit[x].last] = [unit |-> x, snapshot |-> unit[x].draft]
           /\ LatestCommit(x) = unit[x].last /\ unit[x].last > 0
<1> DEFINE l == unit[x].last
           taken == {c \in DOMAIN commit : commit[c].unit = x}
<1>1. /\ commit \in Seq(CommitRecord) /\ l \in DOMAIN commit
      /\ commit[l].unit = x /\ commit[l].snapshot = unit[x].draft
      /\ \A c \in DOMAIN commit : commit[c].unit = x => c <= l
  BY DEF SetupInv, LastIsLatest, FrozenShows
<1>2. DOMAIN commit \subseteq Nat /\ l \in Nat /\ l > 0
  BY <1>1
<1>3. commit[l] = [unit |-> x, snapshot |-> unit[x].draft]
  <2>1. commit[l] \in CommitRecord
    BY <1>1
  <2> QED
    BY <1>1, <2>1 DEF CommitRecord
<1> HIDE DEF l
<1>4. l \in taken /\ taken \subseteq Nat /\ \A c \in taken : c <= l
  BY <1>1, <1>2
<1>5. LatestCommit(x) = Max(taken)
  BY <1>4 DEF LatestCommit
<1> HIDE DEF taken
<1>6. Max(taken) = l
  <2>1. \A m \in taken : (\A c \in taken : m >= c) => m = l
    BY <1>2, <1>4
  <2>2. \A c \in taken : l >= c
    BY <1>2, <1>4
  <2> QED
    BY <1>4, <2>1, <2>2 DEF Max
<1> QED
  BY <1>1, <1>2, <1>3, <1>5, <1>6 DEF l

LEMMA SetupIsSound ==
    ASSUME SetupInv
    PROVE  /\ FrozenIsCommitted /\ PassedStagesCommitted
           /\ HandoffsAreCurrent
<1>1. FrozenIsCommitted
  BY FrozenIsLatest DEF FrozenIsCommitted
<1>2. PassedStagesCommitted
  BY DEF SetupInv, StagesBehind, PassedStagesCommitted
<1>3. HandoffsAreCurrent
  <2> SUFFICES ASSUME NEW i \in DOMAIN Stages, NEW j \in DOMAIN Stages,
                      i < j, unit[Stages[i]].state = "frozen"
               PROVE  \E c \in Handoffs(Stages[j]) :
                        commit[c] = [unit |-> Stages[i],
                                     snapshot |-> unit[Stages[i]].draft]
    BY DEF HandoffsAreCurrent
  <2> DEFINE x == Stages[i]
             l == unit[x].last
  <2>1. x \in Units
    BY DEF Units, StageSet, Range
  <2>2. /\ commit[l] = [unit |-> x, snapshot |-> unit[x].draft]
        /\ LatestCommit(x) = l /\ l > 0 /\ l # 0
    <3>1. /\ commit[l] = [unit |-> x, snapshot |-> unit[x].draft]
          /\ LatestCommit(x) = l /\ l > 0
      BY <2>1, FrozenIsLatest
    <3>2. l \in Nat
      BY <2>1, UnitFields DEF SetupInv
    <3> QED
      BY <3>1, <3>2
  <2>3. CommitOf(x) = l
    BY <2>2 DEF CommitOf
  <2>4. l \in Handoffs(Stages[j])
    <3>1. i \in {k \in DOMAIN Stages :
                   \E n \in DOMAIN Stages : k < n /\ Stages[n] = Stages[j]}
      OBVIOUS
    <3> HIDE DEF l
    <3> QED
      BY <2>2, <2>3, <3>1 DEF Handoffs
  <2> QED
    BY <2>2, <2>4
<1> QED
  BY <1>1, <1>2, <1>3

\* The variables of the setup workspace keep their types.
THEOREM SetupTypesHold == SetupSpec => []SetupTypeOK
<1>1. SetupInv => SetupTypeOK
  <2> SUFFICES ASSUME SetupInv PROVE SetupTypeOK
    OBVIOUS
  <2>1. /\ commit \in Seq([unit : Units, snapshot : 0..MaxRevision])
        /\ job \in Seq(IngestionJobs) /\ Len(job) = Len(commit)
        /\ Len(commit) \in Nat /\ Len(commit) <= MaxCommits
    BY DEF SetupInv, CommitRecord
  <2>2. DOMAIN job = 1..Len(commit)
    BY <2>1
  <2>3. ASSUME NEW c \in DOMAIN job
        PROVE  DOMAIN job[c] \subseteq JobKind /\ Range(job[c]) \subseteq JobState
    <3>1. job[c] \in IngestionJobs
      BY <2>1
    <3>2. PICK kinds \in SUBSET JobKind : job[c] \in [kinds -> JobState]
      BY <3>1 DEF IngestionJobs
    <3> QED
      BY <3>2 DEF Range
  <2>4. ingesting \subseteq 1..MaxCommits
    <3>1. \A c \in ingesting : c \in 1..Len(commit)
      BY <2>2 DEF SetupInv, QueuedUntilIngested
    <3> QED
      BY <2>1, <3>1, SetupBounds
  <2>5. /\ setup.state \in {"drafting", "ready_to_activate", "activated"}
        /\ setup.stage \in StageSet /\ setup.session \in BOOLEAN
        /\ setup.readiness \in [Units -> Readiness]
    BY DEF SetupInv, SetupRecord
  <2> QED
    BY <2>1, <2>2, <2>3, <2>4, <2>5 DEF SetupInv, SetupTypeOK
<1>2. SetupInv /\ [SetupNext]_setupVars => SetupInv'
  BY SetupStep
<1> QED
  BY <1>1, <1>2, SetupInitIsSound, PTL DEF SetupSpec

\* Whatever is edited, proposed, accepted, rejected, ingested, activated or
\* broken off in whichever order, what a setup workspace says of itself is so
\* (SetupWorkspaceService, SetupContextBuilder, run_activation_check,
\* mark_activated_story_session).
THEOREM WorkspaceIsAlwaysSound == SetupSpec => WorkspaceIsSound
<1>1. SetupInv /\ [SetupNext]_setupVars => SetupInv'
  BY SetupStep
<1>2. SetupInv /\ [SetupNext]_setupVars => [ActivatedWhole]_setupVars
  BY SetupStep
<1>3. SetupInv => /\ FrozenIsCommitted /\ ReadinessIsFresh
                  /\ PassedStagesCommitted /\ HandoffsAreCurrent
                  /\ OneStorySession
  BY SetupIsSound DEF SetupInv
<1> QED
  BY <1>1, <1>2, <1>3, SetupInitIsSound, PTL DEF SetupSpec, WorkspaceIsSound
=============================================================================
