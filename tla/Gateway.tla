------------------------------ MODULE Gateway ------------------------------
(***************************************************************************)
(* One request to the proxy (internal/proxy/http), from its arrival to the *)
(* last byte of its answer: admission, translation into canonical messages *)
(* and from there into what the provider takes, the provider's answer as   *)
(* it is read, and its translation back, whole or as a stream of events.   *)
(* The owner changes the key and the mode of the proxy meanwhile.          *)
(***************************************************************************)
EXTENDS Decode, KiroPayload, Models, AnthropicAnswer, Upstream

CONSTANTS
  Keys,         \* the keys an owner may set and a client may present
  NoKey,        \* no key at all
  Malformed,    \* headers that cannot be read, or that contradict each other
  Bodies,       \* the bodies a client may send, by protocol
  ModelNames,   \* the models it may ask for
  Aliases,      \* the names the owner has given to models
  ChunkSize,    \* how much of an answer goes into one event
  MaxChanges    \* bound: how often the owner changes the settings

ASSUME KeysAssumption == NoKey \notin Keys /\ Malformed \notin Keys \cup {NoKey}
ASSUME SizesAssumption == ChunkSize \in Nat \ {0} /\ MaxChanges \in Nat
ASSUME BodiesAssumption ==
  Bodies \in [chat : SUBSET BodiesOf(ChatItems), completions : SUBSET BodiesOf({}),
             responses : SUBSET BodiesOf(InputItems), messages : SUBSET BodiesOf(TurnItems)]

VARIABLES
  settings,     \* the key and the mode of the proxy
  changes,      \* how often they were changed
  stage,        \* where the request is
  req,          \* what is known of it
  messages,     \* its canonical messages, until it is sent
  payload,      \* what the provider is sent
  response,     \* the provider's answer, as the gateway understood it
  script,       \* the calls on the stream still to come
  enc,          \* the state of the stream's encoder
  frames,       \* the events sent to the client
  reply,        \* the status of the reply and what a whole answer shows
  refusals      \* the requests counted as failed before any provider

asked == <<settings, changes, refusals>>
translated == <<messages, payload>>
upstream == <<said, mid, heard>>
answer == <<response, script, enc, frames>>
vars == <<asked, stage, req, translated, upstream, answer, reply>>

Chats == {"chat", "completions", "responses", "messages"}
Routes == Chats \cup {"count", "info", "health", "nowhere"}
Stages == {"idle", "arrived", "keyed", "admitted", "decoded", "prepared",
           "speaking", "collected", "streaming", "ended", "left"}
NoReply == [status |-> 0, shows |-> <<>>]
NoResponse == Response(<<>>, <<>>, <<>>)

Init ==
  /\ settings \in [key : Keys \cup {NoKey}, mode : BOOLEAN]
  /\ changes = 0 /\ refusals = 0
  /\ stage = "idle"
  /\ req = [route |-> "health", method |-> "GET", credential |-> NoKey,
            key |-> NoKey, admissible |-> FALSE, provider |-> "none",
            stream |-> FALSE]
  /\ messages = <<>> /\ payload = <<>>
  /\ said = Silence /\ mid = Mid /\ heard = CollectorInit
  /\ response = NoResponse /\ script = <<>> /\ enc = ResponsesStreamInit
  /\ frames = <<>> /\ reply = NoReply

Goto(place) == stage' = place
Reply(status) ==
  /\ Goto("ended") /\ reply' = [NoReply EXCEPT !.status = status]
  /\ messages' = <<>> /\ payload' = <<>>
Rest == UNCHANGED <<asked, upstream, answer>>

-----------------------------------------------------------------------------
(* Admission.  The key and the mode are read one after the other.           *)

Admits(s, credential) ==
  /\ credential # Malformed
  /\ s.mode => s.key # NoKey /\ credential = s.key

Arrive ==
  /\ stage = "idle"
  /\ \E route \in Routes, credential \in Keys \cup {NoKey, Malformed},
        method \in {"GET", "POST", "OPTIONS"} :
       /\ req' = [req EXCEPT !.route = route, !.method = method,
                             !.credential = credential,
                             !.admissible = Admits(settings, credential)]
       /\ CASE route = "nowhere" -> Reply(404)
            [] route # "nowhere" /\ method = "OPTIONS" -> Reply(204)
            [] route = "health" /\ method # "OPTIONS" -> Reply(200)
            [] OTHER -> Goto("arrived") /\ UNCHANGED <<translated, reply>>
  /\ Rest

ReadKey ==
  /\ stage = "arrived"
  /\ req' = [req EXCEPT !.key = settings.key]
  /\ IF req.credential = Malformed THEN Reply(400)
     ELSE Goto("keyed") /\ UNCHANGED <<translated, reply>>
  /\ Rest

(* Fault: with no key set, the credential is not asked for.                 *)
PassesUnlessKeyed ==
  req.key = NoKey \/ ~settings.mode \/ req.credential = req.key

Passes == ~settings.mode \/ (req.key # NoKey /\ req.credential = req.key)

ReadMode ==
  /\ stage = "keyed"
  /\ CASE ~Passes -> Reply(IF req.key = NoKey THEN 403 ELSE 401)
       [] Passes /\ req.route = "info" -> Reply(200)
       [] Passes /\ req.route # "info" /\ req.method # "POST" -> Reply(405)
       [] OTHER -> Goto("admitted") /\ UNCHANGED <<translated, reply>>
  /\ UNCHANGED req /\ Rest

(* The owner; a request that is under way may still be judged by it.        *)
ChangeSettings ==
  /\ changes < MaxChanges /\ stage \in {"arrived", "keyed"}
  /\ \/ \E key \in Keys \cup {NoKey} : settings' = [settings EXCEPT !.key = key]
     \/ settings' = [settings EXCEPT !.mode = ~@]
  /\ changes' = changes + 1
  /\ req' = [req EXCEPT !.admissible = @ \/ Admits(settings', req.credential)]
  /\ UNCHANGED <<refusals, stage, translated, upstream, answer, reply>>

-----------------------------------------------------------------------------
(* From the body to what the provider is sent.                              *)

Unreadable ==         \* not JSON, or without a model
  /\ stage = "admitted"
  /\ Reply(400) /\ UNCHANGED req /\ Rest

Decode ==
  /\ stage = "admitted"
  /\ LET protocol == IF req.route = "count" THEN "messages" ELSE req.route IN
     \E body \in Bodies[protocol] :
       LET decoded == ToIR(protocol, body.system, body.items)
       IN CASE protocol = "messages" /\ decoded = <<>> -> Reply(400)
            [] req.route = "count" /\ decoded # <<>> -> Reply(200)
            [] OTHER -> /\ Goto("decoded") /\ messages' = decoded
                        /\ UNCHANGED <<payload, reply>>
  /\ UNCHANGED req /\ Rest

Prepare ==
  /\ stage = "decoded"
  /\ \E name \in ModelNames :
       LET model == ResolveModel(name, Aliases) IN
       IF model = Unresolved \/ ~ValidateRequest(messages)
       THEN /\ Reply(400) /\ refusals' = refusals + 1
            /\ UNCHANGED <<req, settings, changes>>
       ELSE /\ payload' = IF model.provider = "kiro" THEN BuildPayload(messages)
                          ELSE BuildRequestPayload(messages)
            /\ Goto("prepared")
            /\ req' = [req EXCEPT !.provider = model.provider]
            /\ UNCHANGED <<asked, messages, reply>>
  /\ UNCHANGED <<upstream, answer>>

(* An empty conversation is refused by the provider's own payload builder.  *)
NothingToSend ==
  payload = IF req.provider = "kiro" THEN NoPayload ELSE <<>>

Send ==
  /\ stage = "prepared"
  /\ IF NothingToSend
     THEN Reply(400) /\ UNCHANGED <<req, upstream>>
     ELSE /\ Goto("speaking") /\ Start(req.provider)
          /\ \E stream \in BOOLEAN : req' = [req EXCEPT !.stream = stream]
          /\ messages' = <<>> /\ payload' = <<>> /\ UNCHANGED reply
  /\ UNCHANGED <<asked, answer>>

-----------------------------------------------------------------------------
(* The answer of the provider.                                              *)

Hear ==
  /\ stage = "speaking"
  /\ IF req.provider = "kiro" THEN KiroSays ELSE CodexSays
  /\ UNCHANGED <<asked, stage, req, translated, answer, reply>>

(* Codex gives calls under the names and, some, with the keys it was taught. *)
Restored(calls) ==
  IF req.provider = "kiro" THEN calls
  ELSE [i \in DOMAIN calls |->
          Rekeyed([calls[i] EXCEPT !.name = Restore(Mapping, @)])]

(* What was read is the answer; of the provider only is remembered whether  *)
(* it had come to an end.                                                   *)
Collected(outcome, over) ==
  /\ Goto("collected")
  /\ response' = OutcomeToResponse([outcome EXCEPT !.calls = Restored(@)])
  /\ mid' = [Mid EXCEPT !.over = over] /\ heard' = CollectorInit
  /\ UNCHANGED said
  /\ UNCHANGED <<asked, req, translated, script, enc, frames, reply>>

KiroEnds ==           \* the body ends, whether or not all is said
  /\ stage = "speaking" /\ req.provider = "kiro"
  /\ {cut \in CutPoints : ~ReadEventFails(cut)} # {}
  /\ Collected(CollectCompletion(heard), Complete)

CodexEnds ==          \* response.completed, or the body just ends
  /\ stage = "speaking" /\ req.provider = "codex"
  /\ CompletionHasVisibleOutput(heard)
  /\ Collected(heard, mid.over)

(* Fault: the next attempt adds to what the last one has read.              *)
TryAgainOn ==
  /\ stage = "speaking" /\ mid # Mid
  /\ said' = Silence /\ mid' = Mid /\ UNCHANGED heard
  /\ UNCHANGED <<asked, stage, req, translated, answer, reply>>

(* An attempt that failed is made again, on another account or host, until  *)
(* there is none left; what was read of it is dropped.                      *)
TryAgain ==
  /\ stage = "speaking" /\ mid # Mid
  /\ Start(req.provider)
  /\ UNCHANGED <<asked, stage, req, translated, answer, reply>>

GiveUp ==
  /\ stage = "speaking"
  /\ \E status \in {400, 401, 429, 500, 503} : Reply(status)
  /\ said' = Silence /\ mid' = Mid /\ heard' = CollectorInit
  /\ UNCHANGED <<asked, req, answer>>

-----------------------------------------------------------------------------
(* The answer to the client.                                                *)

Script ==
  CASE req.route = "chat" -> StreamOpenAIChat(response, ChunkSize)
    [] req.route = "completions" -> StreamOpenAICompletions(response, ChunkSize)
    [] req.route = "responses" -> StreamOpenAIResponses(response, ChunkSize)
    [] req.route = "messages" -> StreamAnthropicMessages(response, ChunkSize)

WholeAnswer ==
  CASE req.route = "chat" -> IRToChat(response)
    [] req.route = "completions" -> IRToCompletions(response)
    [] req.route = "responses" -> IRToResponses(response)
    [] req.route = "messages" -> IRToMessages(response)

Emitted(op) ==
  CASE req.route \in {"chat", "completions"} -> Sent(enc, IRStreamToChunk(op))
    [] req.route = "responses" -> EmitResponses(enc, op)
    [] req.route = "messages" -> EmitMessages(enc, op)

(* What a client has been shown, blanks left aside.  The two halves of a    *)
(* character may come broken, but only in a stream.                         *)
Seen(c) == IF req.stream /\ c \in {Lead, Trail} THEN Broken ELSE c
Shown(kind, text) ==
  LET solid == Solid(text)
  IN [i \in DOMAIN solid |-> [kind |-> kind, what |-> <<Seen(solid[i])>>]]
ShownCalls(calls) ==
  [i \in DOMAIN calls |->
     [kind |-> "call", what |-> <<calls[i].name>> \o calls[i].input]]
Reel(r) == Shown("think", r.thinking) \o Shown("text", r.text) \o ShownCalls(r.calls)
FrameShows(f) ==
  IF f.type = "call" THEN ShownCalls(<<f.call>>)
  ELSE IF f.type \in {"think", "text"} THEN Shown(f.type, f.delta) ELSE <<>>

AnswerWhole ==
  /\ stage = "collected" /\ ~req.stream
  /\ Goto("ended") /\ reply' = [status |-> 200, shows |-> Reel(WholeAnswer)]
  /\ UNCHANGED <<asked, req, translated, upstream, answer>>

StartStream ==
  /\ stage = "collected" /\ req.stream
  /\ Goto("streaming") /\ script' = Script
  /\ enc' = IF req.route = "messages" THEN MessageStreamInit ELSE ResponsesStreamInit
  /\ UNCHANGED <<asked, req, translated, upstream, response, frames, reply>>

Write ==
  /\ stage = "streaming"
  /\ LET step == Emitted(Head(script)) IN
       /\ frames' = frames \o step.frames /\ enc' = step.state
       /\ script' = Tail(script)
  /\ IF Len(script) > 1 THEN UNCHANGED <<stage, reply>>
     ELSE Goto("ended") /\ reply' = [NoReply EXCEPT !.status = 200]
  /\ UNCHANGED <<asked, req, translated, upstream, response>>

(* The client goes away: a call of a provider is cancelled; what is still   *)
(* written is written for nobody.                                           *)
ClientLeaves ==
  /\ stage \in {"speaking", "streaming"}
  /\ Goto("left")
  /\ mid' = Mid /\ heard' = CollectorInit
  /\ said' = IF stage = "speaking" THEN Silence ELSE said
  /\ UNCHANGED <<asked, req, translated, answer, reply>>

Next ==
  \/ Arrive \/ ReadKey \/ ReadMode \/ ChangeSettings
  \/ Unreadable \/ Decode \/ Prepare \/ Send
  \/ Hear \/ KiroEnds \/ CodexEnds \/ TryAgain \/ GiveUp
  \/ AnswerWhole \/ StartStream \/ Write \/ ClientLeaves

Spec == Init /\ [][Next]_vars

-----------------------------------------------------------------------------
(* The types.                                                               *)
TypeOK ==
  /\ settings \in [key : Keys \cup {NoKey}, mode : BOOLEAN]
  /\ changes \in 0..MaxChanges /\ refusals \in Nat
  /\ stage \in Stages
  /\ req \in [route : Routes, method : {"GET", "POST", "OPTIONS"},
              credential : Keys \cup {NoKey, Malformed}, key : Keys \cup {NoKey},
              admissible : BOOLEAN, provider : {"none", "codex", "kiro"},
              stream : BOOLEAN]
  /\ messages \in Seq(CanonicalMessages)
  /\ UpstreamOK
  /\ stage = "speaking" => heard \in IF req.provider = "kiro" THEN Parsers ELSE Outcomes
  /\ response \in Responses /\ script \in Seq(Ops)
  /\ enc \in ResponsesStates \cup MessageStates /\ frames \in Seq(Frames)
  /\ reply.status \in {0, 200, 204, 400, 401, 403, 404, 405, 429, 500, 503}

(* validateSecurityHeaders: although it reads the key and the mode apart,   *)
(* no request gets past it that the settings would have kept out at every   *)
(* moment since its arrival.                                                *)
ServedIsAllowed ==
  stage \notin {"idle", "arrived", "keyed", "ended", "left"} => req.admissible

(* What of a conversation is prepared for whom.                             *)
ForKiro == stage = "prepared" /\ req.provider = "kiro" /\ ~NothingToSend
ForCodex == stage = "prepared" /\ req.provider = "codex"
Turns == payload.history \o payload.current
Unfilled(text) == Only(text, LAMBDA piece : piece # Filler[1])
SpokenBy(ms, roles) ==
  FlattenSeq([i \in DOMAIN ms |->
    IF ms[i].role \in roles THEN Unfilled(VisibleText(ms[i].content)) ELSE <<>>])
SaidInTurns(turns) == FlattenSeq([i \in DOMAIN turns |-> Unfilled(turns[i].text)])

(* BuildPayload: what was said reaches Kiro in the order it was said in,    *)
(* nothing twice and nothing lost but what the assistant says after the     *)
(* last turn of the user.                                                   *)
PayloadKeepsOrder ==
  ForKiro =>
    \E k \in 0..Len(messages) :
      /\ SaidInTurns(Tail(Turns)) =
           SpokenBy(SubSeq(messages, 1, k), {"user", "assistant"})
      /\ SpokenBy(SubSeq(messages, k + 1, Len(messages)), {"user"}) = <<>>

(* mergeAdjacent, ensureFirstUser: the speakers alternate in what Kiro is   *)
(* sent, beginning and ending with the user, and no turn is there only to   *)
(* keep them apart: what has the text of one, a message said.               *)
KiroTurnsAlternate ==
  ForKiro =>
    /\ \A i \in 2..Len(Turns) :
         Turns[i].role = IF i % 2 = 0 THEN "user" ELSE "assistant"
    /\ \A i \in 3..(Len(Turns) - 1) :
         Turns[i].text = Filler =>
           \E m \in ToSet(messages) : VisibleText(m.content) = Filler
    /\ Last(Turns).role = "user"

(* The results tool messages bring, and those Kiro is sent.                 *)
Brought(ms) == {[id |-> m.answers, text |-> VisibleText(m.content)] :
                  m \in {x \in ToSet(ms) : x.role = "tool"}}
Delivered == UNION {ToSet(Turns[i].results) : i \in DOMAIN Turns}
OneRound(ms) ==
  \A i, j \in DOMAIN ms :
    i < j /\ ms[i].role = "tool" /\ ms[j].role = "tool" =>
      \A k \in i..j : ms[k].role \in {"tool", "system", "developer"}

(* convertToUnified: when the tools were used in one round, every result    *)
(* reaches Kiro, with the call it answers.                                  *)
OneRoundKeepsResults ==
  ForKiro /\ OneRound(messages) => Brought(messages) \subseteq Delivered

(* "tools or tool results ... SHALL encode them": every result does.        *)
ResultsReachPayload == ForKiro => Brought(messages) \subseteq Delivered

(* sanitizeToolHistory: an output Codex is sent answers a call it was sent  *)
(* before, and no other output answers it again.                            *)
CallsPrecedeOutputs ==
  ForCodex =>
    \A i \in {k \in DOMAIN payload : payload[k].type = "function_call_output"} :
      /\ \E j \in 1..(i - 1) :
           payload[j].type = "function_call" /\ payload[j].id = payload[i].id
      /\ \A j \in 1..(i - 1) :
           payload[j].type = "function_call_output" => payload[j].id # payload[i].id

(* The stream encoders: a client reads blocks one after the other, numbered *)
(* upwards, continued only while they are open, and all closed at the end.  *)
OpenBefore(i) ==
  LET at == {j \in 1..(i - 1) : frames[j].type \in {"open", "close"}}
  IN IF at # {} /\ frames[Max(at)].type = "open" THEN frames[Max(at)].index
     ELSE NoIndex
BlocksNest ==
  \A i \in DOMAIN frames :
    LET f == frames[i] IN
    CASE f.type = "open" ->
           /\ OpenBefore(i) = NoIndex
           /\ \A j \in 1..(i - 1) : frames[j].index < f.index
      [] f.type = "end" -> OpenBefore(i) = NoIndex /\ i = Len(frames)
      [] f.type = "begin" -> i = 1
      [] f.type = "close" -> f.index # NoIndex /\ OpenBefore(i) = f.index
      [] OTHER -> f.index \in {NoIndex, OpenBefore(i)}

(* What the client is owed of what the provider said: completions have no   *)
(* calls, a whole chat answer has either calls or a text, and calls that    *)
(* Codex made or that Anthropic's clients read have the keys of their tool. *)
Owed ==
  LET text == IF req.route = "chat" /\ ~req.stream /\ said.calls # <<>>
              THEN <<>> ELSE said.text
      calls == CASE req.route = "completions" -> <<>>
                 [] req.provider = "codex" \/ req.route = "messages" ->
                      [i \in DOMAIN said.calls |-> Rekeyed(said.calls[i])]
                 [] OTHER -> said.calls
  IN Reel([said EXCEPT !.text = text, !.calls = calls])
ShownSoFar ==
  FlattenSeq([i \in DOMAIN frames |-> FrameShows(frames[i])]) \o reply.shows
Answering ==
  stage \in {"collected", "streaming", "ended"} /\ reply.status \in {0, 200}
BrokenOff ==
  /\ Answering /\ req.provider # "none"
  /\ ~mid.over \/ ~CompletionHasVisibleOutput(said)
Ending ==
  CASE stage = "left" -> "left"
    [] BrokenOff -> "cut"
    [] stage = "ended" /\ reply.status \in {200, 204} -> "complete"
    [] stage = "ended" /\ reply.status \notin {200, 204} -> "failed"
    [] OTHER -> "no"

(* The gateway delivers: whatever route and provider, whole or streamed,    *)
(* what the client is shown is what the provider said in its last attempt,  *)
(* from the beginning and without a gap, its own tools under their own      *)
(* names, and all of it if the answer ends well.  Nothing is promised of an *)
(* answer that broke off, or that says nothing at all, although the gateway *)
(* may pass it off as a good one.                                           *)
Promise == INSTANCE Delivery WITH said <- Owed, shown <- ShownSoFar, ended <- Ending
Delivers == Promise!Spec

(* collectCompletion of Kiro: "IF Kiro stream data is truncated ... the     *)
(* system SHALL surface an explicit provider failure": a good answer was    *)
(* read to its end.                                                         *)
TruncationIsFailure ==
  stage = "ended" /\ req.provider = "kiro" /\ reply.status = 200 => mid.over
=============================================================================
