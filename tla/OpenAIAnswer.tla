---------------------------- MODULE OpenAIAnswer ----------------------------
(***************************************************************************)
(* The answers of the three OpenAI routes (internal/proxy/codex: codec.go, *)
(* stream.go, execute.go), whole and streamed.  A streamed answer is a     *)
(* script: the calls the code makes on its stream, in order; "Emit" is     *)
(* what one of them does to the state of the stream and to the frames      *)
(* sent.                                                                   *)
(***************************************************************************)
EXTENDS Answers

Op(op, chunk, call) == [op |-> op, chunk |-> chunk, call |-> call]
NoUse == ToolUse(0, "", <<>>)
Chunks(op, text, size) ==
  LET chunks == ChunkText(text, size)
  IN [i \in DOMAIN chunks |-> Op(op, ToValidJSON(chunks[i]), NoUse)]
Calls(op, calls) == [i \in DOMAIN calls |-> Op(op, <<>>, calls[i])]

Frame(type, index, delta, call) ==
  [type |-> type, index |-> index, delta |-> delta, call |-> call]
NoIndex == 0 - 1

Ops == [op : {"start", "role", "think", "reasoning", "prepare", "text", "close",
              "call", "complete", "finish"},
        chunk : Texts, call : ToolUses]
Frames == [type : {"begin", "open", "think", "text", "call", "sign", "close", "end"},
           index : Nat \cup {NoIndex}, delta : Texts, call : ToolUses]

-----------------------------------------------------------------------------
(* /v1/chat/completions                                                     *)

(* A whole answer with calls has no text.                                   *)
IRToChat(r) ==
  [text |-> IF r.calls = <<>> THEN r.text ELSE <<>>, thinking |-> r.thinking,
   calls |-> r.calls, stop |-> r.stop]

StreamOpenAIChat(r, size) ==
  <<Op("role", <<>>, NoUse)>>
    \o Chunks("think", r.thinking, size) \o Chunks("text", r.text, size)
    \o Calls("call", r.calls) \o <<Op("finish", <<>>, NoUse)>>

IRStreamToChunk(op) ==
  CASE op.op = "role" -> <<Frame("begin", NoIndex, <<>>, NoUse)>>
    [] op.op = "think" -> <<Frame("think", NoIndex, op.chunk, NoUse)>>
    [] op.op = "text" -> <<Frame("text", NoIndex, op.chunk, NoUse)>>
    [] op.op = "call" -> <<Frame("call", NoIndex, <<>>, op.call)>>
    [] op.op = "finish" -> <<Frame("end", NoIndex, <<>>, NoUse)>>

-----------------------------------------------------------------------------
(* /v1/completions: no calls at all.                                        *)

IRToCompletions(r) ==
  [text |-> r.text, thinking |-> r.thinking, calls |-> <<>>, stop |-> r.stop]

StreamOpenAICompletions(r, size) ==
  Chunks("think", r.thinking, size) \o Chunks("text", r.text, size)
    \o <<Op("finish", <<>>, NoUse)>>

-----------------------------------------------------------------------------
(* /v1/responses                                                            *)

HasMessageItem(r) == ~IsBlank(r.text) \/ ~IsBlank(r.thinking) \/ r.calls = <<>>

IRToResponses(r) ==
  [text |-> IF HasMessageItem(r) THEN r.text ELSE <<>>,
   thinking |-> IF HasMessageItem(r) THEN r.thinking ELSE <<>>,
   calls |-> r.calls, stop |-> "completed"]

StreamOpenAIResponses(r, size) ==
  <<Op("start", <<>>, NoUse)>>
    \o (IF HasMessageItem(r)
        THEN Chunks("reasoning", r.thinking, size) \o Chunks("text", r.text, size)
               \o <<Op("close", <<>>, NoUse)>>
        ELSE <<>>)
    \o Calls("call", r.calls) \o <<Op("complete", <<>>, NoUse)>>

ResponsesStates == [messageOpen : BOOLEAN, messageIndex : Nat, nextIndex : Nat]
ResponsesStreamInit == [messageOpen |-> FALSE, messageIndex |-> 0, nextIndex |-> 0]

(* A step of the stream: its new state and the frames it sends.             *)
Sent(s, frames) == [state |-> s, frames |-> frames]
Bumped(s) == [s EXCEPT !.nextIndex = Max({@, s.messageIndex + 1})]

EnsureMessageItem(s) ==
  IF s.messageOpen THEN Sent(s, <<>>)
  ELSE Sent([messageOpen |-> TRUE, messageIndex |-> s.nextIndex,
             nextIndex |-> s.nextIndex + 1],
            <<Frame("open", s.nextIndex, <<>>, NoUse)>>)

(* The deltas of the reasoning belong to no item.                           *)
EmitReasoningDelta(s, delta) ==
  IF IsBlank(delta) THEN Sent(s, <<>>)
  ELSE Sent(Bumped(s), <<Frame("think", NoIndex, delta, NoUse)>>)

EmitTextDelta(s, delta) ==
  LET ensured == EnsureMessageItem(s) IN
  IF delta = <<>> THEN Sent(s, <<>>)
  ELSE Sent(Bumped(ensured.state),
            Append(ensured.frames,
                   Frame("text", ensured.state.messageIndex, delta, NoUse)))

CloseMessageItem(s) ==
  LET ensured == EnsureMessageItem(s)
  IN Sent(Bumped([ensured.state EXCEPT !.messageOpen = FALSE]),
          Append(ensured.frames,
                 Frame("close", ensured.state.messageIndex, <<>>, NoUse)))

EmitFunctionCall(s, call) ==
  IF call.name = "" THEN Sent(s, <<>>)
  ELSE Sent([s EXCEPT !.nextIndex = @ + 1],
            <<Frame("open", s.nextIndex, <<>>, NoUse),
              Frame("call", s.nextIndex, <<>>, call),
              Frame("close", s.nextIndex, <<>>, NoUse)>>)

EmitResponses(s, op) ==
  CASE op.op = "start" -> Sent(s, <<Frame("begin", NoIndex, <<>>, NoUse)>>)
    [] op.op = "reasoning" -> EmitReasoningDelta(s, op.chunk)
    [] op.op = "text" -> EmitTextDelta(s, op.chunk)
    [] op.op = "close" -> CloseMessageItem(s)
    [] op.op = "call" -> EmitFunctionCall(s, op.call)
    [] op.op = "complete" -> Sent(s, <<Frame("end", NoIndex, <<>>, NoUse)>>)
=============================================================================
