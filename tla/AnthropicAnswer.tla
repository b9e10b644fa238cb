--------------------------- MODULE AnthropicAnswer ---------------------------
(***************************************************************************)
(* The answer of /v1/messages (internal/proxy/anthropic: codec.go,         *)
(* stream.go, execute.go), whole and streamed.  Two objects share the      *)
(* numbering of the blocks: the life of the thinking block, and the rest   *)
(* of the message.                                                         *)
(***************************************************************************)
EXTENDS OpenAIAnswer

IRToMessages(r) ==
  [text |-> IF IsBlank(r.text) THEN <<>> ELSE r.text,
   thinking |-> IF IsBlank(r.thinking) THEN <<>> ELSE r.thinking,
   calls |-> LET named == Only(r.calls, LAMBDA c : c.name # "")
             IN [i \in DOMAIN named |-> Rekeyed(named[i])],
   stop |-> IF r.calls # <<>> THEN "tool_use" ELSE "end_turn"]

StreamAnthropicMessages(r, size) ==
  <<Op("start", <<>>, NoUse)>>
    \o (IF IsBlank(r.thinking) THEN <<>>
        ELSE Chunks("think", r.thinking, size) \o <<Op("prepare", <<>>, NoUse)>>)
    \o (IF IsBlank(r.text) THEN <<>>
        ELSE Chunks("text", r.text, size) \o <<Op("close", <<>>, NoUse)>>)
    \o Calls("call", r.calls) \o <<Op("complete", <<>>, NoUse)>>

MessageStates ==
  [thinkingOpen : BOOLEAN, thinkingIndex : Nat, thinkingNext : Nat,
   textOpen : BOOLEAN, textIndex : Nat, nextIndex : Nat]
MessageStreamInit ==
  [thinkingOpen |-> FALSE, thinkingIndex |-> 0, thinkingNext |-> 0,
   textOpen |-> FALSE, textIndex |-> 0, nextIndex |-> 0]

EmitThinkingDelta(s, delta) ==
  IF s.thinkingOpen
  THEN Sent(s, <<Frame("think", s.thinkingIndex, delta, NoUse)>>)
  ELSE Sent([s EXCEPT !.thinkingOpen = TRUE, !.thinkingIndex = s.thinkingNext,
                      !.thinkingNext = @ + 1],
            <<Frame("open", s.thinkingNext, <<>>, NoUse),
              Frame("think", s.thinkingNext, delta, NoUse)>>)

(* Fault: the message does not learn how far the thinking has numbered.     *)
PrepareWithoutMark(s) ==
  Sent([s EXCEPT !.thinkingOpen = FALSE],
       IF s.thinkingOpen
       THEN <<Frame("sign", s.thinkingIndex, <<>>, NoUse),
              Frame("close", s.thinkingIndex, <<>>, NoUse)>>
       ELSE <<>>)

(* PrepareForNextBlock and MarkIndex: the signature, then the end of the    *)
(* block; the message goes on with the next index.                          *)
PrepareForNextBlock(s) ==
  Sent([s EXCEPT !.thinkingOpen = FALSE, !.nextIndex = Max({@, s.thinkingNext})],
       IF s.thinkingOpen
       THEN <<Frame("sign", s.thinkingIndex, <<>>, NoUse),
              Frame("close", s.thinkingIndex, <<>>, NoUse)>>
       ELSE <<>>)

EmitMessageText(s, delta) ==
  IF s.textOpen THEN Sent(s, <<Frame("text", s.textIndex, delta, NoUse)>>)
  ELSE Sent([s EXCEPT !.textOpen = TRUE, !.textIndex = s.nextIndex,
                      !.nextIndex = @ + 1],
            <<Frame("open", s.nextIndex, <<>>, NoUse),
              Frame("text", s.nextIndex, delta, NoUse)>>)

CloseTextBlock(s) ==
  IF ~s.textOpen THEN Sent(s, <<>>)
  ELSE Sent([s EXCEPT !.textOpen = FALSE],
            <<Frame("close", s.textIndex, <<>>, NoUse)>>)

EmitStreamToolCall(s, call) ==
  IF call.name = "" THEN Sent(s, <<>>)
  ELSE Sent([s EXCEPT !.nextIndex = @ + 1],
            <<Frame("open", s.nextIndex, <<>>, NoUse),
              Frame("call", s.nextIndex, <<>>, Rekeyed(call)),
              Frame("close", s.nextIndex, <<>>, NoUse)>>)

EmitMessages(s, op) ==
  CASE op.op = "start" -> Sent(s, <<Frame("begin", NoIndex, <<>>, NoUse)>>)
    [] op.op = "think" -> EmitThinkingDelta(s, op.chunk)
    [] op.op = "prepare" -> PrepareForNextBlock(s)
    [] op.op = "text" -> EmitMessageText(s, op.chunk)
    [] op.op = "close" -> CloseTextBlock(s)
    [] op.op = "call" -> EmitStreamToolCall(s, op.call)
    [] op.op = "complete" -> Sent(s, <<Frame("end", NoIndex, <<>>, NoUse)>>)
=============================================================================
