------------------------------- MODULE Decode -------------------------------
(***************************************************************************)
(* The bodies of the four protocols and their translation into canonical   *)
(* messages (internal/proxy/codex/codec.go, internal/proxy/anthropic/      *)
(* codec.go).  A body is a sequence of items; what an item holds is a      *)
(* sequence of parts, each with a tag of its own.                          *)
(***************************************************************************)
EXTENDS Messages

Parts == [kind : STRING, tag : Nat, id : Nat, by : STRING, named : BOOLEAN]
ChatItems == [role : STRING, parts : Seq(Parts), id : Nat,
              calls : Seq([id : Nat, named : BOOLEAN, tag : Nat])]
InputItems == [type : STRING, role : STRING, parts : Seq(Parts), id : Nat,
               tag : Nat, named : BOOLEAN]
TurnItems == [role : STRING, parts : Seq(Parts)]
BodiesOf(items) == [system : Nat, items : Seq(items)]

(* A blank call id is replaced by a new one.                                *)
NewId(tag) == 100 + tag
IdOf(call) == IF call.id = NoId THEN NewId(call.tag) ELSE call.id
Call(call) == [id |-> IdOf(call), named |-> call.named]

(* A reply or a turn that would be empty is filled with a full stop.        *)
Filler == Plain(0)

Image(p) == [tag |-> p.tag, by |-> p.by]
Said(p) == IF p.tag = 0 THEN <<>> ELSE Plain(p.tag)

-----------------------------------------------------------------------------
(* OpenAI: chat, responses, completions.                                    *)

(* Fault: a role nobody knows is passed on.                                 *)
RoleAsGiven(role) == role

RoleFromString(role) ==
  IF role \in {"system", "developer", "assistant", "tool"} THEN role ELSE "user"

OpenAIPart(p) ==
  CASE p.kind \in {"text", "other"} -> Str(Said(p))
    [] p.kind = "image" /\ p.by # "none" -> <<ImageBlock(Image(p))>>
    [] p.kind = "result" /\ p.id # NoId -> <<ResultBlock(p.id, Said(p), <<>>)>>
    [] p.kind = "thinking" /\ p.tag # 0 -> <<ThinkingBlock(Said(p))>>
    [] OTHER -> <<>>

NormalizeOpenAIMessageContent(parts) ==
  FlattenSeq([i \in DOMAIN parts |-> OpenAIPart(parts[i])])

ChatMessage(item) ==
  Message(RoleFromString(item.role), NormalizeOpenAIMessageContent(item.parts),
          [i \in DOMAIN item.calls |-> Call(item.calls[i])], item.id, FALSE)

ChatToIR(items) ==
  SanitizeToolHistory([i \in DOMAIN items |-> ChatMessage(items[i])], FALSE)

ResponsesInputItem(item) ==
  LET content == NormalizeOpenAIMessageContent(item.parts) IN
  CASE item.type = "message" /\ ContentEmpty(content) -> <<>>
    [] item.type = "message" /\ ~ContentEmpty(content) ->
         <<Message(RoleFromString(item.role), content, <<>>, NoId, FALSE)>>
    [] item.type = "function_call" ->
         <<Message("assistant", <<>>, <<Call(item)>>, NoId, FALSE)>>
    [] item.type = "function_call_output" /\ item.id = NoId -> <<>>
    [] item.type = "function_call_output" /\ item.id # NoId ->
         <<Message("tool", <<ResultBlock(item.id, Said(item), <<>>)>>, <<>>,
                   item.id, FALSE)>>
    [] item.type = "input_text" /\ item.tag # 0 ->
         <<Message("user", Str(Said(item)), <<>>, NoId, FALSE)>>
    [] item.type = "output_text" /\ item.tag # 0 ->
         <<Message("assistant", Str(Said(item)), <<>>, NoId, FALSE)>>
    [] item.type \in {"input_text", "output_text"} /\ item.tag = 0 -> <<>>
    [] OTHER ->     \* an unknown item is said by the user, as JSON if need be
         <<Message("user", IF ContentEmpty(content) THEN Str(Jsoned(Plain(item.tag)))
                           ELSE content, <<>>, NoId, FALSE)>>

ResponsesToIR(instructions, items) ==
  LET said == FlattenSeq([i \in DOMAIN items |-> ResponsesInputItem(items[i])])
      all == IF instructions = 0 THEN said
             ELSE <<Message("system", Str(Plain(instructions)), <<>>, NoId, FALSE)>>
                    \o said
  IN SanitizeToolHistory(
       IF all = <<>> THEN <<Message("user", <<>>, <<>>, NoId, FALSE)>> ELSE all,
       FALSE)

CompletionsToIR(prompt) ==
  <<Message("user", Str(IF prompt = 0 THEN <<>> ELSE Plain(prompt)), <<>>, NoId,
            FALSE)>>

-----------------------------------------------------------------------------
(* Anthropic.                                                               *)

PartsOf(parts, kind) == Only(parts, LAMBDA p : p.kind = kind)

VisibleParts(parts) ==
  FlattenSeq([i \in DOMAIN parts |->
    CASE parts[i].kind = "text" -> Said(parts[i])
      [] parts[i].kind = "other" -> Jsoned(Said(parts[i]))
      [] OTHER -> <<>>])

(* An image inside a result is both in its text, as JSON, and an image; one *)
(* given by its address is an image with nothing in it, and refused later.  *)
AnthropicResult(p) ==
  LET image == IF p.by = "none" THEN <<>>
               ELSE <<[tag |-> p.tag, by |-> IF p.by = "data" THEN p.by ELSE "none"]>>
      text == IF image # <<>> THEN Jsoned(Plain(p.tag)) ELSE Said(p)
  IN Message("tool",
       <<ResultBlock(p.id, IF text = <<>> THEN Filler ELSE text, image)>>,
       <<>>, p.id, FALSE)

(* attachAnthropicImages: the images of a turn that also brings results are *)
(* dropped; an image given by its address is not read at all.               *)
ImagesOrResults(parts) ==
  LET results == Only(PartsOf(parts, "result"), LAMBDA p : p.id # NoId)
      images == Only(PartsOf(parts, "image"), LAMBDA p : p.by # "url")
  IN IF results # <<>> \/ images = <<>>
     THEN [i \in DOMAIN results |-> AnthropicResult(results[i])]
     ELSE <<Message("user", [i \in DOMAIN images |-> ImageBlock(Image(images[i]))],
                    <<>>, NoId, FALSE)>>

AnthropicMessage(item) ==
  LET text == VisibleParts(item.parts)
      thoughts == Only(PartsOf(item.parts, "thinking"), LAMBDA p : p.tag # 0)
      uses == Only(PartsOf(item.parts, "call"), LAMBDA p : p.named)
      content == IF text = <<>> THEN <<>>
                 ELSE Str(text) \o [i \in DOMAIN thoughts |->
                                      ThinkingBlock(Plain(thoughts[i].tag))]
  IN IF item.role = "assistant"
     THEN IF text = <<>> /\ uses = <<>> /\ thoughts = <<>> THEN <<>>
          ELSE <<Message("assistant", content, [i \in DOMAIN uses |-> Call(uses[i])],
                         NoId, thoughts # <<>>)>>
     ELSE ImagesOrResults(item.parts)
            \o (IF text = <<>> THEN <<>>
                ELSE <<Message("user", content, <<>>, NoId, thoughts # <<>>)>>)

MergeText(content) ==
  IF IsStr(content) THEN ContentText(content) ELSE Marshalled(content)

Mergeable(m, n) == m.role = n.role /\ (m.role = "tool" => m.answers = n.answers)

MergeConsecutiveMessages(messages) ==
  FoldLeft(LAMBDA merged, n :
             IF merged = <<>> \/ ~Mergeable(Last(merged), n) THEN Append(merged, n)
             ELSE LET m == Last(merged) IN
                  Append(Front(merged),
                    [m EXCEPT !.content = Str(MergeText(@) \o MergeText(n.content)),
                              !.calls = @ \o n.calls,
                              !.thinking = @ \/ n.thinking]),
           <<>>, messages)

MessagesToIR(system, items) ==
  LET first == IF system = 0 THEN <<>>
               ELSE <<Message("system", Str(Plain(system)), <<>>, NoId, FALSE)>>
      said == FlattenSeq([i \in DOMAIN items |-> AnthropicMessage(items[i])])
  IN SanitizeToolHistory(MergeConsecutiveMessages(first \o said), TRUE)

-----------------------------------------------------------------------------
(* What a body decodes to; of the four, only the messages protocol refuses  *)
(* a body without messages.                                                 *)
ToIR(protocol, system, items) ==
  CASE protocol = "chat" -> ChatToIR(items)
    [] protocol = "responses" -> ResponsesToIR(system, items)
    [] protocol = "completions" -> CompletionsToIR(system)
    [] protocol = "messages" -> MessagesToIR(system, items)
=============================================================================
