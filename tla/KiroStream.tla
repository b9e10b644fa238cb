----------------------------- MODULE KiroStream -----------------------------
(***************************************************************************)
(* How the answer of Kiro is read (internal/provider/kiro/stream.go): a    *)
(* binary stream of frames, JSON objects inside the frames, and the answer *)
(* put together from the objects.                                          *)
(***************************************************************************)
EXTENDS Answers

NoCall == [open |-> FALSE]
NoHalf == [kind |-> "none"]

Events ==
  [kind : {"content", "thinking", "tool_start", "tool_input", "tool_stop"},
   piece : Texts, id : Nat, name : Names, stop : BOOLEAN]
Parsers ==
  [half : Events \cup {NoHalf}, lastContent : Texts, lastThinking : Texts,
   call : [open : {TRUE}, id : Nat, name : Names, args : Texts] \cup {NoCall},
   calls : Seq(ToolUses), text : Texts, thinking : Texts]

ParserInit ==
  [half |-> NoHalf, lastContent |-> <<>>, lastThinking |-> <<>>, call |-> NoCall,
   calls |-> <<>>, text |-> <<>>, thinking |-> <<>>]

(* A call with the name and the input of an earlier one is dropped.         *)
FinalizeToolCall(p) ==
  IF ~p.call.open THEN p
  ELSE LET use == ToolUse(p.call.id, p.call.name, ParsedInput(TrimSpace(p.call.args)))
           seen == \E i \in DOMAIN p.calls :
                     p.calls[i].name = use.name /\ p.calls[i].input = use.input
       IN [p EXCEPT !.call = NoCall, !.calls = IF seen THEN @ ELSE Append(@, use)]

(* What a fragment of input does to the fragments before it: the blanks     *)
(* around them are lost.                                                    *)
AddInput(args, more) == TrimSpace(args) \o more

ProcessEvent(p, e) ==
  CASE e.kind = "content" /\ e.piece \notin {<<>>, p.lastContent} ->
         [p EXCEPT !.lastContent = e.piece, !.text = @ \o e.piece]
    [] e.kind = "thinking" /\ e.piece \notin {<<>>, p.lastThinking} ->
         [p EXCEPT !.lastThinking = e.piece, !.thinking = @ \o e.piece]
    [] e.kind = "tool_start" ->
         LET started == [FinalizeToolCall(p) EXCEPT !.call =
                           [open |-> TRUE, id |-> e.id, name |-> e.name,
                            args |-> e.piece]]
         IN IF e.stop THEN FinalizeToolCall(started) ELSE started
    [] e.kind = "tool_input" /\ p.call.open ->
         [p EXCEPT !.call.args = AddInput(@, e.piece)]
    [] e.kind = "tool_stop" /\ e.stop -> FinalizeToolCall(p)
    [] OTHER -> p       \* usage, context usage, a follow-up prompt, a repetition

(* Fault: what a frame leaves unfinished is dropped with it.                *)
FeedFrameOnly(p, part, e) == IF part = "whole" THEN ProcessEvent(p, e) ELSE p

(* feed.  An object may start in one frame and end in the next.             *)
Feed(p, part, e) ==
  CASE part = "whole" -> ProcessEvent(p, e)
    [] part = "head" -> [p EXCEPT !.half = e]
    [] part = "tail" -> [ProcessEvent(p, p.half) EXCEPT !.half = NoHalf]

-----------------------------------------------------------------------------
(* ReadEvent: where the stream ended inside a frame.  An end at the border  *)
(* of one of its parts (12 bytes of prelude, headers, payload, checksum)    *)
(* reads as io.EOF, which collectCompletion takes for the end of the        *)
(* answer; an end inside one of them is an error.                           *)
CutPoints == {"before", "prelude", "headers", "payload", "inside"}
ReadEventFails(cut) == cut = "inside"

-----------------------------------------------------------------------------
(* The thinking a text brings between its tags, and the text without it.    *)
FirstOf(text, c) ==
  IF \E i \in DOMAIN text : text[i] = c
  THEN Min({i \in DOMAIN text : text[i] = c}) ELSE 0

Tagged(text) == FirstOf(text, "<") > 0 /\ FirstOf(text, ">") > FirstOf(text, "<")

ExtractThinking(text) ==
  IF Tagged(text)
  THEN TrimSpace(SubSeq(text, FirstOf(text, "<") + 1, FirstOf(text, ">") - 1))
  ELSE <<>>

StripOnce(text) ==
  IF Tagged(text)
  THEN TrimSpace(SubSeq(text, 1, FirstOf(text, "<") - 1)
                   \o SubSeq(text, FirstOf(text, ">") + 1, Len(text)))
  ELSE text

StripThinkingTags(text) ==
  FoldLeft(LAMBDA out, c : StripOnce(out), text, text)

CollectCompletion(p) ==
  LET done == FinalizeToolCall(p)
      tagged == ExtractThinking(done.text)
  IN [text |-> TrimSpace(StripThinkingTags(done.text)),
      thinking |-> IF IsBlank(tagged) THEN TrimSpace(done.thinking) ELSE tagged,
      calls |-> done.calls]
=============================================================================
