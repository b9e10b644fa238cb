------------------------------ MODULE Messages ------------------------------
(***************************************************************************)
(* The canonical request every protocol is decoded into                    *)
(* (internal/proxy/models), the repair of its tool history (the two        *)
(* sanitizeToolHistory) and its validation.                                *)
(*                                                                         *)
(* A text is the sequence of its visible pieces.  A piece is known by a    *)
(* tag, and by whether it stands in the text as such or inside the JSON of *)
(* the block it came from.  Blank text is the empty sequence: everything   *)
(* is trimmed.  A content is a sequence of blocks; the code's content that *)
(* is a plain string is the content of one text block.                     *)
(***************************************************************************)
EXTENDS Lists

NoId == 0           \* a blank id; the others are positive

Plain(tag) == <<[tag |-> tag, json |-> FALSE]>>
Jsoned(text) == [i \in DOMAIN text |-> [text[i] EXCEPT !.json = TRUE]]

Block(kind, id, text, images) ==
  [kind |-> kind, id |-> id, text |-> text, images |-> images]
TextBlock(text) == Block("text", NoId, text, <<>>)
ThinkingBlock(text) == Block("thinking", NoId, text, <<>>)
ImageBlock(image) == Block("image", NoId, <<>>, <<image>>)
ResultBlock(id, text, images) == Block("result", id, text, images)
Str(text) == IF text = <<>> THEN <<>> ELSE <<TextBlock(text)>>
IsStr(content) ==
  content = <<>> \/ (Len(content) = 1 /\ content[1].kind = "text")

Message(role, content, calls, answers, thinking) ==
  [role |-> role, content |-> content, calls |-> calls,
   answers |-> answers, thinking |-> thinking]

Roles == {"system", "developer", "user", "assistant", "tool"}
TextPieces == [tag : Nat, json : BOOLEAN]
ImageData == [tag : Nat, by : STRING \cup {"none"}]
ToolCalls == [id : Nat \ {NoId}, named : BOOLEAN]
Blocks == [kind : {"text", "thinking", "image", "result"}, id : Nat,
           text : Seq(TextPieces), images : Seq(ImageData)]
CanonicalMessages ==
  [role : Roles, content : Seq(Blocks), calls : Seq(ToolCalls),
   answers : Nat, thinking : BOOLEAN]

-----------------------------------------------------------------------------
(* What a content shows, in the order of its blocks.                        *)
ContentText(content) ==
  FlattenSeq([i \in DOMAIN content |-> content[i].text])
ContentImages(content) ==
  FlattenSeq([i \in DOMAIN content |-> content[i].images])
ContentToolResults(content) ==
  Only(content, LAMBDA b : b.kind = "result")
ContentThinkingBlocks(content) ==
  Only(content, LAMBDA b : b.kind = "thinking")
ContentEmpty(content) ==
  /\ ContentText(content) = <<>> /\ ContentImages(content) = <<>>
  /\ ContentToolResults(content) = <<>> /\ ContentThinkingBlocks(content) = <<>>

(* json.Marshal of a list of blocks: whatever they hold, images included,   *)
(* becomes text.                                                            *)
Marshalled(content) ==
  FlattenSeq([i \in DOMAIN content |->
    Jsoned(content[i].text) \o
      [j \in DOMAIN content[i].images |->
        [tag |-> content[i].images[j].tag, json |-> TRUE]]])

(* What the providers take for the text of a content: its JSON when nothing *)
(* in it is text.                                                           *)
VisibleText(content) ==
  IF ContentText(content) # <<>> \/ IsStr(content)
  THEN ContentText(content) ELSE Marshalled(content)

-----------------------------------------------------------------------------
(* sanitizeToolHistory.  Calls lose those without a name and those that     *)
(* repeat an id; a result of a call that was never made becomes a message   *)
(* of the user; the second answer to a call is dropped.                     *)
NamedCalls(calls) ==
  FoldLeft(LAMBDA kept, c :
             IF c.named /\ \A i \in DOMAIN kept : kept[i].id # c.id
             THEN Append(kept, c) ELSE kept,
           <<>>, calls)

Sanitized(acc, m, keepThinking) ==
  LET calls == NamedCalls(m.calls)
      silent == ContentText(m.content) = <<>>
      put(message) == [acc EXCEPT !.out = Append(@, message)]
  IN CASE m.role = "assistant" /\ m.calls # <<>> ->
            IF calls = <<>> /\ silent /\ ~(keepThinking /\ m.thinking) THEN acc
            ELSE [put([m EXCEPT !.calls = calls]) EXCEPT !.declared =
                    @ \cup {calls[i].id : i \in DOMAIN calls}]
       [] m.role = "tool" /\ m.answers \notin acc.declared ->
            IF silent THEN acc
            ELSE put([m EXCEPT !.role = "user", !.answers = NoId])
       [] m.role = "tool" /\ m.answers \in acc.declared \cap acc.answered -> acc
       [] OTHER ->
            [put(m) EXCEPT !.answered =
               IF m.role = "tool" THEN @ \cup {m.answers} ELSE @]

(* Fault: a second answer to a call stays in the history.                   *)
SanitizeButRepeats(messages, keepThinking) ==
  FoldLeft(LAMBDA acc, m :
             [Sanitized([acc EXCEPT !.answered = {}], m, keepThinking)
                EXCEPT !.answered = {}],
           [declared |-> {}, answered |-> {}, out |-> <<>>], messages).out

SanitizeToolHistory(messages, keepThinking) ==
  FoldLeft(LAMBDA acc, m : Sanitized(acc, m, keepThinking),
           [declared |-> {}, answered |-> {}, out |-> <<>>], messages).out

(* ValidateRequest.  Both providers can do tools, thinking and streams, so   *)
(* only the messages decide.  Of the blocks with the result of one call,    *)
(* only the first message that has one is looked at.                        *)
ResultIds(m) ==
  {b.id : b \in ToSet(ContentToolResults(m.content))}
Declared(messages, i) ==
  UNION {{c.id : c \in ToSet(messages[j].calls)} :
           j \in {h \in 1..i : messages[h].role = "assistant"}}

ValidateRequest(messages) ==
  \A i \in DOMAIN messages :
    LET m == messages[i]
        fresh == ResultIds(m) \ UNION {ResultIds(messages[j]) : j \in 1..(i - 1)}
    IN /\ \A image \in ToSet(ContentImages(m.content)) : image.by # "none"
       /\ NoId \notin ResultIds(m)
       /\ m.role = "assistant" => fresh = {}
       /\ m.role = "tool" => fresh \subseteq Declared(messages, i) /\ m.calls = <<>>
=============================================================================
