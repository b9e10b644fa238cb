------------------------------ MODULE Upstream ------------------------------
(***************************************************************************)
(* The answer of a provider on its way to the gateway.  What Kiro and      *)
(* Codex send is not code of the repository: it is taken from how the      *)
(* answer is read.  A provider has said something once all of an event has *)
(* been sent; it may send an event twice and break off anywhere.  It never *)
(* means one fragment twice in a row, nor one call twice: the gateway      *)
(* takes both for repetitions.                                             *)
(***************************************************************************)
EXTENDS KiroStream, CodexStream, CodexPayload

CONSTANTS
  Pieces,      \* the fragments of text a provider may send
  Tools,       \* the names of the client's tools, in a sequence
  Short,       \* shortenToolName on these names
  Inputs,      \* the inputs a provider may give to a tool
  MaxEvents    \* bound: how many events an answer of each provider has

ASSUME ProvidersAssumption ==
  /\ Pieces \subseteq Texts /\ Inputs \subseteq Texts \ {<<>>}
  /\ Tools \in Seq(Names) /\ Short \in [ToSet(Tools) -> Names]

VARIABLES
  said,        \* what the provider has said
  mid,         \* what it is in the middle of
  heard        \* what the gateway has read of it

Silence == [text |-> <<>>, thinking |-> <<>>, calls |-> <<>>]
Mid == [events |-> 0, last |-> <<>>, thought |-> <<>>, tag |-> "none",
        call |-> NoCall, half |-> <<>>, silent |-> <<>>, over |-> FALSE]

MidsWith(halves) ==
  [events : Nat, last : Texts, thought : Texts, tag : {"none", "open", "closed"},
   call : [open : {TRUE}, id : Nat, name : Names, input : Texts, rest : Texts]
            \cup {NoCall},
   half : halves, silent : Seq(ToolUses), over : BOOLEAN]
Mids == MidsWith(Seq([said : Outcomes, mid : MidsWith({<<>>})]))

UpstreamOK == said \in Outcomes /\ mid \in Mids /\ heard \in Parsers \cup Outcomes

Start(provider) ==
  /\ said' = Silence /\ mid' = Mid
  /\ heard' = IF provider = "kiro" THEN ParserInit ELSE CollectorInit

Mapping == BuildToolNameMapping(Short, Tools)
NameFor(provider, tool) ==
  IF provider = "codex" THEN Remap(Mapping, tool) ELSE tool

Called(s, use) ==
  IF \E i \in DOMAIN s.calls :
       s.calls[i].name = use.name /\ s.calls[i].input = use.input
  THEN s ELSE [s EXCEPT !.calls = Append(@, use)]

-----------------------------------------------------------------------------
(* Kiro.  An event travels in one frame or in two.                          *)

Event(kind, piece, id, name, stop) ==
  [kind |-> kind, piece |-> piece, id |-> id, name |-> name, stop |-> stop]
Text(kind, piece) == Event(kind, piece, 0, "", FALSE)

Sends(e, after, then) ==
  /\ mid.half = <<>> /\ mid.events < MaxEvents.kiro
  /\ LET next == [then EXCEPT !.events = @ + 1] IN
     \/ heard' = Feed(heard, "whole", e) /\ said' = after /\ mid' = next
     \/ /\ heard' = Feed(heard, "head", e) /\ UNCHANGED said
        /\ mid' = [mid EXCEPT !.half = <<[said |-> after, mid |-> next]>>]

SendsRest ==
  /\ mid.half # <<>>
  /\ heard' = Feed(heard, "tail", NoHalf)
  /\ said' = mid.half[1].said /\ mid' = mid.half[1].mid

Speaks ==
  \E piece \in Pieces \ {mid.last} :
    Sends(Text("content", piece),
          IF mid.tag = "open" THEN [said EXCEPT !.thinking = @ \o piece]
          ELSE [said EXCEPT !.text = @ \o piece],
          [mid EXCEPT !.last = piece])

OpensThinking ==
  /\ mid.tag = "none" /\ said = Silence
  /\ Sends(Text("content", <<"<">>), said, [mid EXCEPT !.tag = "open", !.last = <<"<">>])
ClosesThinking ==
  /\ mid.tag = "open" /\ ~IsBlank(said.thinking)
  /\ Sends(Text("content", <<">">>), said, [mid EXCEPT !.tag = "closed", !.last = <<">">>])

Thinks ==
  /\ mid.tag = "none"
  /\ \E piece \in Pieces \ {mid.thought} :
       Sends(Text("thinking", piece), [said EXCEPT !.thinking = @ \o piece],
             [mid EXCEPT !.thought = piece, !.tag = "none"])

Repeats ==
  /\ mid.last # <<>>
  /\ Sends(Text("content", mid.last), said, mid)

(* The call under way, when all of its input has been sent.                 *)
Use(call) == ToolUse(call.id, call.name, call.input)
Settled ==
  IF mid.call.open THEN Called(said, Use(mid.call)) ELSE said

StartsCall ==
  /\ mid.call.open => mid.call.rest = <<>>
  /\ \E i \in DOMAIN Tools, input \in Inputs : \E k \in {0, 1, Len(input)} :
     \E stop \in IF k = Len(input) THEN BOOLEAN ELSE {FALSE} :
       LET call == [open |-> TRUE, id |-> mid.events + 1, name |-> Tools[i],
                    input |-> input, rest |-> SubSeq(input, k + 1, Len(input))]
       IN Sends(Event("tool_start", SubSeq(input, 1, k), call.id, call.name, stop),
                IF stop THEN Called(Settled, Use(call)) ELSE Settled,
                [mid EXCEPT !.call = IF stop THEN NoCall ELSE call])
GivesInput ==
  /\ mid.call.open /\ mid.call.rest # <<>>
  /\ Sends(Text("tool_input", mid.call.rest), said, [mid EXCEPT !.call.rest = <<>>])
StopsCall ==
  /\ mid.call.open /\ mid.call.rest = <<>>
  /\ Sends(Event("tool_stop", <<>>, 0, "", TRUE), Settled, [mid EXCEPT !.call = NoCall])

KiroSays ==
  \/ Speaks \/ OpensThinking \/ ClosesThinking \/ Thinks \/ Repeats
  \/ StartsCall \/ GivesInput \/ StopsCall \/ SendsRest

-----------------------------------------------------------------------------
(* Codex.  A text that comes in deltas comes again when its item is done;   *)
(* the last event may list all items, and must when one was never sent.     *)

ItemOf(type, text, id, name) ==
  [type |-> type, text |-> text, id |-> id, name |-> name]
Delta(type, piece) == [type |-> type, piece |-> piece]
Done(item) == [type |-> "item.done", item |-> item]
CallItem(use) ==
  ItemOf("function_call", use.input, use.id, NameFor("codex", use.name))

Tells(e, after) ==
  /\ ~mid.over /\ mid.events < MaxEvents.codex
  /\ heard' = CollectEvent(heard, e)
  /\ said' = after /\ mid' = [mid EXCEPT !.events = @ + 1]

TellsDelta ==
  \E piece \in Pieces :
    \/ Tells(Delta("text.delta", piece), [said EXCEPT !.text = @ \o piece])
    \/ Tells(Delta("reasoning.delta", piece), [said EXCEPT !.thinking = @ \o piece])
TellsMessage ==
  \E text \in IF IsBlank(said.text) THEN Pieces ELSE {said.text} :
    /\ said.text \in {<<>>, text}
    /\ Tells(Done(ItemOf("message", text, 0, "")), [said EXCEPT !.text = text])
TellsReasoning ==
  \E text \in IF IsBlank(said.thinking) THEN Pieces ELSE {said.thinking} :
    /\ said.thinking \in {<<>>, text}
    /\ Tells(Done(ItemOf("reasoning", text, 0, "")), [said EXCEPT !.thinking = text])
TellsCall ==
  \E i \in DOMAIN Tools, input \in Inputs :
    LET use == ToolUse(mid.events + 1, Tools[i], input) IN
    \/ Tells(Done(CallItem(use)), [said EXCEPT !.calls = Append(@, use)])
    \/ /\ ~mid.over /\ mid.events < MaxEvents.codex
       /\ mid' = [mid EXCEPT !.events = @ + 1, !.silent = Append(@, use)]
       /\ UNCHANGED <<said, heard>>

TellsEnd ==
  LET all == [said EXCEPT !.calls = @ \o mid.silent]
      items == <<ItemOf("reasoning", all.thinking, 0, ""),
                 ItemOf("message", all.text, 0, "")>>
                 \o [i \in DOMAIN all.calls |-> CallItem(all.calls[i])]
  IN /\ ~mid.over
     /\ \E told \in {items} \cup (IF mid.silent = <<>> THEN {<<>>} ELSE {}) :
          heard' = CollectEvent(heard, [type |-> "completed", items |-> told])
     /\ said' = all /\ mid' = [mid EXCEPT !.over = TRUE]

CodexSays == TellsDelta \/ TellsMessage \/ TellsReasoning \/ TellsCall \/ TellsEnd

-----------------------------------------------------------------------------
(* Kiro has finished what it had begun.                                     *)
Complete == mid.half = <<>> /\ ~mid.call.open /\ mid.tag # "open"
=============================================================================
