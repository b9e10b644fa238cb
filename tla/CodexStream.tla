---------------------------- MODULE CodexStream ----------------------------
(***************************************************************************)
(* How the answer of Codex is read (internal/provider/codex/execute.go):   *)
(* a stream of server-sent events.  Texts come in deltas; an item that is  *)
(* done, and the list of all items at the end, repeat what was streamed    *)
(* and count only for what was not.                                        *)
(***************************************************************************)
EXTENDS Answers

CollectorInit == [text |-> <<>>, thinking |-> <<>>, calls |-> <<>>]

(* collectResponseItem                                                      *)
CollectResponseItem(c, item) ==
  CASE /\ item.type = "function_call"
       /\ item.id # 0 /\ item.name # ""
       /\ \A i \in DOMAIN c.calls : c.calls[i].id # item.id ->
         [c EXCEPT !.calls =
            Append(@, ToolUse(item.id, item.name, ParsedInput(item.text)))]
    [] item.type = "message" /\ c.text = <<>> ->
         [c EXCEPT !.text = TrimSpace(item.text)]
    [] item.type = "reasoning" /\ c.thinking = <<>> ->
         [c EXCEPT !.thinking = TrimSpace(item.text)]
    [] OTHER -> c

CollectEvent(c, e) ==
  CASE e.type = "text.delta" -> [c EXCEPT !.text = @ \o e.piece]
    [] e.type = "reasoning.delta" -> [c EXCEPT !.thinking = @ \o e.piece]
    [] e.type = "item.done" -> CollectResponseItem(c, e.item)
    [] e.type = "completed" -> FoldLeft(CollectResponseItem, c, e.items)
    [] OTHER -> c       \* response.failed and response.incomplete among them

(* An answer that shows nothing is a failure of its own.                    *)
CompletionHasVisibleOutput(outcome) ==
  ~IsBlank(outcome.text) \/ ~IsBlank(outcome.thinking) \/ outcome.calls # <<>>
=============================================================================
