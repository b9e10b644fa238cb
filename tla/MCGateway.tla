----------------------------- MODULE MCGateway -----------------------------
(* Small instances of Gateway for TLC: bodies of a few items, each drawn    *)
(* from a menu of the cases the translation tells apart.  The parts of the  *)
(* item at place i have the tags 10 * i + 1, ...                            *)
EXTENDS Gateway

CONSTANT Places       \* how many items a body has at most

Part(kind, tag, id, by) ==
  [kind |-> kind, tag |-> tag, id |-> id, by |-> by, named |-> by # "none"]
TextPart(i) == Part("text", 10 * i + 1, NoId, "none")
ImagePart(i) == Part("image", 10 * i + 2, NoId, "data")
CallOf(i, id) == [id |-> id, named |-> TRUE, tag |-> 10 * i + 2 + id]
Nameless(i) == [id |-> NoId, named |-> FALSE, tag |-> 10 * i + 5]

ChatItem(role, parts, calls, id) ==
  [role |-> role, parts |-> parts, calls |-> calls, id |-> id]
ChatMenu(k, i) ==
  CASE k = 1 -> ChatItem("critic", <<TextPart(i)>>, <<>>, NoId)
    [] k = 2 -> ChatItem("user", <<TextPart(i), ImagePart(i)>>, <<>>, NoId)
    [] k = 3 -> ChatItem("assistant", <<TextPart(i)>>, <<>>, NoId)
    [] k = 4 -> ChatItem("assistant", <<>>, <<CallOf(i, 1), Nameless(i), CallOf(i, 2)>>, NoId)
    [] k = 5 -> ChatItem("tool", <<TextPart(i)>>, <<>>, 1)
    [] k = 6 -> ChatItem("tool", <<Part("result", 10 * i + 1, 2, "none")>>, <<>>, 2)
    [] k = 7 -> ChatItem("system", <<TextPart(i)>>, <<>>, NoId)
    [] k = 8 -> ChatItem("user", <<ImagePart(i)>>, <<>>, NoId)

InputItem(type, role, parts, id, tag) ==
  [type |-> type, role |-> role, parts |-> parts, id |-> id, tag |-> tag,
   named |-> TRUE]
InputMenu(k, i) ==
  CASE k = 1 -> InputItem("message", "user", <<TextPart(i)>>, NoId, 0)
    [] k = 2 -> InputItem("message", "assistant", <<TextPart(i)>>, NoId, 0)
    [] k = 3 -> InputItem("function_call", "", <<>>, 1, 10 * i + 1)
    [] k = 4 -> InputItem("function_call_output", "", <<>>, 1, 10 * i + 1)
    [] k = 5 -> InputItem("input_text", "", <<>>, NoId, 10 * i + 1)
    [] k = 6 -> InputItem("unknown", "", <<>>, NoId, 10 * i + 1)
    [] k = 7 -> InputItem("message", "user", <<>>, NoId, 0)
    [] k = 8 -> InputItem("output_text", "", <<>>, NoId, 10 * i + 1)

Turned(role, parts) == [role |-> role, parts |-> parts]
CallPart(i, id) ==
  [kind |-> "call", tag |-> 10 * i + 2 + id, id |-> id, by |-> "none", named |-> TRUE]
TurnMenu(k, i) ==
  CASE k = 1 -> Turned("user", <<TextPart(i)>>)
    [] k = 2 -> Turned("user", <<TextPart(i), ImagePart(i)>>)
    [] k = 3 -> Turned("assistant", <<Part("thinking", 10 * i + 4, NoId, "none"), TextPart(i)>>)
    [] k = 4 -> Turned("assistant", <<CallPart(i, 1), CallPart(i, 2)>>)
    [] k = 5 -> Turned("user", <<Part("result", 10 * i + 1, 1, "none"),
                                 Part("result", 10 * i + 2, 2, "data")>>)
    [] k = 6 -> Turned("user", <<Part("result", 10 * i + 1, 1, "none"),
                                 Part("text", 10 * i + 2, NoId, "none")>>)
    [] k = 7 -> Turned("assistant", <<Part("thinking", 10 * i + 4, NoId, "none")>>)
    [] k = 8 -> Turned("user", <<>>)
    [] k = 9 -> Turned("user", <<Part("result", 10 * i + 1, 1, "url")>>)

(* A longer body has fewer kinds of items: those of which order and pairing *)
(* depend on what comes before.                                             *)
Picked(Menu(_, _), all, paired) ==
  LET kinds(n) == IF n < Places THEN all ELSE paired
  IN UNION {{[i \in 1..n |-> Menu(s[i], i)] : s \in [1..n -> kinds(n)]} : n \in 0..Places}
Body(system, items) == [system |-> system, items |-> items]

SomeBodies ==
  [chat |-> {Body(0, items) : items \in Picked(ChatMenu, 1..8, 1..6)},
   responses |-> {Body(system, items) : system \in {0, 5}, items \in Picked(InputMenu, 1..8, 1..5)},
   messages |-> {Body(system, items) : system \in {0, 5}, items \in Picked(TurnMenu, 1..9, 1..6)},
   completions |-> {Body(prompt, <<>>) : prompt \in {0, 5}}]

SomeNames == {<<"gpt", "5", "high">>, <<"claude", "4", "thinking">>, <<"llama">>,
              <<"fast", "max">>}
SomeAliases == <<"fast">> :> <<"claude", "opus">>
SomePieces == {<<"a">>, <<Lead, Trail, " ">>}
SomeEvents == [kiro |-> 4, codex |-> 3]
SomeInputs == {NoInput, <<"{", "query", "q", "paths", "p", "}">>}
SomeTools == <<"grep", "a_name_too_long">>
SomeShort == [name \in {"grep", "a_name_too_long"} |->
                IF name = "grep" THEN "grep" ELSE "a_name"]

(* Nothing after its admission depends on the settings or on how a request  *)
(* was admitted: one admitted request of each route goes on.                *)
OneAdmitted ==
  stage = "admitted" =>
    /\ changes = 0 /\ settings = [key |-> NoKey, mode |-> FALSE]
    /\ req.credential = NoKey
=============================================================================
