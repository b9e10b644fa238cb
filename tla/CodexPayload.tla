---------------------------- MODULE CodexPayload ----------------------------
(***************************************************************************)
(* The input Codex is sent (internal/provider/codex/payload.go,            *)
(* runtime_types.go): each message becomes its items, in order.  Images    *)
(* are not sent: a content without text becomes its JSON.                  *)
(***************************************************************************)
EXTENDS Messages

-----------------------------------------------------------------------------
(* Codex takes names of 64 characters at most.  "shorten" is the function   *)
(* from the names in a request to the names that fit; a mapping knows both  *)
(* directions, for the tools and the calls of one request.  The loop that   *)
(* looks for another name when two are shortened alike is left out: it      *)
(* takes two names with the same beginning and the same ten digits of hash. *)

Register(mapping, shorten, name) ==
  IF name = "" \/ name \in DOMAIN mapping.forward THEN mapping
  ELSE [forward |-> Put(mapping.forward, name, shorten[name]),
        reverse |-> Put(mapping.reverse, shorten[name], name)]

BuildToolNameMapping(shorten, names) ==
  FoldLeft(LAMBDA mapping, name : Register(mapping, shorten, name),
           [forward |-> <<>>, reverse |-> <<>>], names)

Remap(mapping, name) ==
  IF name \in DOMAIN mapping.forward THEN mapping.forward[name] ELSE name
Restore(mapping, name) ==
  IF name \in DOMAIN mapping.reverse THEN mapping.reverse[name] ELSE name

-----------------------------------------------------------------------------
(* Messages to items.                                                       *)

Item(type, who, text, id) == [type |-> type, who |-> who, text |-> text, id |-> id]

SaidAs(who, m) ==
  IF VisibleText(m.content) = <<>> THEN <<>>
  ELSE <<Item("message", who, VisibleText(m.content), NoId)>>

FunctionCalls(calls) ==
  LET named == Only(calls, LAMBDA c : c.named)
  IN [i \in DOMAIN named |-> Item("function_call", "assistant", <<>>, named[i].id)]

CodexMessageItems(m) ==
  CASE m.role \in {"system", "developer"} -> SaidAs("developer", m)
    [] m.role = "assistant" -> SaidAs("assistant", m) \o FunctionCalls(m.calls)
    [] m.role = "tool" /\ m.answers = NoId -> <<>>
    [] m.role = "tool" /\ m.answers # NoId ->
         <<Item("function_call_output", "tool", VisibleText(m.content), m.answers)>>
    [] OTHER -> SaidAs("user", m)

(* The input; an empty one is refused.                                      *)
BuildRequestPayload(messages) ==
  FlattenSeq([i \in DOMAIN messages |-> CodexMessageItems(messages[i])])
=============================================================================
