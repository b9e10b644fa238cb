------------------------------ MODULE Answers ------------------------------
(***************************************************************************)
(* What the two upstream streams and the four answer formats share: texts  *)
(* as sequences of characters, tool uses, and the response of              *)
(* internal/proxy/models.  " " is a blank character; "<" and ">" are the   *)
(* tags <thinking> and </thinking>.  A tool input begins with "{" and ends *)
(* with "}", between them are its keys, each followed by its value; a      *)
(* blank value stands for one that names no path.  A character of several  *)
(* bytes is a lead followed by a trail.                                    *)
(***************************************************************************)
EXTENDS Lists

Blank == " "
Solid(text) == SelectSeq(text, LAMBDA c : c # Blank)
IsBlank(text) == Solid(text) = <<>>

TrimSpace(text) ==
  LET solid == {i \in DOMAIN text : text[i] # Blank}
  IN IF solid = {} THEN <<>> ELSE SubSeq(text, Min(solid), Max(solid))

Lead == "lead"
Trail == "trail"
Broken == "broken"

(* Input that is not the JSON of an object is no input.                     *)
NoInput == <<"{", "}">>
IsObject(args) ==
  Len(args) > 1 /\ Len(args) % 2 = 0 /\ args[1] = "{" /\ Last(args) = "}"
ParsedInput(args) == IF IsObject(args) THEN args ELSE NoInput

(* Strings, all of them; those that have a meaning are listed because the   *)
(* provers do not know that a literal is a STRING.                          *)
InputKeys == {"path", "paths", "file_path", "pattern", "description", "query", "."}
Characters ==
  STRING \cup {Blank, "<", ">", "{", "}", Lead, Trail, Broken} \cup InputKeys
Names == STRING \cup {""}

Texts == Seq(Characters)
ToolUses == [id : Nat, name : Names, input : Texts]
Outcomes == [text : Texts, thinking : Texts, calls : Seq(ToolUses)]
Responses == [text : Texts, thinking : Texts, calls : Seq(ToolUses),
              stop : {"stop", "tool_calls"}]

ToolUse(id, name, input) == [id |-> id, name |-> name, input |-> input]

Response(text, thinking, calls) ==
  [text |-> text, thinking |-> thinking, calls |-> calls,
   stop |-> IF calls = <<>> THEN "stop" ELSE "tool_calls"]

(* kiroOutcomeToResponse, outcomeToIRResponse: a call without a name is     *)
(* left out.                                                                *)
OutcomeToResponse(outcome) ==
  Response(outcome.text, outcome.thinking,
           Only(outcome.calls, LAMBDA c : c.name # ""))

-----------------------------------------------------------------------------
(* RemapToolCallArgs: some tools get the keys their clients know.           *)
IsKey(i, args, key) == i % 2 = 0 /\ args[i] = key
Has(args, key) == \E i \in 1..Len(args) - 1 : IsKey(i, args, key)
PlaceOf(args, key) == CHOOSE i \in 1..Len(args) - 1 : IsKey(i, args, key)

With(args, key, value) == SubSeq(args, 1, Len(args) - 1) \o <<key, value, "}">>
Without(args, key) ==
  SubSeq(args, 1, PlaceOf(args, key) - 1)
    \o SubSeq(args, PlaceOf(args, key) + 2, Len(args))

MoveArg(args, from, to) ==
  IF ~Has(args, from) THEN args
  ELSE IF Has(args, to) THEN Without(args, from)
  ELSE [args EXCEPT ![PlaceOf(args, from)] = to]

MoveFirstPath(args, removeSource) ==
  IF Has(args, "path") \/ ~Has(args, "paths") THEN args
  ELSE LET path == args[PlaceOf(args, "paths") + 1] IN
       IF path = Blank THEN args
       ELSE IF removeSource THEN MoveArg(args, "paths", "path")
       ELSE With(args, "path", path)

Searching ==
  {"grep", "search", "search_code_definitions", "search_code_snippets", "glob"}

RemapToolCallArgs(name, args) ==
  CASE name = "EnterPlanMode" -> NoInput
    [] name \in Searching ->
         MoveFirstPath(MoveArg(MoveArg(args, "description", "pattern"),
                               "query", "pattern"), TRUE)
    [] name = "read" -> MoveArg(args, "path", "file_path")
    [] name = "ls" -> IF Has(args, "path") THEN args ELSE With(args, "path", ".")
    [] OTHER -> MoveFirstPath(args, FALSE)

(* A call with its arguments parsed and renamed.                            *)
Rekeyed(call) ==
  [call EXCEPT !.input = RemapToolCallArgs(call.name, ParsedInput(@))]

-----------------------------------------------------------------------------
(* ChunkText cuts between bytes, wherever a character ends, and a short     *)
(* blank text has no chunk at all.  Half a character is no JSON: what is    *)
(* sent instead is a replacement character.                                 *)
ToValidJSON(chunk) ==
  [i \in DOMAIN chunk |->
     IF \/ chunk[i] = Lead /\ (i = Len(chunk) \/ chunk[i + 1] # Trail)
        \/ chunk[i] = Trail /\ (i = 1 \/ chunk[i - 1] # Lead)
     THEN Broken ELSE chunk[i]]

ChunkText(text, size) ==
  IF Len(text) <= size
  THEN IF IsBlank(text) THEN <<>> ELSE <<text>>
  ELSE [k \in 1..((Len(text) + size - 1) \div size) |->
          SubSeq(text, (k - 1) * size + 1, Min({k * size, Len(text)}))]
=============================================================================
