---------------------------- MODULE KiroPayload ----------------------------
(***************************************************************************)
(* The conversation Kiro is sent (internal/provider/kiro/payload.go):      *)
(* tool messages are gathered into turns of the user, adjacent turns of    *)
(* one speaker are merged, what follows the last turn of the user is left  *)
(* out.                                                                    *)
(*                                                                         *)
(* The gathered results and images are Go slices: a turn holds a window on *)
(* a backing array which the next turn may be writing to.  So the arrays   *)
(* are part of the model: "heap" is the sequence of arrays, their length   *)
(* is their capacity, and a slice is the first "len" cells of the array    *)
(* "at" (0: no array).  An array that is too small is replaced by one      *)
(* twice as large, or just large enough; the rounding of the allocator,    *)
(* which may leave a cell more, is left out.                               *)
(***************************************************************************)
EXTENDS Messages

NilSlice == [at |-> 0, len |-> 0]
Cells(heap, s) == IF s.at = 0 THEN <<>> ELSE SubSeq(heap[s.at], 1, s.len)

(* A slice with an array of its own.                                        *)
NewSlice(heap, xs) ==
  IF xs = <<>> THEN [heap |-> heap, slice |-> NilSlice]
  ELSE [heap |-> Append(heap, xs), slice |-> [at |-> Len(heap) + 1, len |-> Len(xs)]]

(* append(s, xs...): in place when the array has room.                      *)
GoAppend(heap, s, xs) ==
  LET need == s.len + Len(xs)
      room == IF s.at = 0 THEN 0 ELSE Len(heap[s.at])
      grown == IF need > 2 * room THEN need ELSE 2 * room
      kept == Cells(heap, s) \o xs
  IN CASE xs = <<>> -> [heap |-> heap, slice |-> s]
       [] xs # <<>> /\ need <= room ->
            [heap |-> [heap EXCEPT ![s.at] = kept \o SubSeq(@, need + 1, room)],
             slice |-> [s EXCEPT !.len = need]]
       [] OTHER ->
            [heap |-> Append(heap, kept \o [i \in 1..(grown - need) |-> "unset"]),
             slice |-> [at |-> Len(heap) + 1, len |-> need]]

-----------------------------------------------------------------------------
(* What is taken from one message.                                          *)

ExtractImages(m) ==
  Only(ContentImages(m.content), LAMBDA image : image.by = "data")

(* A tool message whose content is a result block gives the result twice:   *)
(* once for the block, once for the message.                                *)
ExtractToolResults(m) ==
  LET blocks == Only(ContentToolResults(m.content), LAMBDA b : b.id # NoId)
  IN [i \in DOMAIN blocks |-> [id |-> blocks[i].id, text |-> blocks[i].text]]
       \o (IF m.role = "tool" /\ m.answers # NoId
           THEN <<[id |-> m.answers, text |-> VisibleText(m.content)]>> ELSE <<>>)

ExtractSystemText(messages) ==
  FlattenSeq([i \in DOMAIN messages |->
    IF messages[i].role \in {"system", "developer"}
    THEN VisibleText(messages[i].content) ELSE <<>>])

-----------------------------------------------------------------------------
(* From messages to turns.                                                  *)

Turn(role, content, images, results) ==
  [role |-> role, content |-> content, images |-> images, results |-> results]

(* flush: the pending results and images become a turn; pending keeps the   *)
(* array, emptied.                                                          *)
Flush(acc) ==
  IF acc.results.len = 0 /\ acc.images.len = 0 THEN acc
  ELSE [acc EXCEPT !.out = Append(@, Turn("user", <<>>, acc.images, acc.results)),
                   !.results.len = 0, !.images.len = 0]

(* Fault: the results of a message replace those that wait.                 *)
GatherLast(acc, m) ==
  LET results == GoAppend(acc.heap, [acc.results EXCEPT !.len = 0],
                          ExtractToolResults(m))
      images == GoAppend(results.heap, acc.images, ExtractImages(m))
  IN [acc EXCEPT !.heap = images.heap, !.results = results.slice,
                 !.images = images.slice]

Gather(acc, m) ==
  LET results == GoAppend(acc.heap, acc.results, ExtractToolResults(m))
      images == GoAppend(results.heap, acc.images, ExtractImages(m))
  IN [acc EXCEPT !.heap = images.heap, !.results = results.slice,
                 !.images = images.slice]

Speak(acc, m) ==
  LET user == m.role # "assistant"
      results == NewSlice(acc.heap, IF user THEN ExtractToolResults(m) ELSE <<>>)
      images == NewSlice(results.heap, ExtractImages(m))
  IN [acc EXCEPT !.heap = images.heap,
                 !.out = Append(@, Turn(IF user THEN "user" ELSE "assistant",
                                        m.content, images.slice, results.slice))]

ConvertToUnified(messages) ==
  Flush(FoldLeft(LAMBDA acc, m :
          CASE m.role \in {"system", "developer"} -> acc
            [] m.role = "tool" -> Gather(acc, m)
            [] OTHER -> Speak(Flush(acc), m),
        [heap |-> <<>>, results |-> NilSlice, images |-> NilSlice, out |-> <<>>],
        messages))

(* Fault: the later of two merged contents wins.                            *)
MergeToLast(a, b) == IF VisibleText(b) = <<>> THEN a ELSE b

MergeContent(a, b) ==
  CASE VisibleText(a) = <<>> -> b
    [] VisibleText(a) # <<>> /\ VisibleText(b) = <<>> -> a
    [] OTHER -> Str(VisibleText(a) \o VisibleText(b))

(* Fault: adjacent turns are left apart.                                    *)
MergeNothing(unified) == [heap |-> unified.heap, out |-> unified.out]

MergeAdjacent(unified) ==
  FoldLeft(LAMBDA acc, turn :
    IF acc.out = <<>> \/ Last(acc.out).role # turn.role
    THEN [acc EXCEPT !.out = Append(@, turn)]
    ELSE LET cur == Last(acc.out)
             images == GoAppend(acc.heap, cur.images, Cells(acc.heap, turn.images))
             results == GoAppend(images.heap, cur.results,
                                 Cells(images.heap, turn.results))
         IN [heap |-> results.heap,
             out |-> Append(Front(acc.out),
                       Turn(cur.role, MergeContent(cur.content, turn.content),
                            images.slice, results.slice))],
    [heap |-> unified.heap, out |-> <<>>], unified.out)

Filling(role) == Turn(role, Str(Plain(0)), NilSlice, NilSlice)

EnsureFirstUser(turns) ==
  IF turns = <<>> \/ turns[1].role = "user" THEN turns
  ELSE <<Filling("user")>> \o turns

EnsureAlternating(turns) ==
  FoldLeft(LAMBDA out, turn :
    (IF out # <<>> /\ Last(out).role = turn.role
     THEN Append(out, Filling(IF turn.role = "user" THEN "assistant" ELSE "user"))
     ELSE out) \o <<turn>>,
    <<>>, turns)

-----------------------------------------------------------------------------
(* convertToolResults: a blank result is said to be empty.                  *)
Entry(heap, turn) ==
  [role |-> turn.role, text |-> VisibleText(turn.content),
   images |-> IF turn.role = "user" THEN Cells(heap, turn.images) ELSE <<>>,
   results |-> IF turn.role = "user" THEN Cells(heap, turn.results) ELSE <<>>]

NoPayload == [history |-> <<>>, current |-> <<>>]

BuildPayload(messages) ==
  LET merged == MergeAdjacent(ConvertToUnified(messages))
      turns == EnsureAlternating(EnsureFirstUser(merged.out))
      users == {i \in DOMAIN turns : turns[i].role = "user"}
      entries == [i \in DOMAIN turns |-> Entry(merged.heap, turns[i])]
      last == CHOOSE i \in users : \A j \in users : j <= i
      system == [role |-> "system", text |-> ExtractSystemText(messages),
                 images |-> <<>>, results |-> <<>>]
      current == entries[last]
  IN IF users = {} THEN NoPayload
     ELSE [history |-> <<system>> \o SubSeq(entries, 1, last - 1),
           current |-> <<[current EXCEPT !.text =
                            IF @ = <<>> THEN Plain(0) ELSE @]>>]
=============================================================================
