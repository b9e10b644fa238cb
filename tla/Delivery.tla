------------------------------ MODULE Delivery ------------------------------
(***************************************************************************)
(* What an answer is to the client, whatever the route and the provider:   *)
(* nothing is shown while the provider speaks; then what was said is shown *)
(* from its beginning on, in one order, without a gap, and the answer ends *)
(* as complete only when all of it was shown.  An answer may also be cut   *)
(* before the first of it is shown: then nothing more is promised than     *)
(* that what is shown is not taken back.                                   *)
(***************************************************************************)
EXTENDS Naturals, SequencesExt

VARIABLES said, shown, ended
vars == <<said, shown, ended>>

Init == shown = <<>> /\ ended = "no"

Hear == ended = "no" /\ shown = <<>> /\ UNCHANGED <<shown, ended>>

Show ==
  /\ ended = "no" /\ IsPrefix(shown, shown') /\ IsPrefix(shown', said)
  /\ UNCHANGED <<said, ended>>

Complete ==
  /\ ended = "no" /\ ended' = "complete"
  /\ IsPrefix(shown, shown') /\ shown' = said /\ UNCHANGED said

(* The client leaves, or is told of a failure instead of being answered.    *)
Leave ==
  /\ ended = "no" /\ ended' = "left" /\ UNCHANGED shown
  /\ shown # <<>> => UNCHANGED said
Fail == ended = "no" /\ shown = <<>> /\ ended' = "failed" /\ shown' = <<>>

Cut == ended = "no" /\ shown = <<>> /\ ended' = "cut" /\ shown' = <<>>
Remain == ended = "cut" /\ ended' \in {"cut", "left"} /\ IsPrefix(shown, shown')

Next == Hear \/ Show \/ Complete \/ Leave \/ Fail \/ Cut \/ Remain

Spec == Init /\ [][Next]_vars
=============================================================================
