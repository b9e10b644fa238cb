--------------------------- MODULE MCTokenRefresh ---------------------------
(***************************************************************************)
(* Small instances of TokenRefresh: the cooldowns are one unit long, and   *)
(* the clock of AccountStore stands still.                                 *)
(*                                                                         *)
(* No guard of TokenRefresh reads the health record of an account, which   *)
(* is only rewritten: states that differ in the records alone, in the      *)
(* cooldown that a quota read has seen in one, in the reason that is going *)
(* to be written into one, in the token of a renewal that has stored it,   *)
(* or in what a torn file was to hold, have the same steps, and the view   *)
(* counts them once.                                                       *)
(***************************************************************************)
EXTENDS TokenRefresh, TLC

OneStep == <<1>>
AnyCall == Permutations(Calls)

Unseen(frame) ==
  IF frame.op = "quota" \/ frame.at = "renewed"
  THEN [frame EXCEPT !.sees = 0, !.got = 0] ELSE frame
Control(c) ==
  [call[c] EXCEPT !.frames = [i \in DOMAIN @ |-> Unseen(@[i])],
                  !.result = IF @ \in AuthReasons THEN "plain" ELSE @]
Readable ==
  IF file.reads # "whole" THEN <<file.reads>>
  ELSE <<file.content.present, file.content.token>>
WithoutHealth ==
  <<present, mode, Readable, copy, warned,
    faults, tokens, [c \in Calls |-> Control(c)], rejected, provider, loops>>

(* One trouble at a time: a token is rejected only while no other call is   *)
(* under way and nothing has failed yet.                                    *)
OneTrouble ==
  \A c \in Calls :
    rejected[c] # 0 => faults = 0 /\ \A d \in Calls \ {c} : ~Running(d)
=============================================================================
