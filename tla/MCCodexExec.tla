---------------------------- MODULE MCCodexExec ----------------------------
(* Small instances of CodexExec for TLC.  Time units stand for tens of      *)
(* seconds: two backoff steps, a relogin pause and an hour become 1 to 3.   *)
EXTENDS CodexExec, TLC

TwoSteps == <<1, 2>>
OneStep == <<1>>

Symmetry == Permutations(Requests) \cup Permutations(Accounts)

(* With one step of backoff the number of failures decides nothing, and of  *)
(* the labels the writes and the pool's test only tell apart those of a     *)
(* ban, of an account switched off and of a quota hold; the counters are    *)
(* read by nobody.                                                          *)
Acts(x) ==
  [x EXCEPT !.fails = 0,
            !.health = IF @ \in {"banned", "disabled_durable", "cooldown_quota"}
                       THEN @ ELSE "unset"]
WithoutLabels ==
  <<[a \in Accounts |-> Acts(acc[a])], present, pc, cur, excluded, recovered, why, lead>>
=============================================================================
