---------------------------- MODULE AuthRecovery ----------------------------
(***************************************************************************)
(* What the recovery of rejected tokens is to the requests that ask for    *)
(* it: those that ask for one account while its token is being refreshed   *)
(* form a group, for which the token is refreshed once, and whoever has    *)
(* stayed in the group is told how it went.  So many refreshes and no more *)
(* run at once.                                                            *)
(***************************************************************************)
EXTENDS Naturals, FiniteSets

CONSTANTS Requests, Accounts, MaxRecoveries

VARIABLES
  stage,      \* how far the refresh of each account is, or how it went
  group,      \* who waits for it
  told        \* what a request was told, until it has taken note

vars == <<stage, group, told>>

Verdicts == {"ok", "failed", "notReady"}

Init ==
  /\ stage = [a \in Accounts |-> "idle"]
  /\ group = [a \in Accounts |-> {}]
  /\ told = [r \in Requests |-> "none"]

Ask(r, a) ==
  /\ told[r] = "none" /\ \A b \in Accounts : r \notin group[b]
  /\ group' = [group EXCEPT ![a] = @ \cup {r}]
  /\ stage' = [stage EXCEPT ![a] = IF @ = "idle" THEN "waiting" ELSE @]
  /\ UNCHANGED told

Begin(a) ==
  /\ stage[a] = "waiting"
  /\ Cardinality({b \in Accounts : stage[b] = "refreshing"}) < MaxRecoveries
  /\ stage' = [stage EXCEPT ![a] = "refreshing"]
  /\ UNCHANGED <<group, told>>

Abandon(a) ==         \* whoever was to refresh the token has left
  /\ stage[a] = "waiting"
  /\ stage' = [stage EXCEPT ![a] = "failed"]
  /\ UNCHANGED <<group, told>>

End(a) ==
  /\ stage[a] = "refreshing"
  /\ \E verdict \in Verdicts : stage' = [stage EXCEPT ![a] = verdict]
  /\ UNCHANGED <<group, told>>

(* That the account is not ready all the same is told to one of them only.  *)
Heard(verdict, isFirst) ==
  IF verdict = "notReady" THEN (IF isFirst THEN "failed" ELSE "ok") ELSE verdict

Tell(a) ==
  /\ stage[a] \in Verdicts
  /\ \E first \in group[a] :
       told' = [r \in Requests |->
                  IF r \in group[a] THEN Heard(stage[a], r = first) ELSE told[r]]
  /\ group' = [group EXCEPT ![a] = {}]
  /\ stage' = [stage EXCEPT ![a] = "idle"]

Leave(r, a) ==        \* somebody is left to be told
  /\ r \in group[a] /\ group[a] # {r}
  /\ group' = [group EXCEPT ![a] = @ \ {r}]
  /\ told' = [told EXCEPT ![r] = "failed"]
  /\ UNCHANGED stage

TakeNote(r) ==
  /\ told[r] # "none"
  /\ told' = [told EXCEPT ![r] = "none"]
  /\ UNCHANGED <<stage, group>>

Next ==
  \/ \E a \in Accounts :
       \/ Begin(a) \/ Abandon(a) \/ End(a) \/ Tell(a)
       \/ \E r \in Requests : Ask(r, a) \/ Leave(r, a)
  \/ \E r \in Requests : TakeNote(r)

Spec == Init /\ [][Next]_vars
=============================================================================
