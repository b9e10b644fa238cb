----------------------------- MODULE CodexExec -----------------------------
(***************************************************************************)
(* Concurrent chat requests served from a pool of Codex accounts           *)
(* (internal/provider/codex, Service.Complete), together with everything   *)
(* that changes the accounts meanwhile: the shared recovery of a rejected  *)
(* token, the quota service, the background token refresh and the owner.   *)
(*                                                                         *)
(* Each action is one step between two calls that may block or one write   *)
(* under the store's mutex; a request that is waiting for the network sits *)
(* in its pc.                                                              *)
(***************************************************************************)
EXTENDS AccountStore, FiniteSets

CONSTANTS
  Requests,       \* the requests, each with a goroutine of its own
  Disturbed,      \* the accounts the owner and the background tasks act on
  MaxRecoveries,  \* the recoveries that may refresh a token at once
  None

ASSUME SetsAssumption ==
  /\ IsFiniteSet(Requests)
  /\ Disturbed \subseteq Accounts
  /\ MaxRecoveries \in Nat \ {0}
  /\ None \notin Requests
  /\ None \notin Accounts

VARIABLES
  pc,         \* where each request is
  cur,        \* the account a request's attempt runs on
  excluded,   \* the accounts a request will not pick again
  recovered,  \* recoveredAuth: the attempt has had its token refreshed
  why,        \* why the request's last auth step failed, or "ok"
  lead,       \* the coordinator's active map: who recovers an account
  stats       \* the counters of the proxy

locals == <<cur, excluded, recovered, why>>
vars == <<acc, present, pc, cur, excluded, recovered, why, lead, stats>>

(* A leader is between entering the active map and leaving it; from TakeSlot *)
(* until its refresh has returned it holds one of the coordinator's slots.  *)
SlotPCs == {"leading", "renewed", "checking"}
LeaderPCs == {"queued", "publishing"} \cup SlotPCs
RecoveryPCs == LeaderPCs \cup {"recover", "following", "handed", "recoverFailed"}
Finished == {"served", "failed"}
PCs == {"new", "pick", "fresh", "freshFailed", "send", "succeeded"}
         \cup RecoveryPCs \cup Finished

Goto(r, label) == pc' = [pc EXCEPT ![r] = label]
Because(r, reason) == why' = [why EXCEPT ![r] = reason]

(* The loop goes on to another account, given up (leave) or not: the        *)
(* attempt's variables go out of scope.                                     *)
NextAttempt(r, leave) ==
  /\ Goto(r, "pick")
  /\ excluded' = IF leave THEN [excluded EXCEPT ![r] = @ \cup {cur[r]}] ELSE excluded
  /\ cur' = [cur EXCEPT ![r] = None]
  /\ recovered' = [recovered EXCEPT ![r] = FALSE]
  /\ why' = [why EXCEPT ![r] = "ok"]

(* Complete returns and takes all its variables with it.                    *)
Return(r, label) ==
  /\ Goto(r, label)
  /\ excluded' = [excluded EXCEPT ![r] = {}]
  /\ cur' = [cur EXCEPT ![r] = None]
  /\ recovered' = [recovered EXCEPT ![r] = FALSE]
  /\ why' = [why EXCEPT ![r] = "ok"]

RecordFailure == stats' = [stats EXCEPT !.total = @ + 1, !.failed = @ + 1]
RecordSuccess == stats' = [stats EXCEPT !.total = @ + 1, !.success = @ + 1]

Init ==
  /\ StoreInit
  /\ pc = [r \in Requests |-> "new"]
  /\ cur = [r \in Requests |-> None]
  /\ excluded = [r \in Requests |-> {}]
  /\ recovered = [r \in Requests |-> FALSE]
  /\ why = [r \in Requests |-> "ok"]
  /\ lead = [a \in Accounts |-> None]
  /\ stats = [total |-> 0, success |-> 0, failed |-> 0]

-----------------------------------------------------------------------------
(* Admission and the choice of an account.                                  *)

RejectModel(r) ==     \* the request names no model
  /\ pc[r] = "new"
  /\ Return(r, "failed") /\ RecordFailure
  /\ UNCHANGED <<store, lead>>

RejectUnready(r) ==
  /\ pc[r] = "new"
  /\ \A a \in Accounts : ~Ready(a)
  /\ Return(r, "failed") /\ RecordFailure
  /\ UNCHANGED <<store, lead>>

Admit(r) ==
  /\ pc[r] = "new"
  /\ \E a \in Accounts : Ready(a)
  /\ Goto(r, "pick")
  /\ UNCHANGED <<store, locals, lead, stats>>

(* Fault: the accounts already given up are not skipped.                    *)
PickAny(r) ==
  /\ pc[r] = "pick"
  /\ \E a \in Accounts : Ready(a) /\ cur' = [cur EXCEPT ![r] = a]
  /\ Goto(r, "fresh")
  /\ UNCHANGED <<store, excluded, recovered, why, lead, stats>>

Pick(r) ==
  /\ pc[r] = "pick"
  /\ \E a \in Accounts \ excluded[r] :
       /\ Ready(a)
       /\ cur' = [cur EXCEPT ![r] = a]
  /\ Goto(r, "fresh")
  /\ UNCHANGED <<store, excluded, recovered, why, lead, stats>>

(* Fault: the final return forgets to count the request.                    *)
GiveUpUncounted(r) ==
  /\ pc[r] = "pick"
  /\ \A a \in Accounts \ excluded[r] : ~Ready(a)
  /\ Return(r, "failed")
  /\ UNCHANGED <<store, lead, stats>>

GiveUp(r) ==
  /\ pc[r] = "pick"
  /\ \A a \in Accounts \ excluded[r] : ~Ready(a)
  /\ Return(r, "failed") /\ RecordFailure
  /\ UNCHANGED <<store, lead>>

-----------------------------------------------------------------------------
(* EnsureFreshAccount: the token is renewed only when it has expired.       *)

TokenFresh(r) ==
  /\ pc[r] = "fresh"
  /\ cur[r] \in present
  /\ Goto(r, "send")
  /\ UNCHANGED <<store, locals, lead, stats>>

RenewToken(r) ==
  /\ pc[r] = "fresh"
  /\ cur[r] \in present
  /\ Write(cur[r], TokenRenewed(acc[cur[r]]))
  /\ Goto(r, "send")
  /\ UNCHANGED <<locals, lead, stats>>

RenewFails(r) ==      \* also, with a plain reason, when the account is gone
  /\ pc[r] = "fresh"
  /\ \E w \in AuthReasons :
       /\ Write(cur[r], RefreshRejected(acc[cur[r]], w))
       /\ Because(r, w)
  /\ Goto(r, "freshFailed")
  /\ UNCHANGED <<cur, excluded, recovered, lead, stats>>

FreshFailed(r) ==
  /\ pc[r] = "freshFailed"
  /\ LET class == ClassifyHTTPFailure(401, why[r])
     IN Write(cur[r], ApplyFailureDecision(acc[cur[r]], class, LongCooldown))
  /\ NextAttempt(r, TRUE)
  /\ UNCHANGED <<lead, stats>>

-----------------------------------------------------------------------------
(* One call of the provider.                                                *)

BuildFails(r) ==
  /\ pc[r] = "send"
  /\ Return(r, "failed") /\ RecordFailure
  /\ UNCHANGED <<store, lead>>

Succeed(r) ==
  /\ pc[r] = "send"
  /\ Write(cur[r], MarkSuccess(acc[cur[r]]))
  /\ Goto(r, "succeeded")
  /\ UNCHANGED <<locals, lead, stats>>

CountSuccess(r) ==    \* the second write of markSuccess
  /\ pc[r] = "succeeded"
  /\ Return(r, "served") /\ RecordSuccess
  /\ UNCHANGED <<store, lead>>

TransportFails(r) ==
  /\ pc[r] = "send"
  /\ Write(cur[r], ApplyFailureDecision(acc[cur[r]], "retryable_transport", 0))
  /\ NextAttempt(r, TRUE)
  /\ UNCHANGED <<lead, stats>>

StreamFails(r) ==     \* a stream that cannot be parsed, or that shows nothing
  /\ pc[r] = "send"
  /\ \E class \in {"retryable_transport", "empty_stream"} :
       Write(cur[r], ApplyFailureDecision(acc[cur[r]], class, 0))
  /\ NextAttempt(r, TRUE)
  /\ UNCHANGED <<lead, stats>>

AuthRejected(r) ==
  /\ pc[r] = "send"
  /\ \E status \in Statuses : RefreshAuth(status, recovered[r])
  /\ Goto(r, "recover")
  /\ UNCHANGED <<store, locals, lead, stats>>

ShapeRejected(r) ==
  /\ pc[r] = "send"
  /\ \E status \in Statuses, w \in Reasons :
       /\ ~RefreshAuth(status, recovered[r])
       /\ ClassifyHTTPFailure(status, w) = "request_shape"
  /\ Return(r, "failed") /\ RecordFailure
  /\ UNCHANGED <<store, lead>>

UpstreamFails(r) ==
  /\ pc[r] = "send"
  /\ \E status \in Statuses, w \in Reasons, left \in QuotaResets \cup {LongCooldown} :
       LET class == ClassifyHTTPFailure(status, w)
       IN /\ ~RefreshAuth(status, recovered[r])
          /\ class # "request_shape"
          /\ Write(cur[r], ApplyFailureDecision(acc[cur[r]], class, left))
          /\ NextAttempt(r, ExcludeAccount(status, w))
  /\ UNCHANGED <<lead, stats>>

-----------------------------------------------------------------------------
(* AuthRecoveryCoordinator.Recover: one leader per account refreshes the    *)
(* token, at most MaxRecoveries at a time; the others wait for its result.  *)

(* Fault: the active map is written without looking for a leader first.     *)
JoinRecoveryBlindly(r) ==
  /\ pc[r] = "recover"
  /\ Goto(r, "queued") /\ lead' = [lead EXCEPT ![cur[r]] = r]
  /\ UNCHANGED <<store, locals, stats>>

JoinRecovery(r) ==
  /\ pc[r] = "recover"
  /\ IF lead[cur[r]] = None
       THEN Goto(r, "queued") /\ lead' = [lead EXCEPT ![cur[r]] = r]
       ELSE Goto(r, "following") /\ UNCHANGED lead
  /\ UNCHANGED <<store, locals, stats>>

(* Fault: a leader does not wait for a slot.                                *)
TakeNoSlot(r) ==
  /\ pc[r] = "queued"
  /\ Goto(r, "leading")
  /\ UNCHANGED <<store, locals, lead, stats>>

TakeSlot(r) ==
  /\ pc[r] = "queued"
  /\ Cardinality({q \in Requests : pc[q] \in SlotPCs}) < MaxRecoveries
  /\ Goto(r, "leading")
  /\ UNCHANGED <<store, locals, lead, stats>>

LeaderCancelled(r) ==  \* the client left while its leader waited for a slot
  /\ pc[r] = "queued"
  /\ Because(r, "plain")
  /\ Goto(r, "publishing")
  /\ UNCHANGED <<store, cur, excluded, recovered, lead, stats>>

LeaderRenews(r) ==
  /\ pc[r] = "leading"
  /\ cur[r] \in present
  /\ Write(cur[r], TokenRenewed(acc[cur[r]]))
  /\ Goto(r, "renewed")
  /\ UNCHANGED <<locals, lead, stats>>

LeaderRejected(r) ==
  /\ pc[r] = "leading"
  /\ \E w \in AuthReasons :
       /\ Write(cur[r], RefreshRejected(acc[cur[r]], w))
       /\ Because(r, w)
  /\ Goto(r, "publishing")
  /\ UNCHANGED <<cur, excluded, recovered, lead, stats>>

(* A forced refresh also reads the account's quota, and its error is the    *)
(* refresh's error.  An account reported as blocked has a deactivated       *)
(* quota, though its old messages may deactivate it with no error at all.   *)
(* The read begins by asking for a fresh token, which may fail as well.     *)
LeaderReadsQuota(r) ==
  /\ pc[r] = "renewed"
  /\ \E reset \in QuotaResets \cup {0}, w \in AuthReasons \cup {"ok"} :
       /\ \/ \E status \in QuotaStatuses :
              /\ w = "blocked" => status = "deactivated"
              /\ Write(cur[r], ApplyQuotaSnapshot(acc[cur[r]], status, reset))
          \/ w # "ok" /\ Write(cur[r], QuotaAuthFailure(acc[cur[r]], w, reset))
       /\ cur[r] \notin present => w = "plain"
       /\ Because(r, w)
       /\ Goto(r, IF w = "ok" THEN "checking" ELSE "publishing")
  /\ UNCHANGED <<cur, excluded, recovered, lead, stats>>

LeaderChecks(r) ==
  /\ pc[r] = "checking"
  /\ \/ /\ cur[r] \in present => acc[cur[r]].enabled /\ ~acc[cur[r]].banned
        /\ Because(r, "ok")
     \/ /\ cur[r] \in present => ~acc[cur[r]].enabled \/ acc[cur[r]].banned
        /\ Because(r, "notReady")
  /\ Goto(r, "publishing")
  /\ UNCHANGED <<store, cur, excluded, recovered, lead, stats>>

(* The leader leaves the active map and wakes its followers.  They receive  *)
(* the refresh's own result: that the account was not ready is told to the  *)
(* leader alone.                                                            *)
Publish(r) ==
  LET followers == {q \in Requests : pc[q] = "following" /\ cur[q] = cur[r]}
      shared == IF why[r] = "notReady" THEN "ok" ELSE why[r]
      own == IF why[r] = "notReady" THEN "plain" ELSE why[r]
  IN /\ pc[r] = "publishing"
     /\ lead' = [lead EXCEPT ![cur[r]] = None]
     /\ why' = [q \in Requests |-> IF q = r THEN own
                                   ELSE IF q \in followers THEN shared
                                   ELSE why[q]]
     /\ pc' = [q \in Requests |-> IF q = r \/ q \in followers THEN "handed"
                                  ELSE pc[q]]
     /\ UNCHANGED <<store, cur, excluded, recovered, stats>>

FollowerCancelled(r) ==  \* the client left before the leader's result came
  /\ pc[r] = "following"
  /\ Because(r, "plain")
  /\ Goto(r, "handed")
  /\ UNCHANGED <<store, cur, excluded, recovered, lead, stats>>

(* Fault: the attempt does not remember that it has been recovered.         *)
SendAgainForgetful(r) ==
  /\ pc[r] = "handed"
  /\ why[r] = "ok"
  /\ Goto(r, "send")
  /\ UNCHANGED <<store, locals, lead, stats>>

SendAgain(r) ==
  /\ pc[r] = "handed"
  /\ why[r] = "ok"
  /\ recovered' = [recovered EXCEPT ![r] = TRUE]
  /\ Goto(r, "send")
  /\ UNCHANGED <<store, cur, excluded, why, lead, stats>>

RecoveryFailed(r) ==
  /\ pc[r] = "handed"
  /\ why[r] # "ok"
  /\ LET class == ClassifyHTTPFailure(401, why[r])
     IN Write(cur[r], ApplyFailureDecision(acc[cur[r]], class, LongCooldown))
  /\ NextAttempt(r, ExcludeAccount(ReportedStatus(401, why[r]), why[r]))
  /\ UNCHANGED <<lead, stats>>

-----------------------------------------------------------------------------
(* Everybody else.                                                          *)

Rest == UNCHANGED <<pc, locals, lead, stats>>
Others == (\E a \in Disturbed : Disturb(a)) /\ Rest
Tick == TimePasses /\ Rest

-----------------------------------------------------------------------------
Step(r) ==
  \/ RejectModel(r) \/ RejectUnready(r) \/ Admit(r) \/ Pick(r) \/ GiveUp(r)
  \/ TokenFresh(r) \/ RenewToken(r) \/ RenewFails(r) \/ FreshFailed(r)
  \/ BuildFails(r) \/ Succeed(r) \/ CountSuccess(r)
  \/ TransportFails(r) \/ StreamFails(r) \/ AuthRejected(r)
  \/ ShapeRejected(r) \/ UpstreamFails(r)
  \/ JoinRecovery(r) \/ TakeSlot(r) \/ LeaderCancelled(r) \/ LeaderRenews(r)
  \/ LeaderRejected(r) \/ LeaderReadsQuota(r) \/ LeaderChecks(r) \/ Publish(r)
  \/ FollowerCancelled(r) \/ SendAgain(r) \/ RecoveryFailed(r)

Next ==
  \/ \E r \in Requests : Step(r)
  \/ Others
  \/ Tick

Spec == Init /\ [][Next]_vars

(* Every call a request makes returns: the HTTP clients have timeouts, the  *)
(* store's mutex is held for a write only, and the scheduler runs every     *)
(* goroutine.  A channel serves its waiting senders in turn, so a queued    *)
(* leader gets a slot that keeps becoming free.  Nothing is assumed of the  *)
(* clients (they need not send or cancel), the owner or the clock.          *)
Served(r) ==
  /\ Step(r)
  /\ pc[r] # "new"
  /\ ~LeaderCancelled(r) /\ ~FollowerCancelled(r)

Fairness == \A r \in Requests : WF_vars(Served(r)) /\ SF_vars(TakeSlot(r))

FairSpec == Spec /\ Fairness

-----------------------------------------------------------------------------
TypeOK ==
  /\ StoreTypeOK
  /\ pc \in [Requests -> PCs]
  /\ cur \in [Requests -> Accounts \cup {None}]
  /\ excluded \in [Requests -> SUBSET Accounts]
  /\ recovered \in [Requests -> BOOLEAN]
  /\ why \in [Requests -> AuthReasons \cup {"ok", "notReady"}]
  /\ lead \in [Accounts -> Requests \cup {None}]
  /\ stats \in [total : Nat, success : Nat, failed : Nat]

(* The proxy's counters: when no success is half recorded, they add up and  *)
(* are exactly the requests answered, on every one of the return paths of   *)
(* Complete; a success in between is the only gap.                          *)
EveryRequestCountedOnce ==
  /\ stats.success = Cardinality({r \in Requests : pc[r] = "served"})
  /\ stats.failed = Cardinality({r \in Requests : pc[r] = "failed"})
  /\ stats.total = stats.success + stats.failed

(* A request refreshes a rejected token at most once per account it picks:  *)
(* an attempt that is in recovery has not been recovered before.            *)
OneRecoveryPerPick ==
  \A r \in Requests : pc[r] \in RecoveryPCs => ~recovered[r]

(* The active map has exactly the recoveries under way, one leader for each *)
(* account, and whoever waits for a result has a leader to produce it.      *)
RecoveryHasLeader ==
  /\ \A r \in Requests : pc[r] \in LeaderPCs => lead[cur[r]] = r
  /\ \A r \in Requests : pc[r] = "following" => lead[cur[r]] # None
  /\ \A a \in Accounts : lead[a] # None => pc[lead[a]] \in LeaderPCs /\ cur[lead[a]] = a

(* A request never runs an attempt on an account it has given up.           *)
ExcludedIsLeft ==
  \A r \in Requests :
    pc[r] \in {"fresh", "freshFailed", "send"} \cup RecoveryPCs => cur[r] \notin excluded[r]

(* A quota hold outlives the other writers of the account: a dropped        *)
(* connection, an unreadable stream, a renewed token, the owner switching   *)
(* the account or clearing its backoff, each of which overwrites the        *)
(* cooldown, leave the account out of rotation until the quota resets.      *)
LeavesQuotaAlone(a) ==
  \/ \E r \in Requests : TransportFails(r) \/ StreamFails(r) \/ RenewToken(r) \/ LeaderRenews(r)
  \/ \E on \in BOOLEAN : OwnerSwitches(a, on)
  \/ OwnerClears(a)
QuotaHoldSurvives ==
  [][\A a \in Accounts :
       QuotaHeld(acc[a]) /\ LeavesQuotaAlone(a)
         => QuotaHeld(acc'[a]) /\ acc'[a].reset >= acc[a].reset]_vars

(* When an attempt fails, the request either gives the account up or leaves *)
(* it out of rotation, so that it cannot pick the same account again before *)
(* some cooldown has run: no path of the retry loop spins.                  *)
FailureRestsAccount ==
  [][\A r \in Requests, a \in Accounts :
       cur[r] = a /\ pc[r] \in {"send", "handed", "freshFailed"} /\ pc'[r] = "pick"
         => a \in excluded'[r] \/ ~Ready(a)']_vars

(* A request that was admitted is answered, unless again and again one of   *)
(* its attempts fails with a failure that rests the account but does not    *)
(* exclude it: only then can it pick the account once more.                 *)
KeptAfterFailure(r) ==
  pc[r] \in {"send", "handed"} /\ pc'[r] = "pick" /\ cur[r] \notin excluded'[r]
AnsweredUnlessKept ==
  \A r \in Requests :
    (pc[r] = "pick" ~> pc[r] \in Finished) \/ []<><<KeptAfterFailure(r)>>_vars

(* Requests whose token was rejected share recoveries: one refresh for all  *)
(* that ask for an account meanwhile, its result for everyone who stayed,   *)
(* and never more refreshes at once than there are slots.                   *)
Verdict(reason) == IF reason \in {"ok", "notReady"} THEN reason ELSE "failed"
StageOf(leader) ==
  IF pc[leader] = "queued" THEN "waiting"
  ELSE IF pc[leader] \in SlotPCs THEN "refreshing" ELSE Verdict(why[leader])
RecoveryStage ==
  [a \in Accounts |-> IF lead[a] = None THEN "idle" ELSE StageOf(lead[a])]
RecoveryGroup ==
  [a \in Accounts |->
     {r \in Requests : pc[r] \in LeaderPCs \cup {"following"} /\ cur[r] = a}]
RecoveryTold ==
  [r \in Requests |->
     IF pc[r] # "handed" THEN "none" ELSE IF why[r] = "ok" THEN "ok" ELSE "failed"]
Recovery == INSTANCE AuthRecovery
              WITH stage <- RecoveryStage, group <- RecoveryGroup, told <- RecoveryTold
SharesRecovery == Recovery!Spec
=============================================================================
