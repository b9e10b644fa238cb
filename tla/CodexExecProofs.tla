-------------------------- MODULE CodexExecProofs --------------------------
(***************************************************************************)
(* What CodexExec promises for any number of accounts and requests, any    *)
(* backoff table and any cooldowns.                                        *)
(***************************************************************************)
EXTENDS CodexExec, AccountStoreProofs, FiniteSetTheorems

(* Where a request has an account in hand.                                  *)
AttemptPCs == {"fresh", "freshFailed", "send", "succeeded"} \cup RecoveryPCs
InHand == \A r \in Requests : pc[r] \in AttemptPCs => cur[r] \in Accounts

IInv == /\ TypeOK
        /\ HealthAgrees
        /\ InHand
        /\ OneRecoveryPerPick
        /\ RecoveryHasLeader
        /\ ExcludedIsLeft

-----------------------------------------------------------------------------
(* Every step of a request rewrites an account in one of the ways           *)
(* Rewritten lists.                                                         *)
LEMMA StepRewrites ==
  ASSUME TypeOK, NEW r \in Requests, Step(r)
  PROVE  StoreStep
<1> StoreTypeOK
  BY DEF TypeOK
<1> DEFINE x == acc[cur[r]]
<1>1. CASE RenewToken(r) \/ LeaderRenews(r)
  <2>1. Rewritten(x, TokenRenewed(x))
    BY DEF Rewritten
  <2> QED
    BY <1>1, <2>1, WriteRewrites DEF RenewToken, LeaderRenews
<1>2. CASE RenewFails(r) \/ LeaderRejected(r)
  <2>1. PICK w \in AuthReasons : Write(cur[r], RefreshRejected(x, w))
    BY <1>2 DEF RenewFails, LeaderRejected
  <2>2. Rewritten(x, RefreshRejected(x, w))
    BY Choices DEF Rewritten
  <2> QED
    BY <2>1, <2>2, WriteRewrites
<1>3. ASSUME NEW class \in FailureClasses, NEW left \in Nat, left > 0,
             Write(cur[r], ApplyFailureDecision(x, class, left))
      PROVE  StoreStep
  <2>1. Rewritten(x, ApplyFailureDecision(x, class, left))
    BY <1>3 DEF Rewritten
  <2> QED
    BY <1>3, <2>1, WriteRewrites
<1>4. CASE FreshFailed(r) \/ RecoveryFailed(r)
  <2>1. Write(cur[r], ApplyFailureDecision(x, ClassifyHTTPFailure(401, why[r]), LongCooldown))
    BY <1>4 DEF FreshFailed, RecoveryFailed
  <2> QED
    BY <1>3, <2>1, ClassIsClass, Choices
<1>5. CASE Succeed(r)
  <2>1. Rewritten(x, MarkSuccess(x))
    BY DEF Rewritten
  <2> QED
    BY <1>5, <2>1, WriteRewrites DEF Succeed
<1>6. CASE TransportFails(r) \/ StreamFails(r)
  <2>1. PICK class \in {"retryable_transport", "empty_stream"} :
          Write(cur[r], ApplyFailureDecision(x, class, 0))
    BY <1>6 DEF TransportFails, StreamFails
  <2>2. class \in FailureClasses
    BY DEF FailureClasses
  <2>3. ApplyFailureDecision(x, class, 0) = ApplyFailureDecision(x, class, 1)
    BY DEF ApplyFailureDecision
  <2> QED
    BY <1>3, <2>1, <2>2, <2>3
<1>7. CASE UpstreamFails(r)
  <2>1. PICK status \in Statuses, w \in Reasons, left \in QuotaResets \cup {LongCooldown} :
          Write(cur[r], ApplyFailureDecision(x, ClassifyHTTPFailure(status, w), left))
    BY <1>7 DEF UpstreamFails
  <2> QED
    BY <1>3, <2>1, ClassIsClass, Choices
<1>8. CASE LeaderReadsQuota(r)
  <2>1. PICK reset \in QuotaResets \cup {0}, w \in AuthReasons \cup {"ok"} :
          \/ \E status \in QuotaStatuses : Write(cur[r], ApplyQuotaSnapshot(x, status, reset))
          \/ w # "ok" /\ Write(cur[r], QuotaAuthFailure(x, w, reset))
    BY <1>8 DEF LeaderReadsQuota
  <2>2. \A status \in QuotaStatuses : Rewritten(x, ApplyQuotaSnapshot(x, status, reset))
    BY Choices DEF Rewritten
  <2>3. w # "ok" => Rewritten(x, QuotaAuthFailure(x, w, reset))
    BY Choices DEF Rewritten, Reasons
  <2> QED
    BY <2>1, <2>2, <2>3, WriteRewrites
<1>9. CASE UNCHANGED store
  BY <1>9, StoreKept DEF store
<1> QED
  BY <1>1, <1>2, <1>4, <1>5, <1>6, <1>7, <1>8, <1>9
  DEF Step, RejectModel, RejectUnready, Admit, Pick, GiveUp, TokenFresh, BuildFails, CountSuccess,
      AuthRejected, ShapeRejected, JoinRecovery, TakeSlot, LeaderCancelled, LeaderChecks,
      Publish, FollowerCancelled, SendAgain

LEMMA NextRewrites ==
  ASSUME TypeOK, [Next]_vars
  PROVE  StoreStep
<1> StoreTypeOK
  BY DEF TypeOK
<1>1. CASE \E r \in Requests : Step(r)
  BY <1>1, StepRewrites
<1>2. CASE Others
  BY <1>2, DisturbRewrites, SetsAssumption DEF Others
<1>3. CASE Tick
  BY <1>3, TimeRewrites DEF Tick
<1>4. CASE UNCHANGED vars
  BY <1>4, StoreKept DEF vars
<1> QED
  BY <1>1, <1>2, <1>3, <1>4 DEF Next

-----------------------------------------------------------------------------
(* The ways a request's own step can change the requests: it returns, goes  *)
(* on to the next attempt, moves within its attempt, or takes one of the    *)
(* four steps that change something more.                                   *)
ActivePCs == {"fresh", "freshFailed", "send"} \cup RecoveryPCs
Whys == AuthReasons \cup {"ok", "notReady"}

Returns(r) ==
  /\ pc[r] \notin LeaderPCs
  /\ \E label \in Finished : Return(r, label)
  /\ UNCHANGED lead

TriesNext(r) ==
  /\ pc[r] \in {"freshFailed", "send", "handed"}
  /\ \E leave \in BOOLEAN : NextAttempt(r, leave)
  /\ UNCHANGED lead

Moves(r) ==
  /\ \E label \in PCs :
       /\ Goto(r, label)
       /\ label \in ActivePCs \cup {"succeeded"} => pc[r] \in ActivePCs
       /\ label \in RecoveryPCs => pc[r] \in RecoveryPCs \/ ~recovered[r]
       /\ label \in LeaderPCs <=> pc[r] \in LeaderPCs
       /\ label # "following"
  /\ \E w \in Whys : Because(r, w)
  /\ UNCHANGED <<cur, excluded, recovered, lead>>

LEMMA WhyKept ==
  ASSUME TypeOK, NEW r \in Requests, UNCHANGED why
  PROVE  \E w \in Whys : Because(r, w)
<1>1. why[r] \in Whys /\ why' = [why EXCEPT ![r] = why[r]]
  BY DEF TypeOK, Whys
<1> QED
  BY <1>1 DEF Because

LEMMA StepShapes ==
  ASSUME TypeOK, NEW r \in Requests, Step(r)
  PROVE  \/ Returns(r) \/ TriesNext(r) \/ Moves(r)
         \/ Pick(r) \/ SendAgain(r) \/ JoinRecovery(r) \/ Publish(r)
<1> USE DEF PCs, ActivePCs, RecoveryPCs, LeaderPCs, SlotPCs, Finished, locals
<1>1. CASE RejectModel(r) \/ RejectUnready(r) \/ GiveUp(r) \/ BuildFails(r)
             \/ CountSuccess(r) \/ ShapeRejected(r)
  BY <1>1 DEF RejectModel, RejectUnready, GiveUp, BuildFails, CountSuccess, ShapeRejected, Returns
<1>2. CASE FreshFailed(r) \/ TransportFails(r) \/ StreamFails(r)
  BY <1>2 DEF FreshFailed, TransportFails, StreamFails, TriesNext
<1>3. CASE UpstreamFails(r) \/ RecoveryFailed(r)
  <2>1. ASSUME NEW status, NEW w PROVE ExcludeAccount(status, w) \in BOOLEAN
    BY DEF ExcludeAccount, RetryAllowed
  <2> QED
    BY <1>3, <2>1 DEF UpstreamFails, RecoveryFailed, TriesNext
<1>4. CASE Admit(r) \/ TokenFresh(r) \/ RenewToken(r) \/ Succeed(r) \/ TakeSlot(r) \/ LeaderRenews(r)
  <2>1. UNCHANGED <<cur, excluded, recovered, lead>> /\ \E w \in Whys : Because(r, w)
    BY <1>4, WhyKept DEF Admit, TokenFresh, RenewToken, Succeed, TakeSlot, LeaderRenews
  <2> QED
    BY <1>4, <2>1 DEF Admit, TokenFresh, RenewToken, Succeed, TakeSlot, LeaderRenews, Moves
<1>5. CASE AuthRejected(r)
  <2>1. UNCHANGED <<cur, excluded, recovered, lead>> /\ \E w \in Whys : Because(r, w)
    BY <1>5, WhyKept DEF AuthRejected
  <2>2. ~recovered[r]
    BY <1>5 DEF AuthRejected, RefreshAuth
  <2> QED
    BY <1>5, <2>1, <2>2 DEF AuthRejected, Moves
<1>6. CASE RenewFails(r) \/ LeaderCancelled(r) \/ LeaderRejected(r) \/ LeaderChecks(r)
             \/ FollowerCancelled(r)
  <2>1. UNCHANGED <<cur, excluded, recovered, lead>> /\ \E w \in Whys : Because(r, w)
    BY <1>6 DEF RenewFails, LeaderCancelled, LeaderRejected, LeaderChecks, FollowerCancelled,
                Whys, AuthReasons
  <2> QED
    BY <1>6, <2>1
    DEF RenewFails, LeaderCancelled, LeaderRejected, LeaderChecks, FollowerCancelled, Moves
<1>7. CASE LeaderReadsQuota(r)
  <2>1. UNCHANGED <<cur, excluded, recovered, lead>> /\ \E w \in Whys : Because(r, w)
    BY <1>7 DEF LeaderReadsQuota, Whys
  <2>2. pc[r] = "renewed" /\ (Goto(r, "checking") \/ Goto(r, "publishing"))
    BY <1>7 DEF LeaderReadsQuota
  <2> QED
    BY <2>1, <2>2 DEF Moves
<1> QED
  BY <1>1, <1>2, <1>3, <1>4, <1>5, <1>6, <1>7 DEF Step

(* Nothing but a request's own step moves a request.                        *)
LEMMA OthersRest ==
  ASSUME Others \/ Tick \/ UNCHANGED vars
  PROVE  UNCHANGED <<pc, cur, excluded, recovered, why, lead, stats>>
BY DEF Others, Tick, Rest, vars, locals

-----------------------------------------------------------------------------
(* The inductive invariant.                                                 *)

LEMMA StatsTyped ==
  ASSUME TypeOK, NEW r \in Requests, Step(r)
  PROVE  stats' \in [total : Nat, success : Nat, failed : Nat]
<1>0. stats.total + 1 \in Nat /\ stats.success + 1 \in Nat /\ stats.failed + 1 \in Nat
  BY DEF TypeOK
<1>1. CASE RejectModel(r) \/ RejectUnready(r) \/ GiveUp(r) \/ BuildFails(r) \/ ShapeRejected(r)
  <2>1. RecordFailure
    BY <1>1 DEF RejectModel, RejectUnready, GiveUp, BuildFails, ShapeRejected
  <2> QED
    BY <1>0, <2>1, Zenon DEF TypeOK, RecordFailure
<1>2. CASE CountSuccess(r)
  <2>1. RecordSuccess
    BY <1>2 DEF CountSuccess
  <2> QED
    BY <1>0, <2>1, Zenon DEF TypeOK, RecordSuccess
<1>3. CASE UNCHANGED stats
  BY <1>3 DEF TypeOK
<1> QED
  BY <1>1, <1>2, <1>3 DEF Step, FreshFailed, TransportFails, StreamFails, UpstreamFails,
     RecoveryFailed, Admit, TokenFresh, RenewToken, Succeed, TakeSlot, LeaderRenews, AuthRejected,
     RenewFails, LeaderCancelled, LeaderRejected, LeaderChecks, FollowerCancelled,
     LeaderReadsQuota, Pick, SendAgain, JoinRecovery, Publish

LEMMA RequestsTyped ==
  ASSUME TypeOK, InHand, NEW r \in Requests, Step(r)
  PROVE  /\ pc' \in [Requests -> PCs]
         /\ cur' \in [Requests -> Accounts \cup {None}]
         /\ excluded' \in [Requests -> SUBSET Accounts]
         /\ recovered' \in [Requests -> BOOLEAN]
         /\ why' \in [Requests -> AuthReasons \cup {"ok", "notReady"}]
         /\ lead' \in [Accounts -> Requests \cup {None}]
<1> USE DEF TypeOK
<1>0. /\ {"pick", "fresh", "send", "queued", "following", "handed"} \cup Finished \subseteq PCs
      /\ "ok" \in AuthReasons \cup {"ok", "notReady"}
  BY DEF PCs, RecoveryPCs, LeaderPCs
<1>1. CASE Returns(r)
  BY <1>0, <1>1 DEF Returns, Return, Goto
<1>2. CASE TriesNext(r)
  <2>1. cur[r] \in Accounts
    BY <1>2 DEF TriesNext, InHand, AttemptPCs, RecoveryPCs
  <2> QED
    BY <1>0, <1>2, <2>1 DEF TriesNext, NextAttempt, Goto
<1>3. CASE Moves(r)
  BY <1>3 DEF Moves, Goto, Because, Whys
<1>4. CASE Pick(r)
  BY <1>0, <1>4 DEF Pick, Goto
<1>5. CASE SendAgain(r)
  BY <1>0, <1>5 DEF SendAgain, Goto
<1>6. CASE JoinRecovery(r)
  BY <1>0, <1>6 DEF JoinRecovery, Goto, locals
<1>7. CASE Publish(r)
  <2>1. "plain" \in AuthReasons
    BY DEF AuthReasons
  <2> QED
    BY <1>0, <1>7, <2>1 DEF Publish
<1> QED
  BY <1>1, <1>2, <1>3, <1>4, <1>5, <1>6, <1>7, StepShapes

LEMMA InHandKept ==
  ASSUME TypeOK, InHand, NEW r \in Requests, Step(r)
  PROVE  InHand'
<1> USE DEF TypeOK, InHand, AttemptPCs
<1>0. Finished \cap AttemptPCs = {} /\ "pick" \notin AttemptPCs
  BY DEF Finished, RecoveryPCs, LeaderPCs, SlotPCs
<1>1. CASE Returns(r)
  BY <1>0, <1>1 DEF Returns, Return, Goto
<1>2. CASE TriesNext(r)
  BY <1>0, <1>2 DEF TriesNext, NextAttempt, Goto
<1>3. CASE Moves(r)
  BY <1>3 DEF Moves, Goto, ActivePCs
<1>4. CASE Pick(r)
  BY <1>4 DEF Pick, Goto
<1>5. CASE SendAgain(r)
  BY <1>5 DEF SendAgain, Goto, RecoveryPCs
<1>6. CASE JoinRecovery(r)
  BY <1>6 DEF JoinRecovery, Goto, RecoveryPCs, LeaderPCs, locals
<1>7. CASE Publish(r)
  BY <1>7 DEF Publish, RecoveryPCs, LeaderPCs
<1> QED
  BY <1>1, <1>2, <1>3, <1>4, <1>5, <1>6, <1>7, StepShapes

LEMMA OneRecoveryKept ==
  ASSUME TypeOK, OneRecoveryPerPick, NEW r \in Requests, Step(r)
  PROVE  OneRecoveryPerPick'
<1> USE DEF TypeOK, OneRecoveryPerPick
<1>0. /\ Finished \cap RecoveryPCs = {}
      /\ {"pick", "fresh", "send"} \cap RecoveryPCs = {}
  BY DEF Finished, RecoveryPCs, LeaderPCs, SlotPCs
<1>1. CASE Returns(r)
  BY <1>0, <1>1 DEF Returns, Return, Goto
<1>2. CASE TriesNext(r)
  BY <1>0, <1>2 DEF TriesNext, NextAttempt, Goto
<1>3. CASE Moves(r)
  BY <1>3 DEF Moves, Goto
<1>4. CASE Pick(r)
  BY <1>0, <1>4 DEF Pick, Goto
<1>5. CASE SendAgain(r)
  BY <1>0, <1>5 DEF SendAgain, Goto
<1>6. CASE JoinRecovery(r)
  BY <1>6 DEF JoinRecovery, Goto, RecoveryPCs, locals
<1>7. CASE Publish(r)
  BY <1>7 DEF Publish, RecoveryPCs, LeaderPCs
<1> QED
  BY <1>1, <1>2, <1>3, <1>4, <1>5, <1>6, <1>7, StepShapes

LEMMA ExcludedKept ==
  ASSUME TypeOK, ExcludedIsLeft, NEW r \in Requests, Step(r)
  PROVE  ExcludedIsLeft'
<1> USE DEF TypeOK, ExcludedIsLeft
<1>0. /\ Finished \cap ({"fresh", "freshFailed", "send"} \cup RecoveryPCs) = {}
      /\ "pick" \notin {"fresh", "freshFailed", "send"} \cup RecoveryPCs
  BY DEF Finished, RecoveryPCs, LeaderPCs, SlotPCs
<1>1. CASE Returns(r)
  BY <1>0, <1>1 DEF Returns, Return, Goto
<1>2. CASE TriesNext(r)
  BY <1>0, <1>2 DEF TriesNext, NextAttempt, Goto
<1>3. CASE Moves(r)
  BY <1>3 DEF Moves, Goto, ActivePCs
<1>4. CASE Pick(r)
  BY <1>4 DEF Pick, Goto
<1>5. CASE SendAgain(r)
  BY <1>5 DEF SendAgain, Goto, RecoveryPCs
<1>6. CASE JoinRecovery(r)
  BY <1>6 DEF JoinRecovery, Goto, RecoveryPCs, locals
<1>7. CASE Publish(r)
  BY <1>7 DEF Publish, RecoveryPCs, LeaderPCs
<1> QED
  BY <1>1, <1>2, <1>3, <1>4, <1>5, <1>6, <1>7, StepShapes

LEMMA LeaderKept ==
  ASSUME TypeOK, InHand, RecoveryHasLeader, NEW r \in Requests, Step(r)
  PROVE  RecoveryHasLeader'
<1> USE SetsAssumption DEF TypeOK, RecoveryHasLeader
<1>0. /\ Finished \cap (LeaderPCs \cup {"following"}) = {}
      /\ {"pick", "fresh", "send", "following", "handed"} \cap LeaderPCs = {}
      /\ {"freshFailed", "recover"} \cap LeaderPCs = {}
      /\ {"queued", "publishing"} \subseteq LeaderPCs
  BY DEF Finished, LeaderPCs, SlotPCs
<1>1. CASE Returns(r)
  BY <1>0, <1>1 DEF Returns, Return, Goto
<1>2. CASE TriesNext(r)
  BY <1>0, <1>2 DEF TriesNext, NextAttempt, Goto
<1>3. CASE Moves(r)
  BY <1>3 DEF Moves, Goto
<1>4. CASE Pick(r)
  BY <1>0, <1>4 DEF Pick, Goto
<1>5. CASE SendAgain(r)
  BY <1>0, <1>5 DEF SendAgain, Goto
<1>6. CASE JoinRecovery(r)
  <2>1. cur[r] \in Accounts /\ pc[r] = "recover" /\ pc[r] \notin LeaderPCs /\ UNCHANGED cur
    BY <1>0, <1>6 DEF JoinRecovery, InHand, AttemptPCs, RecoveryPCs, locals
  <2>2. CASE lead[cur[r]] = None
    <3>1. /\ pc' = [pc EXCEPT ![r] = "queued"]
          /\ lead' = [lead EXCEPT ![cur[r]] = r]
      BY <1>6, <2>2 DEF JoinRecovery, Goto
    <3>2. \A q \in Requests : pc'[q] \in LeaderPCs => lead'[cur[q]] = q
      BY <2>1, <2>2, <3>1
    <3>3. \A q \in Requests : pc'[q] = "following" => lead'[cur[q]] # None
      BY <2>1, <3>1
    <3>4. \A a \in Accounts :
            lead'[a] # None => pc'[lead'[a]] \in LeaderPCs /\ cur[lead'[a]] = a
      BY <1>0, <2>1, <3>1
    <3> QED
      BY <2>1, <3>2, <3>3, <3>4
  <2>3. CASE lead[cur[r]] # None
    BY <1>0, <1>6, <2>1, <2>3 DEF JoinRecovery, Goto
  <2> QED
    BY <2>2, <2>3
<1>7. CASE Publish(r)
  <2>1. cur[r] \in Accounts /\ pc[r] = "publishing" /\ lead[cur[r]] = r
    BY <1>0, <1>7 DEF Publish, InHand, AttemptPCs, RecoveryPCs, LeaderPCs
  <2>2. /\ UNCHANGED cur
        /\ lead' = [lead EXCEPT ![cur[r]] = None]
        /\ \A q \in Requests :
             pc'[q] = IF q = r \/ (pc[q] = "following" /\ cur[q] = cur[r]) THEN "handed" ELSE pc[q]
    BY <1>7 DEF Publish
  <2>3. ASSUME NEW q \in Requests, pc'[q] \in LeaderPCs PROVE lead'[cur[q]] = q
    <3>1. q # r /\ pc[q] \in LeaderPCs /\ lead[cur[q]] = q
      BY <1>0, <2>2, <2>3
    <3> QED
      BY <2>1, <2>2, <3>1
  <2>4. ASSUME NEW q \in Requests, pc'[q] = "following" PROVE lead'[cur[q]] # None
    <3>1. pc[q] = "following" /\ cur[q] # cur[r] /\ lead[cur[q]] # None
      BY <2>2, <2>4
    <3> QED
      BY <2>1, <2>2, <3>1
  <2>5. ASSUME NEW a \in Accounts, lead'[a] # None
        PROVE  pc'[lead'[a]] \in LeaderPCs /\ cur[lead'[a]] = a
    <3>1. a # cur[r] /\ lead'[a] = lead[a] /\ lead[a] \in Requests
      BY <2>1, <2>2, <2>5
    <3>2. pc[lead[a]] \in LeaderPCs /\ cur[lead[a]] = a
      BY <2>5, <3>1
    <3> QED
      BY <1>0, <2>2, <3>1, <3>2
  <2> QED
    BY <2>2, <2>3, <2>4, <2>5
<1> QED
  BY <1>1, <1>2, <1>3, <1>4, <1>5, <1>6, <1>7, StepShapes

LEMMA InitIInv == Init => IInv
<1> SUFFICES ASSUME Init PROVE IInv
  OBVIOUS
<1>1. StoreTypeOK /\ HealthAgrees
  BY StoreInitial DEF Init
<1>2. "new" \in PCs /\ "new" \notin AttemptPCs
  BY DEF PCs, AttemptPCs, RecoveryPCs, LeaderPCs, SlotPCs
<1> QED
  BY <1>1, <1>2, SetsAssumption
  DEF Init, IInv, TypeOK, InHand, OneRecoveryPerPick, RecoveryHasLeader,
      ExcludedIsLeft, AttemptPCs, RecoveryPCs, LeaderPCs

LEMMA NextIInv == IInv /\ [Next]_vars => IInv'
<1> SUFFICES ASSUME IInv, [Next]_vars PROVE IInv'
  OBVIOUS
<1>1. StoreTypeOK' /\ HealthAgrees'
  BY NextRewrites, StoreTyped DEF IInv, TypeOK
<1>2. CASE \E r \in Requests : Step(r)
  <2>1. PICK r \in Requests : Step(r)
    BY <1>2
  <2>2. TypeOK'
    BY <1>1, <2>1, StatsTyped, RequestsTyped DEF IInv, TypeOK
  <2> QED
    BY <1>1, <2>1, <2>2, InHandKept, OneRecoveryKept, ExcludedKept, LeaderKept DEF IInv
<1>3. CASE Others \/ Tick \/ UNCHANGED vars
  <2>1. UNCHANGED <<pc, cur, excluded, recovered, why, lead, stats>>
    BY <1>3, OthersRest
  <2> QED
    BY <1>1, <2>1
    DEF IInv, TypeOK, InHand, OneRecoveryPerPick, RecoveryHasLeader, ExcludedIsLeft
<1> QED
  BY <1>2, <1>3 DEF Next

-----------------------------------------------------------------------------
(* The variables keep their types, the label of every account agrees with   *)
(* its flags, an attempt refreshes its token once, recoveries have one      *)
(* leader each and a request leaves an account it has given up alone: in    *)
(* every reachable state, whoever writes the accounts meanwhile.            *)
THEOREM Invariance == Spec => []IInv
BY InitIInv, NextIInv, PTL DEF Spec

THEOREM TypeCorrect == Spec => []TypeOK
<1>1. IInv => TypeOK
  BY DEF IInv
<1> QED
  BY <1>1, Invariance, PTL

(* The health label written by Service.markSuccess, the mark functions of   *)
(* the store, the token refresh and the quota service agrees with the flags.*)
THEOREM HealthAgreesAlways == Spec => []HealthAgrees
<1>1. IInv => HealthAgrees
  BY DEF IInv
<1> QED
  BY <1>1, Invariance, PTL

(* RetryPlanner.Decide and recoveredAuth bound the refreshes of an attempt. *)
THEOREM OneRecoveryAlways == Spec => []OneRecoveryPerPick
<1>1. IInv => OneRecoveryPerPick
  BY DEF IInv
<1> QED
  BY <1>1, Invariance, PTL

(* AuthRecoveryCoordinator has one leader per account and no orphan waits.  *)
THEOREM RecoveryHasLeaderAlways == Spec => []RecoveryHasLeader
<1>1. IInv => RecoveryHasLeader
  BY DEF IInv
<1> QED
  BY <1>1, Invariance, PTL

(* Complete's excluded map is honoured by every attempt.                    *)
THEOREM ExcludedIsLeftAlways == Spec => []ExcludedIsLeft
<1>1. IInv => ExcludedIsLeft
  BY DEF IInv
<1> QED
  BY <1>1, Invariance, PTL

(* Only the owner, by the switch or by a login, returns a switched-off      *)
(* account to the pool.                                                     *)
THEOREM OnlyOwnerReturns == Spec => OnlyOwnerReturnsAccount
<1> DEFINE Returned ==
      \A a \in Accounts :
        SwitchedOff(acc[a]) /\ Available(acc'[a]) => OwnerSwitches(a, TRUE) \/ OwnerConnects(a)
<1>1. IInv /\ [Next]_vars => [Returned]_store
  <2> SUFFICES ASSUME IInv, [Next]_vars PROVE Returned
    OBVIOUS
  <2>1. StoreTypeOK /\ HealthAgrees /\ StoreStep
    BY NextRewrites DEF IInv, TypeOK
  <2> QED
    BY <2>1, OwnerAloneReturns DEF OwnerReturns
<1> QED
  BY <1>1, Invariance, PTL DEF Spec, OnlyOwnerReturnsAccount
-----------------------------------------------------------------------------
(* The counters.                                                            *)

With(label) == {r \in Requests : pc[r] = label}

LEMMA Counting ==
  ASSUME TypeOK, NEW r \in Requests, Step(r)
  PROVE  \/ RecordFailure /\ pc[r] \notin Finished /\ Goto(r, "failed")
         \/ RecordSuccess /\ pc[r] \notin Finished /\ Goto(r, "served")
         \/ /\ UNCHANGED stats
            /\ \A label \in Finished, q \in Requests : pc'[q] = label <=> pc[q] = label
<1> USE DEF TypeOK, Finished
<1>1. CASE RejectModel(r) \/ RejectUnready(r) \/ GiveUp(r) \/ BuildFails(r) \/ ShapeRejected(r)
  BY <1>1 DEF RejectModel, RejectUnready, GiveUp, BuildFails, ShapeRejected, Return
<1>2. CASE CountSuccess(r)
  BY <1>2 DEF CountSuccess, Return
<1>3. CASE FreshFailed(r) \/ TransportFails(r) \/ StreamFails(r) \/ UpstreamFails(r)
             \/ RecoveryFailed(r)
  <2>1. UNCHANGED stats /\ pc[r] \in {"freshFailed", "send", "handed"} /\ Goto(r, "pick")
    BY <1>3 DEF FreshFailed, TransportFails, StreamFails, UpstreamFails, RecoveryFailed, NextAttempt
  <2> QED
    BY <2>1 DEF Goto
<1>4. CASE Admit(r) \/ Pick(r) \/ TokenFresh(r) \/ RenewToken(r) \/ RenewFails(r) \/ Succeed(r)
             \/ AuthRejected(r)
  <2>1. /\ UNCHANGED stats
        /\ pc[r] \in {"new", "pick", "fresh", "send"}
        /\ \E label \in {"pick", "fresh", "send", "freshFailed", "succeeded", "recover"} :
             Goto(r, label)
    BY <1>4 DEF Admit, Pick, TokenFresh, RenewToken, RenewFails, Succeed, AuthRejected
  <2> QED
    BY <2>1 DEF Goto
<1>5. CASE JoinRecovery(r) \/ TakeSlot(r) \/ LeaderCancelled(r) \/ LeaderRenews(r)
             \/ LeaderRejected(r) \/ LeaderReadsQuota(r) \/ LeaderChecks(r)
             \/ FollowerCancelled(r) \/ SendAgain(r)
  <2>1. /\ UNCHANGED stats
        /\ pc[r] \in {"recover", "queued", "leading", "renewed", "checking", "following", "handed"}
        /\ \E label \in {"queued", "following", "leading", "publishing", "renewed", "checking",
                         "handed", "send"} : Goto(r, label)
    BY <1>5 DEF JoinRecovery, TakeSlot, LeaderCancelled, LeaderRenews, LeaderRejected,
                LeaderReadsQuota, LeaderChecks, FollowerCancelled, SendAgain
  <2> QED
    BY <2>1 DEF Goto
<1>6. CASE Publish(r)
  BY <1>6 DEF Publish
<1> QED
  BY <1>1, <1>2, <1>3, <1>4, <1>5, <1>6 DEF Step

(* One more request has finished with the label, the others as before.      *)
LEMMA OneMore ==
  ASSUME TypeOK, NEW r \in Requests, NEW label \in Finished, NEW other \in Finished,
         other # label, pc[r] \notin Finished, Goto(r, label)
  PROVE  /\ Cardinality(With(label)') = Cardinality(With(label)) + 1
         /\ With(other)' = With(other)
<1>1. With(label)' = With(label) \cup {r} /\ r \notin With(label)
  BY DEF With, Goto, TypeOK
<1>2. With(other)' = With(other)
  BY DEF With, Goto, TypeOK
<1>3. IsFiniteSet(With(label))
  BY SetsAssumption, FS_Subset DEF With
<1> QED
  BY <1>1, <1>2, <1>3, FS_AddElement

(* Complete counts every request on exactly one of its return paths.        *)
LEMMA CountedOnceKept ==
  ASSUME TypeOK, EveryRequestCountedOnce, [Next]_vars
  PROVE  EveryRequestCountedOnce'
<1>0. /\ EveryRequestCountedOnce <=>
           /\ stats.success = Cardinality(With("served"))
           /\ stats.failed = Cardinality(With("failed"))
           /\ stats.total = stats.success + stats.failed
      /\ EveryRequestCountedOnce' <=>
           /\ stats'.success = Cardinality(With("served")')
           /\ stats'.failed = Cardinality(With("failed")')
           /\ stats'.total = stats'.success + stats'.failed
  BY DEF With, EveryRequestCountedOnce
<1>1. ASSUME UNCHANGED stats, With("served")' = With("served"), With("failed")' = With("failed")
      PROVE  EveryRequestCountedOnce'
  BY <1>0, <1>1
<1>2. CASE \E r \in Requests : Step(r)
  <2>1. PICK r \in Requests : Step(r)
    BY <1>2
  <2>2. CASE RecordFailure /\ pc[r] \notin Finished /\ Goto(r, "failed")
    <3>1. /\ Cardinality(With("failed")') = Cardinality(With("failed")) + 1
          /\ With("served")' = With("served")
      BY <2>2, OneMore DEF Finished
    <3>2. /\ stats'.total = stats.total + 1
          /\ stats'.failed = stats.failed + 1
          /\ stats'.success = stats.success
      BY <2>2 DEF RecordFailure, TypeOK
    <3> QED
      BY <1>0, <3>1, <3>2 DEF TypeOK
  <2>3. CASE RecordSuccess /\ pc[r] \notin Finished /\ Goto(r, "served")
    <3>1. /\ Cardinality(With("served")') = Cardinality(With("served")) + 1
          /\ With("failed")' = With("failed")
      BY <2>3, OneMore DEF Finished
    <3>2. /\ stats'.total = stats.total + 1
          /\ stats'.failed = stats.failed
          /\ stats'.success = stats.success + 1
      BY <2>3 DEF RecordSuccess, TypeOK
    <3> QED
      BY <1>0, <3>1, <3>2 DEF TypeOK
  <2>4. CASE /\ UNCHANGED stats
             /\ \A label \in Finished, q \in Requests : pc'[q] = label <=> pc[q] = label
    <3>1. With("served")' = With("served") /\ With("failed")' = With("failed")
      BY <2>4 DEF With, Finished
    <3> QED
      BY <1>1, <2>4, <3>1
  <2> QED
    BY <2>1, <2>2, <2>3, <2>4, Counting
<1>3. CASE Others \/ Tick \/ UNCHANGED vars
  <2>1. UNCHANGED stats /\ With("served")' = With("served") /\ With("failed")' = With("failed")
    BY <1>3, OthersRest DEF With
  <2> QED
    BY <1>1, <2>1
<1> QED
  BY <1>2, <1>3 DEF Next

THEOREM CountedOnce == Spec => []EveryRequestCountedOnce
<1>1. Init => EveryRequestCountedOnce
  <2> SUFFICES ASSUME Init PROVE EveryRequestCountedOnce
    OBVIOUS
  <2>1. {r \in Requests : pc[r] = "served"} = {} /\ {r \in Requests : pc[r] = "failed"} = {}
    BY DEF Init
  <2>2. stats.total = 0 /\ stats.success = 0 /\ stats.failed = 0
    BY DEF Init
  <2> QED
    BY <2>1, <2>2, FS_EmptySet DEF EveryRequestCountedOnce
<1>2. TypeOK /\ EveryRequestCountedOnce /\ [Next]_vars => EveryRequestCountedOnce'
  BY CountedOnceKept
<1> QED
  BY <1>1, <1>2, TypeCorrect, PTL DEF Spec

-----------------------------------------------------------------------------
(* Failures and quota holds.                                                *)

(* A request's own step that ends an attempt leaves the account resting.    *)
LEMMA AttemptEndsRested ==
  ASSUME TypeOK, NEW r \in Requests, NEW b \in Accounts, cur[r] = b, Step(r),
         pc[r] \in {"send", "handed", "freshFailed"}, pc'[r] = "pick"
  PROVE  b \in excluded'[r] \/ ~Ready(b)'
<1> StoreTypeOK
  BY DEF TypeOK
<1>1. ASSUME NEW class \in FailureClasses, class # "request_shape", NEW left \in Nat, left > 0,
             Write(b, ApplyFailureDecision(acc[b], class, left))
      PROVE  ~Ready(b)'
  <2>1. ~Available(ApplyFailureDecision(acc[b], class, left))
    BY <1>1, FailureRests DEF StoreTypeOK
  <2>2. /\ present' = present
        /\ b \in present => acc'[b] = ApplyFailureDecision(acc[b], class, left)
    BY <1>1, WriteOne
  <2> QED
    BY <2>1, <2>2 DEF Ready
<1>2. CASE FreshFailed(r)
  BY <1>2 DEF FreshFailed, NextAttempt, TypeOK
<1>3. CASE TransportFails(r) \/ StreamFails(r)
  <2>1. PICK class \in {"retryable_transport", "empty_stream"} :
          Write(b, ApplyFailureDecision(acc[b], class, 0))
    BY <1>3 DEF TransportFails, StreamFails
  <2>2. class \in FailureClasses /\ class # "request_shape"
    BY DEF FailureClasses
  <2>3. ApplyFailureDecision(acc[b], class, 0) = ApplyFailureDecision(acc[b], class, 1)
    BY DEF ApplyFailureDecision
  <2> QED
    BY <1>1, <2>1, <2>2, <2>3
<1>4. CASE UpstreamFails(r)
  <2>1. PICK status \in Statuses, w \in Reasons, left \in QuotaResets \cup {LongCooldown} :
          /\ ClassifyHTTPFailure(status, w) # "request_shape"
          /\ Write(b, ApplyFailureDecision(acc[b], ClassifyHTTPFailure(status, w), left))
    BY <1>4 DEF UpstreamFails
  <2> QED
    BY <1>1, <2>1, ClassIsClass, Choices
<1>5. CASE RecoveryFailed(r)
  <2>1. Write(b, ApplyFailureDecision(acc[b], ClassifyHTTPFailure(401, why[r]), LongCooldown))
    BY <1>5 DEF RecoveryFailed
  <2>2. ClassifyHTTPFailure(401, why[r]) # "request_shape"
    BY DEF ClassifyHTTPFailure, AuthStatuses
  <2> QED
    BY <1>1, <2>1, <2>2, ClassIsClass, Choices
<1>6. CASE BuildFails(r) \/ ShapeRejected(r) \/ Succeed(r) \/ AuthRejected(r) \/ SendAgain(r)
  <2>1. \E label \in {"failed", "succeeded", "recover", "send"} : Goto(r, label)
    BY <1>6 DEF BuildFails, ShapeRejected, Succeed, AuthRejected, SendAgain, Return
  <2> QED
    BY <2>1 DEF Goto, TypeOK
<1> QED
  BY <1>2, <1>3, <1>4, <1>5, <1>6
  DEF Step, RejectModel, RejectUnready, Admit, Pick, GiveUp, TokenFresh, RenewToken, RenewFails,
      CountSuccess, JoinRecovery, TakeSlot, LeaderCancelled, LeaderRenews, LeaderRejected,
      LeaderReadsQuota, LeaderChecks, Publish, FollowerCancelled

(* A request never starts its next attempt by somebody else's step.         *)
LEMMA PickIsOwn ==
  ASSUME TypeOK, NEW r \in Requests, NEW q \in Requests, q # r, Step(q)
  PROVE  pc'[r] = pc[r] \/ pc'[r] = "handed"
<1>1. CASE Returns(q) \/ TriesNext(q) \/ Moves(q) \/ Pick(q) \/ SendAgain(q) \/ JoinRecovery(q)
  <2>1. \E label : Goto(q, label)
    BY <1>1 DEF Returns, Return, TriesNext, NextAttempt, Moves, Pick, SendAgain, JoinRecovery
  <2> QED
    BY <2>1 DEF Goto, TypeOK
<1>2. CASE Publish(q)
  BY <1>2 DEF Publish
<1> QED
  BY <1>1, <1>2, StepShapes

(* The retry loop of Complete never spins on an account that just failed.   *)
THEOREM FailureRestsAlways == Spec => FailureRestsAccount
<1> DEFINE Rests ==
      \A r \in Requests, a \in Accounts :
        cur[r] = a /\ pc[r] \in {"send", "handed", "freshFailed"} /\ pc'[r] = "pick"
          => a \in excluded'[r] \/ ~Ready(a)'
<1>1. TypeOK /\ [Next]_vars => [Rests]_vars
  <2> SUFFICES ASSUME TypeOK, Next, NEW r \in Requests, NEW a \in Accounts, cur[r] = a,
                      pc[r] \in {"send", "handed", "freshFailed"}, pc'[r] = "pick"
               PROVE  a \in excluded'[r] \/ ~Ready(a)'
    OBVIOUS
  <2>1. pc'[r] # pc[r]
    OBVIOUS
  <2>2. CASE \E q \in Requests : Step(q)
    <3>1. PICK q \in Requests : Step(q)
      BY <2>2
    <3>2. q = r
      BY <2>1, <3>1, PickIsOwn
    <3> QED
      BY <3>1, <3>2, AttemptEndsRested
  <2>3. CASE Others \/ Tick
    BY <2>1, <2>3, OthersRest
  <2> QED
    BY <2>2, <2>3 DEF Next
<1> QED
  BY <1>1, TypeCorrect, PTL DEF Spec, FailureRestsAccount


(* No write but those of the provider's own verdicts ends a quota hold.     *)
THEOREM QuotaHoldAlways == Spec => QuotaHoldSurvives
<1> DEFINE Survives ==
      \A a \in Accounts :
        QuotaHeld(acc[a]) /\ LeavesQuotaAlone(a)
          => QuotaHeld(acc'[a]) /\ acc'[a].reset >= acc[a].reset
<1>1. TypeOK /\ [Next]_vars => [Survives]_vars
  <2> SUFFICES ASSUME TypeOK, NEW a \in Accounts, QuotaHeld(acc[a]), LeavesQuotaAlone(a)
               PROVE  QuotaHeld(acc'[a]) /\ acc'[a].reset >= acc[a].reset
    OBVIOUS
  <2> DEFINE x == acc[a]
  <2> StoreTypeOK
    BY DEF TypeOK
  <2>1. x \in Account /\ x.reset \in Nat
    BY DEF StoreTypeOK, Account
  <2>2. \/ acc'[a] = x
        \/ acc'[a] = MarkTransientFailure(x)
        \/ acc'[a] = TokenRenewed(x)
        \/ acc'[a] = ClearTransientCooldown(x)
        \/ \E on \in BOOLEAN : acc'[a] = SetEnabled(x, on)
    <3>1. CASE \E r \in Requests : TransportFails(r) \/ StreamFails(r)
      <4>1. PICK r \in Requests, class \in {"retryable_transport", "empty_stream"} :
              Write(cur[r], ApplyFailureDecision(acc[cur[r]], class, 0))
        BY <3>1 DEF TransportFails, StreamFails
      <4>2. ApplyFailureDecision(acc[cur[r]], class, 0) = MarkTransientFailure(acc[cur[r]])
        BY DEF ApplyFailureDecision
      <4> QED
        BY <4>1, <4>2, WriteOne
    <3>2. CASE \E r \in Requests : RenewToken(r) \/ LeaderRenews(r)
      BY <3>2, WriteOne DEF RenewToken, LeaderRenews
    <3>3. CASE OwnerClears(a) \/ \E on \in BOOLEAN : OwnerSwitches(a, on)
      BY <3>3, WriteOne DEF OwnerClears, OwnerSwitches
    <3> QED
      BY <3>1, <3>2, <3>3 DEF LeavesQuotaAlone
  <2>3. QuotaHeld(acc'[a]) /\ acc'[a].reset = x.reset
    BY <2>1, <2>2, QuotaHoldKept
  <2> QED
    BY <2>1, <2>3
<1> QED
  BY <1>1, TypeCorrect, PTL DEF Spec, QuotaHoldSurvives

-----------------------------------------------------------------------------
(* The recoveries implement AuthRecovery.                                   *)

Waiting == LeaderPCs \cup {"following"}

(* Requests that are not in a recovery are nothing to it.                   *)
LEMMA OutsideIsQuiet ==
  ASSUME IInv, NEW r \in Requests, UNCHANGED lead,
         pc[r] \notin Waiting \cup {"handed"}, pc'[r] \notin Waiting \cup {"handed"},
         \A q \in Requests : q # r => pc'[q] = pc[q] /\ cur'[q] = cur[q] /\ why'[q] = why[q]
  PROVE  UNCHANGED <<RecoveryStage, RecoveryGroup, RecoveryTold>>
<1>1. ASSUME NEW a \in Accounts, lead[a] # None
      PROVE  StageOf(lead[a])' = StageOf(lead[a])
  <2>1. lead[a] \in Requests /\ pc[lead[a]] \in LeaderPCs
    BY <1>1 DEF IInv, TypeOK, RecoveryHasLeader
  <2>2. lead[a] # r
    BY <2>1 DEF Waiting
  <2> QED
    BY <2>1, <2>2 DEF StageOf, Verdict
<1>2. UNCHANGED RecoveryStage
  BY <1>1 DEF RecoveryStage
<1>3. UNCHANGED RecoveryGroup
  BY DEF RecoveryGroup, Waiting
<1>4. UNCHANGED RecoveryTold
  BY DEF RecoveryTold
<1> QED
  BY <1>2, <1>3, <1>4

(* A step of a leader changes how far the refresh is and nothing else.      *)
LEMMA LeaderMovesOn ==
  ASSUME IInv, NEW r \in Requests, UNCHANGED <<lead, cur>>,
         pc[r] \in LeaderPCs, pc'[r] \in LeaderPCs,
         \A q \in Requests : q # r => pc'[q] = pc[q] /\ why'[q] = why[q]
  PROVE  /\ cur[r] \in Accounts /\ RecoveryStage[cur[r]] = StageOf(r)
         /\ RecoveryStage' = [RecoveryStage EXCEPT ![cur[r]] = StageOf(r)']
         /\ UNCHANGED <<RecoveryGroup, RecoveryTold>>
<1>0. "handed" \notin LeaderPCs
  BY DEF LeaderPCs, SlotPCs
<1>1. cur[r] \in Accounts /\ lead[cur[r]] = r /\ r # None
  BY SetsAssumption DEF IInv, InHand, AttemptPCs, RecoveryPCs, RecoveryHasLeader
<1>2. ASSUME NEW a \in Accounts, a # cur[r], lead[a] # None
      PROVE  StageOf(lead[a])' = StageOf(lead[a])
  <2>1. lead[a] \in Requests /\ cur[lead[a]] = a
    BY <1>2 DEF IInv, TypeOK, RecoveryHasLeader
  <2>2. lead[a] # r
    BY <1>2, <2>1
  <2> QED
    BY <2>1, <2>2 DEF StageOf, Verdict
<1>3. \A a \in Accounts : lead'[a] = lead[a]
  OBVIOUS
<1>4. RecoveryStage' = [RecoveryStage EXCEPT ![cur[r]] = StageOf(r)']
  <2>1. StageOf(lead[cur[r]])' = StageOf(r)'
    BY <1>1 DEF StageOf
  <2> QED
    BY <1>1, <1>2, <2>1 DEF RecoveryStage
<1>5. RecoveryGroup' = RecoveryGroup
  BY DEF RecoveryGroup
<1>6. RecoveryTold' = RecoveryTold
  BY <1>0 DEF RecoveryTold
<1> QED
  BY <1>1, <1>4, <1>5, <1>6 DEF RecoveryStage

LEMMA QuietSteps ==
  ASSUME IInv, NEW r \in Requests,
         \/ RejectModel(r) \/ RejectUnready(r) \/ Admit(r) \/ Pick(r) \/ GiveUp(r)
         \/ TokenFresh(r) \/ RenewToken(r) \/ RenewFails(r) \/ FreshFailed(r)
         \/ BuildFails(r) \/ Succeed(r) \/ CountSuccess(r)
         \/ TransportFails(r) \/ StreamFails(r) \/ AuthRejected(r)
         \/ ShapeRejected(r) \/ UpstreamFails(r)
  PROVE  UNCHANGED <<RecoveryStage, RecoveryGroup, RecoveryTold>>
<1> DEFINE Out == {"new", "pick", "fresh", "freshFailed", "send", "succeeded", "recover",
                   "served", "failed"}
<1>1. Out \cap (Waiting \cup {"handed"}) = {}
  BY DEF Waiting, LeaderPCs, SlotPCs
<1>2. pc[r] \in Out /\ pc'[r] \in Out /\ UNCHANGED lead
      /\ \A q \in Requests : q # r => pc'[q] = pc[q] /\ cur'[q] = cur[q] /\ why'[q] = why[q]
  <2> USE DEF IInv, TypeOK, Goto, Because, Return, NextAttempt, locals
  <2>1. CASE RejectModel(r) \/ RejectUnready(r) \/ Admit(r) \/ Pick(r) \/ GiveUp(r)
    BY <2>1 DEF RejectModel, RejectUnready, Admit, Pick, GiveUp
  <2>2. CASE TokenFresh(r) \/ RenewToken(r) \/ RenewFails(r) \/ FreshFailed(r)
    BY <2>2 DEF TokenFresh, RenewToken, RenewFails, FreshFailed
  <2>3. CASE BuildFails(r) \/ Succeed(r) \/ CountSuccess(r) \/ ShapeRejected(r)
    BY <2>3 DEF BuildFails, Succeed, CountSuccess, ShapeRejected
  <2>4. CASE TransportFails(r) \/ StreamFails(r) \/ AuthRejected(r)
    BY <2>4 DEF TransportFails, StreamFails, AuthRejected
  <2>5. CASE UpstreamFails(r)
    BY <2>5 DEF UpstreamFails
  <2> QED
    BY <2>1, <2>2, <2>3, <2>4, <2>5
<1> HIDE DEF Out
<1> QED
  BY <1>1, <1>2, OutsideIsQuiet

(* The accounts that are being refreshed are those the holders of a slot    *)
(* lead, each one of them.                                                  *)
LEMMA RefreshesHaveSlots ==
  ASSUME IInv
  PROVE  /\ Cardinality({b \in Accounts : RecoveryStage[b] = "refreshing"}) \in Nat
         /\ Cardinality({q \in Requests : pc[q] \in SlotPCs}) \in Nat
         /\ Cardinality({b \in Accounts : RecoveryStage[b] = "refreshing"})
              <= Cardinality({q \in Requests : pc[q] \in SlotPCs})
<1> DEFINE S == {b \in Accounts : RecoveryStage[b] = "refreshing"}
           T == {q \in Requests : pc[q] \in SlotPCs}
           f == [b \in S |-> lead[b]]
<1>1. ASSUME NEW b \in S PROVE lead[b] \in T /\ cur[lead[b]] = b
  <2>1. lead[b] # None /\ StageOf(lead[b]) = "refreshing"
    BY DEF RecoveryStage
  <2>2. lead[b] \in Requests /\ cur[lead[b]] = b
    BY <2>1 DEF IInv, TypeOK, RecoveryHasLeader
  <2>3. pc[lead[b]] \in SlotPCs
    BY <2>1 DEF StageOf, Verdict
  <2> QED
    BY <2>2, <2>3
<1>2. f \in Injection(S, T)
  BY <1>1 DEF Injection, IsInjective
<1>3. IsFiniteSet(T)
  BY SetsAssumption, FS_Subset
<1> HIDE DEF S, T, f
<1>4. IsFiniteSet(S) /\ Cardinality(S) <= Cardinality(T)
  BY <1>2, <1>3, FS_Injection
<1>5. Cardinality(S) \in Nat /\ Cardinality(T) \in Nat
  BY <1>3, <1>4, FS_CardinalityType
<1> QED
  BY <1>4, <1>5 DEF S, T

(* Each step of a recovery is one of AuthRecovery.                          *)
LEMMA JoinAsks ==
  ASSUME IInv, NEW r \in Requests, JoinRecovery(r)
  PROVE  Recovery!Ask(r, cur[r])
<1>0. /\ pc[r] = "recover" /\ UNCHANGED <<cur, why>>
      /\ "recover" \notin Waiting \cup {"handed"} /\ "queued" \in Waiting /\ "following" \in Waiting
      /\ "queued" # "handed" /\ "following" # "handed"
  BY DEF JoinRecovery, locals, Waiting, LeaderPCs, SlotPCs
<1>1. cur[r] \in Accounts
  BY <1>0 DEF IInv, InHand, AttemptPCs, RecoveryPCs
<1>2. PICK label \in {"queued", "following"} :
        /\ pc' = [pc EXCEPT ![r] = label]
        /\ label = "queued" <=> lead[cur[r]] = None
        /\ lead' = IF label = "queued" THEN [lead EXCEPT ![cur[r]] = r] ELSE lead
  BY DEF JoinRecovery, Goto
<1>3. pc'[r] = label /\ \A q \in Requests : q # r => pc'[q] = pc[q]
  BY <1>2 DEF IInv, TypeOK
<1>4. RecoveryTold[r] = "none" /\ \A b \in Accounts : r \notin RecoveryGroup[b]
  BY <1>0 DEF RecoveryTold, RecoveryGroup, Waiting
<1>5. RecoveryTold' = RecoveryTold
  BY <1>0, <1>2, <1>3 DEF RecoveryTold
<1>6. RecoveryGroup' = [RecoveryGroup EXCEPT ![cur[r]] = @ \cup {r}]
  <2>1. pc[r] \notin Waiting /\ pc'[r] \in Waiting
    BY <1>0, <1>2, <1>3
  <2>2. \A a \in Accounts : RecoveryGroup'[a] = IF a = cur[r] THEN RecoveryGroup[a] \cup {r}
                                                ELSE RecoveryGroup[a]
    BY <1>0, <1>3, <2>1 DEF RecoveryGroup, Waiting
  <2> QED
    BY <1>1, <2>2 DEF RecoveryGroup
<1>7. ASSUME NEW a \in Accounts, lead[a] # None
      PROVE  lead'[a] = lead[a] /\ StageOf(lead[a])' = StageOf(lead[a]) /\ StageOf(lead[a]) # "idle"
  <2>1. lead[a] \in Requests /\ pc[lead[a]] \in LeaderPCs
    BY <1>7 DEF IInv, TypeOK, RecoveryHasLeader
  <2>2. lead[a] # r
    BY <1>0, <2>1 DEF Waiting
  <2>3. StageOf(lead[a])' = StageOf(lead[a]) /\ lead'[a] = lead[a]
    BY <1>0, <1>1, <1>2, <1>3, <1>7, <2>1, <2>2 DEF StageOf, Verdict, IInv, TypeOK
  <2> QED
    BY <2>3 DEF StageOf, Verdict
<1>8. RecoveryStage' = [RecoveryStage EXCEPT ![cur[r]] = IF @ = "idle" THEN "waiting" ELSE @]
  <2>1. CASE label = "queued"
    <3>1. lead' = [lead EXCEPT ![cur[r]] = r] /\ lead[cur[r]] = None /\ r # None
      BY <1>2, <2>1, SetsAssumption
    <3>2. StageOf(r)' = "waiting"
      BY <1>3, <2>1 DEF StageOf
    <3>3. \A a \in Accounts : a # cur[r] => lead'[a] = lead[a]
      BY <1>1, <3>1 DEF IInv, TypeOK
    <3>4. lead'[cur[r]] = r
      BY <1>1, <3>1 DEF IInv, TypeOK
    <3>5. RecoveryStage'[cur[r]] = "waiting"
      BY <1>1, <3>1, <3>2, <3>4 DEF RecoveryStage
    <3>6. \A a \in Accounts : a # cur[r] => RecoveryStage'[a] = RecoveryStage[a]
      BY <1>7, <3>3 DEF RecoveryStage
    <3>7. RecoveryStage[cur[r]] = "idle"
      BY <1>1, <3>1 DEF RecoveryStage
    <3> QED
      BY <1>1, <3>5, <3>6, <3>7 DEF RecoveryStage
  <2>2. CASE label = "following"
    <3>1. lead' = lead /\ lead[cur[r]] # None
      BY <1>2, <2>2
    <3>2. RecoveryStage' = RecoveryStage /\ RecoveryStage[cur[r]] # "idle"
      BY <1>1, <1>7, <3>1 DEF RecoveryStage
    <3> QED
      BY <1>1, <3>2 DEF RecoveryStage
  <2> QED
    BY <2>1, <2>2
<1> QED
  BY <1>4, <1>5, <1>6, <1>8 DEF Recovery!Ask

LEMMA LeadersGoOn ==
  ASSUME IInv, NEW r \in Requests,
         \/ TakeSlot(r) \/ LeaderCancelled(r) \/ LeaderRenews(r) \/ LeaderRejected(r)
         \/ LeaderReadsQuota(r) \/ LeaderChecks(r)
  PROVE  \/ \E a \in Accounts : Recovery!Begin(a) \/ Recovery!Abandon(a) \/ Recovery!End(a)
         \/ UNCHANGED <<RecoveryStage, RecoveryGroup, RecoveryTold>>
<1>1. PICK label \in LeaderPCs : pc' = [pc EXCEPT ![r] = label]
  BY DEF TakeSlot, LeaderCancelled, LeaderRenews, LeaderRejected, LeaderReadsQuota,
         LeaderChecks, Goto, LeaderPCs, SlotPCs
<1>2. UNCHANGED <<lead, cur>> /\ pc[r] \in LeaderPCs
      /\ \A q \in Requests : q # r => why'[q] = why[q]
  BY DEF TakeSlot, LeaderCancelled, LeaderRenews, LeaderRejected, LeaderReadsQuota,
         LeaderChecks, Because, LeaderPCs, SlotPCs, locals, IInv, TypeOK
<1>3. pc'[r] = label /\ \A q \in Requests : q # r => pc'[q] = pc[q]
  BY <1>1 DEF IInv, TypeOK
<1>4. /\ cur[r] \in Accounts /\ RecoveryStage[cur[r]] = StageOf(r)
      /\ RecoveryStage' = [RecoveryStage EXCEPT ![cur[r]] = StageOf(r)']
      /\ UNCHANGED <<RecoveryGroup, RecoveryTold>>
  BY <1>2, <1>3, LeaderMovesOn
<1>5. "publishing" \notin SlotPCs /\ "queued" \notin SlotPCs /\ "publishing" # "queued"
  BY DEF SlotPCs
<1>6. CASE TakeSlot(r)
  <2>1. StageOf(r) = "waiting" /\ StageOf(r)' = "refreshing"
    BY <1>6, <1>3 DEF TakeSlot, Goto, StageOf, SlotPCs, IInv, TypeOK
  <2>2. Cardinality({q \in Requests : pc[q] \in SlotPCs}) < MaxRecoveries
    BY <1>6 DEF TakeSlot
  <2>3. Cardinality({b \in Accounts : RecoveryStage[b] = "refreshing"}) < MaxRecoveries
    BY <2>2, RefreshesHaveSlots, SetsAssumption
  <2>4. RecoveryStage' = [RecoveryStage EXCEPT ![cur[r]] = "refreshing"]
    BY <1>4, <2>1
  <2>5. RecoveryStage[cur[r]] = "waiting"
    BY <1>4, <2>1
  <2> DEFINE S == {b \in Accounts : RecoveryStage[b] = "refreshing"}
  <2>6. Recovery!Cardinality(S) = Cardinality(S)
    BY DEF Recovery!Cardinality, Cardinality
  <2>7. Recovery!Begin(cur[r])
    BY <1>4, <2>3, <2>4, <2>5, <2>6 DEF Recovery!Begin
  <2> QED
    BY <1>4, <2>7
<1>7. CASE LeaderCancelled(r)
  <2>1. StageOf(r) = "waiting" /\ StageOf(r)' = "failed"
    BY <1>5, <1>7 DEF LeaderCancelled, Goto, Because, StageOf, Verdict, IInv, TypeOK
  <2> QED
    BY <1>4, <2>1 DEF Recovery!Abandon
<1>8. CASE pc[r] \in SlotPCs
  <2>1. StageOf(r) = "refreshing"
    BY <1>8, <1>5 DEF StageOf
  <2>2. CASE label \in SlotPCs
    <3>1. StageOf(r)' = "refreshing"
      BY <1>3, <1>5, <2>2 DEF StageOf
    <3>2. RecoveryStage' = RecoveryStage
      BY <1>4, <2>1, <3>1 DEF RecoveryStage
    <3> QED
      BY <1>4, <3>2
  <2>3. CASE label = "publishing"
    <3>1. StageOf(r)' \in {"ok", "failed", "notReady"}
      BY <1>3, <1>5, <2>3 DEF StageOf, Verdict
    <3> QED
      BY <1>4, <2>1, <3>1 DEF Recovery!End, Recovery!Verdicts
  <2>4. label # "queued"
    BY <1>3, <1>8, <1>5
    DEF TakeSlot, LeaderCancelled, LeaderRenews, LeaderRejected, LeaderReadsQuota, LeaderChecks,
        Goto, IInv, TypeOK
  <2> QED
    BY <2>2, <2>3, <2>4 DEF LeaderPCs
<1> QED
  BY <1>6, <1>7, <1>8 DEF LeaderRenews, LeaderRejected, LeaderReadsQuota, LeaderChecks, SlotPCs

LEMMA PublishTells ==
  ASSUME IInv, NEW r \in Requests, Publish(r)
  PROVE  Recovery!Tell(cur[r])
<1> DEFINE a == cur[r]
           followers == {q \in Requests : pc[q] = "following" /\ cur[q] = a}
           own == IF why[r] = "notReady" THEN "plain" ELSE why[r]
           shared == IF why[r] = "notReady" THEN "ok" ELSE why[r]
<1>0. /\ "publishing" \in LeaderPCs /\ "publishing" \notin SlotPCs /\ "publishing" # "queued"
      /\ "following" \notin LeaderPCs /\ "handed" \notin Waiting
  BY DEF LeaderPCs, SlotPCs, Waiting
<1>1. /\ pc[r] = "publishing" /\ UNCHANGED cur
      /\ lead' = [lead EXCEPT ![a] = None]
      /\ \A q \in Requests :
           /\ pc'[q] = IF q = r \/ q \in followers THEN "handed" ELSE pc[q]
           /\ why'[q] = IF q = r THEN own ELSE IF q \in followers THEN shared ELSE why[q]
  BY DEF Publish
<1>2. a \in Accounts /\ lead[a] = r /\ r # None
  BY <1>0, <1>1, SetsAssumption DEF IInv, InHand, AttemptPCs, RecoveryPCs, RecoveryHasLeader
<1>3. RecoveryStage[a] = Verdict(why[r])
  BY <1>0, <1>1, <1>2 DEF RecoveryStage, StageOf
<1>4. RecoveryGroup[a] = followers \cup {r}
  <2>1. ASSUME NEW q \in Requests, pc[q] \in LeaderPCs, cur[q] = a PROVE q = r
    BY <1>2, <2>1 DEF IInv, RecoveryHasLeader
  <2> QED
    BY <1>0, <1>1, <1>2, <2>1 DEF RecoveryGroup
<1>5. RecoveryStage' = [RecoveryStage EXCEPT ![a] = "idle"]
  <2>1. ASSUME NEW b \in Accounts, b # a
        PROVE  RecoveryStage'[b] = RecoveryStage[b]
    <3>1. lead'[b] = lead[b]
      BY <1>1, <1>2, <2>1 DEF IInv, TypeOK
    <3>2. CASE lead[b] # None
      <4>1. /\ lead[b] \in Requests /\ pc[lead[b]] \in LeaderPCs /\ cur[lead[b]] = b
        BY <3>2 DEF IInv, TypeOK, RecoveryHasLeader
      <4>2. lead[b] # r /\ lead[b] \notin followers
        BY <1>0, <2>1, <4>1
      <4>3. pc'[lead[b]] = pc[lead[b]] /\ why'[lead[b]] = why[lead[b]]
        BY <1>1, <4>1, <4>2
      <4> QED
        BY <3>1, <4>3 DEF RecoveryStage, StageOf, Verdict
    <3> QED
      BY <3>1, <3>2 DEF RecoveryStage
  <2>2. RecoveryStage'[a] = "idle"
    <3>1. lead'[a] = None
      BY <1>1, <1>2 DEF IInv, TypeOK
    <3> QED
      BY <1>2, <3>1 DEF RecoveryStage
  <2> QED
    BY <2>1, <2>2 DEF RecoveryStage
<1>6. RecoveryGroup' = [RecoveryGroup EXCEPT ![a] = {}]
  <2>1. ASSUME NEW b \in Accounts
        PROVE  RecoveryGroup'[b] = IF b = a THEN {} ELSE RecoveryGroup[b]
    <3>1. CASE b = a
      <4>1. ASSUME NEW q \in Requests, cur[q] = a PROVE pc'[q] \notin Waiting
        <5>1. CASE q = r \/ q \in followers
          BY <1>0, <1>1, <4>1, <5>1
        <5>2. CASE q # r /\ q \notin followers
          <6>1. pc[q] \notin LeaderPCs
            BY <1>2, <4>1, <5>2 DEF IInv, RecoveryHasLeader
          <6>2. pc[q] # "following" /\ pc'[q] = pc[q]
            BY <1>1, <4>1, <5>2
          <6> QED
            BY <6>1, <6>2 DEF Waiting
        <5> QED
          BY <5>1, <5>2
      <4>2. RecoveryGroup'[a] = {q \in Requests : pc'[q] \in Waiting /\ cur'[q] = a}
        BY <1>1, <1>2 DEF RecoveryGroup, Waiting
      <4> HIDE DEF a
      <4> QED
        BY <1>1, <3>1, <4>1, <4>2 DEF a
    <3>2. CASE b # a
      <4>1. \A q \in Requests : cur[q] = b => pc'[q] = pc[q]
        BY <1>1, <3>2
      <4> QED
        BY <1>1, <3>2, <4>1 DEF RecoveryGroup
    <3> QED
      BY <3>1, <3>2
  <2> QED
    BY <2>1 DEF RecoveryGroup
<1>7. RecoveryTold' = [q \in Requests |->
                         IF q \in RecoveryGroup[a]
                         THEN Recovery!Heard(RecoveryStage[a], q = r) ELSE RecoveryTold[q]]
  <2>1. ASSUME NEW q \in Requests
        PROVE  RecoveryTold'[q] = IF q \in RecoveryGroup[a]
                                  THEN Recovery!Heard(RecoveryStage[a], q = r)
                                  ELSE RecoveryTold[q]
    <3>1. CASE q = r
      BY <1>1, <1>3, <1>4, <3>1 DEF RecoveryTold, Recovery!Heard, Verdict
    <3>2. CASE q # r /\ q \in followers
      BY <1>1, <1>3, <1>4, <3>2 DEF RecoveryTold, Recovery!Heard, Verdict
    <3>3. CASE q # r /\ q \notin followers
      <4>1. pc'[q] = pc[q] /\ why'[q] = why[q] /\ q \notin RecoveryGroup[a]
        BY <1>1, <1>4, <3>3
      <4> QED
        BY <4>1 DEF RecoveryTold
    <3> QED
      BY <3>1, <3>2, <3>3
  <2> QED
    BY <2>1 DEF RecoveryTold
<1>8. RecoveryStage[a] \in {"ok", "failed", "notReady"} /\ r \in RecoveryGroup[a]
  BY <1>3, <1>4 DEF Verdict
<1> HIDE DEF a
<1> QED
  BY <1>5, <1>6, <1>7, <1>8 DEF a, Recovery!Tell, Recovery!Verdicts

LEMMA FollowerLeaves ==
  ASSUME IInv, NEW r \in Requests, FollowerCancelled(r)
  PROVE  Recovery!Leave(r, cur[r])
<1>0. "following" \in Waiting /\ "following" \notin LeaderPCs /\ "handed" \notin Waiting
  BY DEF Waiting, LeaderPCs, SlotPCs
<1>1. /\ pc[r] = "following" /\ UNCHANGED <<cur, lead>>
      /\ pc'[r] = "handed" /\ why'[r] = "plain"
      /\ \A q \in Requests : q # r => pc'[q] = pc[q] /\ why'[q] = why[q]
  BY DEF FollowerCancelled, Goto, Because, IInv, TypeOK
<1>2. cur[r] \in Accounts /\ lead[cur[r]] # None
  BY <1>0, <1>1 DEF IInv, InHand, AttemptPCs, RecoveryPCs, RecoveryHasLeader
<1>3. /\ lead[cur[r]] \in Requests /\ pc[lead[cur[r]]] \in LeaderPCs
      /\ cur[lead[cur[r]]] = cur[r] /\ lead[cur[r]] # r
  BY <1>0, <1>1, <1>2 DEF IInv, TypeOK, RecoveryHasLeader
<1>4. r \in RecoveryGroup[cur[r]] /\ RecoveryGroup[cur[r]] # {r}
  BY <1>0, <1>1, <1>2, <1>3 DEF RecoveryGroup, Waiting
<1>5. RecoveryGroup' = [RecoveryGroup EXCEPT ![cur[r]] = @ \ {r}]
  <2>1. ASSUME NEW a \in Accounts
        PROVE  RecoveryGroup'[a] = IF a = cur[r] THEN RecoveryGroup[a] \ {r} ELSE RecoveryGroup[a]
    BY <1>0, <1>1 DEF RecoveryGroup, Waiting
  <2> QED
    BY <1>2, <2>1 DEF RecoveryGroup
<1>6. RecoveryTold' = [RecoveryTold EXCEPT ![r] = "failed"]
  BY <1>1 DEF RecoveryTold
<1>7. RecoveryStage' = RecoveryStage
  <2>1. ASSUME NEW a \in Accounts, lead[a] # None
        PROVE  StageOf(lead[a])' = StageOf(lead[a])
    <3>1. lead[a] \in Requests /\ pc[lead[a]] \in LeaderPCs
      BY <2>1 DEF IInv, TypeOK, RecoveryHasLeader
    <3>2. lead[a] # r
      BY <1>0, <1>1, <3>1
    <3> QED
      BY <1>1, <3>1, <3>2 DEF StageOf, Verdict
  <2> QED
    BY <1>1, <2>1 DEF RecoveryStage
<1> QED
  BY <1>4, <1>5, <1>6, <1>7 DEF Recovery!Leave

LEMMA HandedTakeNote ==
  ASSUME IInv, NEW r \in Requests, SendAgain(r) \/ RecoveryFailed(r)
  PROVE  Recovery!TakeNote(r)
<1>1. /\ pc[r] = "handed" /\ pc'[r] \in {"send", "pick"} /\ UNCHANGED lead
      /\ \A q \in Requests : q # r => pc'[q] = pc[q] /\ cur'[q] = cur[q] /\ why'[q] = why[q]
  BY DEF SendAgain, RecoveryFailed, NextAttempt, Goto, IInv, TypeOK
<1>2. {"send", "pick", "handed"} \cap Waiting = {}
  BY DEF Waiting, LeaderPCs, SlotPCs
<1>3. RecoveryTold[r] # "none" /\ RecoveryTold' = [RecoveryTold EXCEPT ![r] = "none"]
  BY <1>1 DEF RecoveryTold
<1>4. RecoveryGroup' = RecoveryGroup
  BY <1>1, <1>2 DEF RecoveryGroup, Waiting
<1>5. RecoveryStage' = RecoveryStage
  <2>1. ASSUME NEW a \in Accounts, lead[a] # None
        PROVE  StageOf(lead[a])' = StageOf(lead[a])
    <3>1. lead[a] \in Requests /\ pc[lead[a]] \in LeaderPCs
      BY <2>1 DEF IInv, TypeOK, RecoveryHasLeader
    <3>2. lead[a] # r
      BY <1>1, <1>2, <3>1 DEF Waiting
    <3> QED
      BY <1>1, <3>1, <3>2 DEF StageOf, Verdict
  <2> QED
    BY <1>1, <2>1 DEF RecoveryStage
<1> QED
  BY <1>3, <1>4, <1>5 DEF Recovery!TakeNote

(* Requests whose token is rejected share recoveries as AuthRecovery says:  *)
(* for each account one refresh for all who ask meanwhile, its result for   *)
(* everyone who stays, and no more refreshes at once than there are slots   *)
(* (runtime_retry.go, Recover).                                             *)
THEOREM RecoveriesAreShared == Spec => SharesRecovery
<1>1. Init => Recovery!Init
  BY DEF Init, Recovery!Init, RecoveryStage, RecoveryGroup, RecoveryTold, LeaderPCs, SlotPCs
<1>2. ASSUME IInv, [Next]_vars
      PROVE  Recovery!Next \/ UNCHANGED <<RecoveryStage, RecoveryGroup, RecoveryTold>>
  <2>1. ASSUME NEW r \in Requests, Step(r)
        PROVE  Recovery!Next \/ UNCHANGED <<RecoveryStage, RecoveryGroup, RecoveryTold>>
    <3>1. CASE JoinRecovery(r) \/ Publish(r) \/ FollowerCancelled(r)
      <4>1. cur[r] \in Accounts
        BY <1>2, <3>1
        DEF JoinRecovery, Publish, FollowerCancelled, IInv, InHand, AttemptPCs, RecoveryPCs, LeaderPCs
      <4> QED
        BY <1>2, <3>1, <4>1, JoinAsks, PublishTells, FollowerLeaves DEF Recovery!Next
    <3>2. CASE SendAgain(r) \/ RecoveryFailed(r)
      BY <1>2, <3>2, HandedTakeNote DEF Recovery!Next
    <3>3. CASE \/ TakeSlot(r) \/ LeaderCancelled(r) \/ LeaderRenews(r) \/ LeaderRejected(r)
               \/ LeaderReadsQuota(r) \/ LeaderChecks(r)
      BY <1>2, <3>3, LeadersGoOn DEF Recovery!Next
    <3> QED
      BY <1>2, <2>1, <3>1, <3>2, <3>3, QuietSteps DEF Step
  <2>2. CASE Others \/ Tick \/ UNCHANGED vars
    <3>1. UNCHANGED <<pc, cur, why, lead>>
      BY <2>2, OthersRest
    <3> QED
      BY <3>1 DEF RecoveryStage, RecoveryGroup, RecoveryTold, StageOf, Verdict
  <2> QED
    BY <1>2, <2>1, <2>2 DEF Next
<1> QED
  BY <1>1, <1>2, Invariance, PTL DEF Spec, SharesRecovery, Recovery!Spec, Recovery!vars
=============================================================================
