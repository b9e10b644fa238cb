------------------------- MODULE AuthSessionProofs -------------------------
(***************************************************************************)
(* Proofs about the logins of AuthSession, for any number of sessions of   *)
(* any kind.                                                               *)
(***************************************************************************)
EXTENDS AuthSession, TLAPS

-----------------------------------------------------------------------------
(* The inductive invariant.  Beside the properties it says what account a   *)
(* flow holds in its hands.                                                 *)

InHand ==
  \A f \in Flows :
    /\ pc[f] = "store" => id[f] \in Sessions
    /\ pc[f] = "finish" => id[f] \in stored

IInv == TypeOK /\ PendingIsWatched /\ InHand /\ SuccessIsConnected

LEMMA InitIInv == Init => IInv
<1> SUFFICES ASSUME Init PROVE IInv
  OBVIOUS
<1>1. TypeOK
  BY DEF Init, TypeOK, PCs, Kinds, Statuses, Contexts, Results
<1>2. PendingIsWatched /\ InHand /\ SuccessIsConnected
  BY DEF Init, PendingIsWatched, InHand, SuccessIsConnected
<1> QED
  BY <1>1, <1>2 DEF IInv

USE DEF Flows

LEMMA FlowParts == \A f \in Flows : f[1] \in Sessions
OBVIOUS

LEMMA DoneType == \A c \in Contexts : Done(c) \in Contexts \ {"live"}
BY DEF Done, Contexts

(* The variables keep their types.                                          *)
LEMMA TypeStep == IInv /\ [Next]_vars => TypeOK'
<1> SUFFICES ASSUME IInv, [Next]_vars PROVE TypeOK'
  OBVIOUS
<1> USE DEF TypeOK, IInv, PCs, Kinds, Statuses, Contexts, Results, Done
<1>1. ASSUME NEW s \in Sessions, NEW k \in Logins[s], BeginLogin(s, k) PROVE TypeOK'
  <2>1. k \in Kinds
    BY LoginsAssumption
  <2> QED
    BY <1>1, <2>1 DEF BeginLogin, social, views
<1>2. ASSUME NEW s \in Sessions, LoginRefused(s) \/ LoginStarts(s) \/ CancelAuth(s)
                                 \/ SubmitAuthCode(s) \/ TimerFires(s) \/ ExpireAuthSession(s)
      PROVE TypeOK'
  <2>1. CASE LoginRefused(s) BY <2>1 DEF LoginRefused, social
  <2>2. CASE LoginStarts(s) BY <2>2 DEF LoginStarts
  <2>3. CASE CancelAuth(s) BY <2>3 DEF CancelAuth, social
  <2>4. CASE SubmitAuthCode(s) BY <2>4 DEF SubmitAuthCode, social, views
  <2>5. CASE TimerFires(s) BY <2>5 DEF TimerFires, social, views
  <2>6. CASE ExpireAuthSession(s) BY <2>6 DEF ExpireAuthSession, social
  <2> QED BY <1>2, <2>1, <2>2, <2>3, <2>4, <2>5, <2>6
<1>3. ASSUME NEW s \in Sessions, CodexCallback(s) \/ SocialCallback(s) \/ ListenerBreaks(s)
                                 \/ ListenerCloses(s)
      PROVE TypeOK'
  <2>1. CASE CodexCallback(s) BY <2>1 DEF CodexCallback, social, views
  <2>2. CASE SocialCallback(s) BY <2>2 DEF SocialCallback, Offered, views
  <2>3. CASE ListenerBreaks(s) BY <2>3 DEF ListenerBreaks, Offered, views
  <2>4. CASE ListenerCloses(s) BY <2>4 DEF ListenerCloses, views
  <2> QED BY <1>3, <2>1, <2>2, <2>3, <2>4
<1>4. ASSUME NEW s \in Sessions, MainStep(s) PROVE TypeOK'
  <2>1. CASE TakeSnapshot(s) BY <2>1 DEF TakeSnapshot, social, views
  <2>2. CASE TakeCallback(s) BY <2>2 DEF TakeCallback, views
  <2>3. CASE WaitEnds(s) BY <2>3 DEF WaitEnds, social, views
  <2> QED BY <1>4, <2>1, <2>2, <2>3 DEF MainStep
<1>5. ASSUME NEW f \in Flows, FlowStep(f) PROVE TypeOK'
  <2>1. CASE Exchange(f)
    BY <2>1, FlowParts DEF Exchange, social, views
  <2>6. CASE ExchangeFails(f)
    BY <2>6, FlowParts DEF ExchangeFails, social, views
  <2>2. CASE LookUpAccount(f)
    BY <2>2, FlowParts DEF LookUpAccount, social, views
  <2>3. CASE StoreAccount(f)
    BY <2>3 DEF StoreAccount, InHand, social, views
  <2>4. CASE FinishAuthSuccess(f)
    BY <2>4, FlowParts DEF FinishAuthSuccess, InHand, social, views
  <2>5. CASE FinishAuthError(f)
    <3>1. status' \in [Sessions -> Statuses] /\ ctx' \in [Sessions -> Contexts]
      BY <2>5, FlowParts DEF FinishAuthError
    <3>2. pc' \in [Flows -> PCs] /\ id' \in [Flows -> Sessions \cup {NoAccount}]
      BY <2>5 DEF FinishAuthError
    <3> QED
      BY <2>5, <3>1, <3>2 DEF FinishAuthError, social
  <2> QED BY <1>5, <2>1, <2>2, <2>3, <2>4, <2>5, <2>6 DEF FlowStep
<1>6. ASSUME NEW p \in {"codex", "kiro"}, Shutdown(p) PROVE TypeOK'
  BY <1>6 DEF Shutdown, social, views
<1>7. CASE CallbackServerFails \/ UNCHANGED vars
  BY <1>7 DEF CallbackServerFails, vars, social, views
<1> QED
  BY <1>1, <1>2, <1>3, <1>4, <1>5, <1>6, <1>7 DEF Next

-----------------------------------------------------------------------------
ContextKept == UNCHANGED <<status, ctx, watched>>

(* Every step leaves the status, context and watcher of a session alone,    *)
(* starts it, ends its context while it is watched, or ends it.             *)
LEMMA ContextShapes ==
  ASSUME IInv, [Next]_vars, NEW t \in Sessions
  PROVE  \/ status'[t] = status[t] /\ ctx'[t] = ctx[t]
            /\ (t \in watched => t \in watched')
         \/ status'[t] = "pending" /\ ctx'[t] = "live" /\ t \in watched'
         \/ status'[t] = status[t] /\ ctx'[t] # "live" /\ (t \in watched => t \in watched')
         \/ status'[t] # "pending" /\ ctx'[t] # "live"
<1> USE DEF TypeOK, IInv, PendingIsWatched, Done, InMap, Ended, IsDone
<1>1. ASSUME NEW s \in Sessions, NEW k \in Logins[s], BeginLogin(s, k)
      PROVE  \/ status'[t] = status[t] /\ ctx'[t] = ctx[t] /\ watched' = watched
             \/ status'[t] # "pending" /\ ctx'[t] # "live"
  BY <1>1 DEF BeginLogin
<1>2. ASSUME NEW s \in Sessions, LoginRefused(s) \/ LoginStarts(s) \/ CancelAuth(s)
                                 \/ SubmitAuthCode(s) \/ TimerFires(s) \/ ExpireAuthSession(s)
      PROVE  \/ status'[t] = status[t] /\ ctx'[t] = ctx[t] /\ (t \in watched => t \in watched')
             \/ status'[t] = "pending" /\ ctx'[t] = "live" /\ t \in watched'
             \/ status'[t] = status[t] /\ ctx'[t] # "live" /\ (t \in watched => t \in watched')
             \/ status'[t] # "pending" /\ ctx'[t] # "live"
  <2>1. CASE LoginRefused(s) BY <2>1 DEF LoginRefused
  <2>2. CASE LoginStarts(s) BY <2>2 DEF LoginStarts
  <2>3. CASE CancelAuth(s) BY <2>3 DEF CancelAuth
  <2>4. CASE SubmitAuthCode(s) BY <2>4 DEF SubmitAuthCode, views
  <2>5. CASE TimerFires(s) BY <2>5 DEF TimerFires, views
  <2>6. CASE ExpireAuthSession(s) BY <2>6 DEF ExpireAuthSession
  <2> QED BY <1>2, <2>1, <2>2, <2>3, <2>4, <2>5, <2>6
<1>3. ASSUME NEW s \in Sessions, CodexCallback(s) \/ SocialCallback(s) \/ ListenerBreaks(s)
                                 \/ ListenerCloses(s) \/ MainStep(s)
      PROVE  ContextKept
  BY <1>3 DEF CodexCallback, SocialCallback, ListenerBreaks, ListenerCloses, MainStep,
              TakeSnapshot, TakeCallback, WaitEnds, ContextKept, views
<1>5. ASSUME NEW f \in Flows, FlowStep(f)
      PROVE  \/ status'[t] = status[t] /\ ctx'[t] = ctx[t] /\ watched' = watched
             \/ status'[t] # "pending" /\ ctx'[t] # "live"
  <2>1. CASE Exchange(f) \/ ExchangeFails(f) \/ LookUpAccount(f) \/ StoreAccount(f)
    BY <2>1 DEF Exchange, ExchangeFails, LookUpAccount, StoreAccount, views
  <2>2. CASE FinishAuthSuccess(f)
    BY <2>2, FlowParts DEF FinishAuthSuccess
  <2>3. CASE FinishAuthError(f)
    BY <2>3, FlowParts DEF FinishAuthError
  <2> QED BY <1>5, <2>1, <2>2, <2>3 DEF FlowStep
<1>6. ASSUME NEW p \in {"codex", "kiro"}, Shutdown(p)
      PROVE  \/ status'[t] = status[t] /\ watched' = watched /\ ctx'[t] \in {ctx[t], Done(ctx[t])}
             \/ status'[t] # "pending" /\ ctx'[t] # "live"
  BY <1>6 DEF Shutdown
<1>7. CASE CallbackServerFails \/ UNCHANGED vars
  BY <1>7 DEF CallbackServerFails, vars, views
<1> QED
  BY <1>1, <1>2, <1>3, <1>5, <1>6, <1>7 DEF Next, ContextKept

LEMMA WatchedStep == IInv /\ [Next]_vars => PendingIsWatched'
<1> SUFFICES ASSUME IInv, [Next]_vars, NEW t \in Sessions
             PROVE  /\ status'[t] = "pending" => t \in watched'
                    /\ ctx'[t] = "live" => status'[t] = "pending"
  BY DEF PendingIsWatched
<1> QED
  BY ContextShapes DEF IInv, PendingIsWatched

(* What the flows hold in their hands.                                      *)
LEMMA InHandStep == IInv /\ [Next]_vars => InHand'
<1> SUFFICES ASSUME IInv, [Next]_vars PROVE InHand'
  OBVIOUS
<1> USE DEF TypeOK, IInv, InHand
<1>1. ASSUME NEW s \in Sessions,
             \/ \E k \in Logins[s] : BeginLogin(s, k)
             \/ LoginRefused(s) \/ LoginStarts(s) \/ CancelAuth(s) \/ SubmitAuthCode(s)
             \/ TimerFires(s) \/ ExpireAuthSession(s)
      PROVE InHand'
  BY <1>1 DEF BeginLogin, LoginRefused, LoginStarts, CancelAuth, SubmitAuthCode, TimerFires,
              ExpireAuthSession
<1>2. ASSUME NEW s \in Sessions, CodexCallback(s) \/ SocialCallback(s) \/ ListenerBreaks(s)
                                 \/ ListenerCloses(s) \/ MainStep(s)
      PROVE InHand'
  BY <1>2 DEF CodexCallback, SocialCallback, ListenerBreaks, ListenerCloses, MainStep,
              TakeSnapshot, TakeCallback, WaitEnds
<1>3. ASSUME NEW f \in Flows, FlowStep(f) PROVE InHand'
  <2>1. CASE Exchange(f) \/ ExchangeFails(f)
    BY <2>1 DEF Exchange, ExchangeFails
  <2>2. CASE LookUpAccount(f)
    BY <2>2, FlowParts DEF LookUpAccount
  <2>3. CASE StoreAccount(f)
    BY <2>3 DEF StoreAccount
  <2>4. CASE FinishAuthSuccess(f) \/ FinishAuthError(f)
    BY <2>4 DEF FinishAuthSuccess, FinishAuthError
  <2> QED BY <1>3, <2>1, <2>2, <2>3, <2>4 DEF FlowStep
<1>4. ASSUME NEW p \in {"codex", "kiro"}, Shutdown(p) PROVE InHand'
  BY <1>4 DEF Shutdown
<1>5. CASE CallbackServerFails \/ UNCHANGED vars
  BY <1>5 DEF CallbackServerFails, vars
<1> QED
  BY <1>1, <1>2, <1>3, <1>4, <1>5 DEF Next

LEMMA ConnectedStep == IInv /\ [Next]_vars => SuccessIsConnected'
<1> SUFFICES ASSUME IInv, [Next]_vars PROVE SuccessIsConnected'
  OBVIOUS
<1> USE DEF TypeOK, IInv, SuccessIsConnected
<1>1. ASSUME NEW s \in Sessions,
             \/ \E k \in Logins[s] : BeginLogin(s, k)
             \/ LoginRefused(s) \/ LoginStarts(s) \/ CancelAuth(s) \/ SubmitAuthCode(s)
             \/ TimerFires(s) \/ ExpireAuthSession(s)
      PROVE SuccessIsConnected'
  BY <1>1 DEF BeginLogin, LoginRefused, LoginStarts, CancelAuth, SubmitAuthCode, TimerFires,
              ExpireAuthSession, views
<1>2. ASSUME NEW s \in Sessions, CodexCallback(s) \/ SocialCallback(s) \/ ListenerBreaks(s)
                                 \/ ListenerCloses(s) \/ MainStep(s)
      PROVE SuccessIsConnected'
  BY <1>2 DEF CodexCallback, SocialCallback, ListenerBreaks, ListenerCloses, MainStep,
              TakeSnapshot, TakeCallback, WaitEnds, views
<1>3. ASSUME NEW f \in Flows, FlowStep(f) PROVE SuccessIsConnected'
  <2>1. CASE Exchange(f) \/ ExchangeFails(f) \/ LookUpAccount(f) \/ StoreAccount(f)
    BY <2>1 DEF Exchange, ExchangeFails, LookUpAccount, StoreAccount, views
  <2>2. CASE FinishAuthSuccess(f)
    BY <2>2, FlowParts DEF FinishAuthSuccess, InHand
  <2>3. CASE FinishAuthError(f)
    BY <2>3, FlowParts DEF FinishAuthError
  <2> QED BY <1>3, <2>1, <2>2, <2>3 DEF FlowStep
<1>4. ASSUME NEW p \in {"codex", "kiro"}, Shutdown(p) PROVE SuccessIsConnected'
  BY <1>4 DEF Shutdown
<1>5. CASE CallbackServerFails \/ UNCHANGED vars
  BY <1>5 DEF CallbackServerFails, vars, views
<1> QED
  BY <1>1, <1>2, <1>3, <1>4, <1>5 DEF Next

LEMMA StepIInv == IInv /\ [Next]_vars => IInv'
BY TypeStep, WatchedStep, InHandStep, ConnectedStep DEF IInv

(* The invariant holds of every state of every behaviour.                   *)
THEOREM Invariance == Spec => []IInv
BY InitIInv, StepIInv, PTL DEF Spec

(* The variables keep their types for any sessions and any kinds of login.  *)
THEOREM TypeCorrect == Spec => []TypeOK
<1>1. IInv => TypeOK
  BY DEF IInv
<1> QED
  BY <1>1, Invariance, PTL

(* A session that reports success names an account that was written to the  *)
(* store (finishAuthSuccess after upsertAccount, on every path).            *)
THEOREM SuccessIsConnectedAlways == Spec => []SuccessIsConnected
<1>1. IInv => SuccessIsConnected
  BY DEF IInv
<1> QED
  BY <1>1, Invariance, PTL

(* A pending session has a running timer or a watcher that will end it      *)
(* (expireAuthSession), and a session that is not pending has no live       *)
(* context.                                                                 *)
THEOREM PendingIsWatchedAlways == Spec => []PendingIsWatched
<1>1. IInv => PendingIsWatched
  BY DEF IInv
<1> QED
  BY <1>1, Invariance, PTL

-----------------------------------------------------------------------------
(* Only the provider's answer takes a flow from the exchange to the lookup. *)
LEMMA TokensNeedContext ==
  ASSUME IInv, [Next]_vars, NEW f \in Flows, pc[f] = "exchange", pc'[f] = "lookup"
  PROVE  ctx[f[1]] = "live"
<1> USE DEF TypeOK, IInv
<1>1. ASSUME NEW s \in Sessions,
             \/ \E k \in Logins[s] : BeginLogin(s, k)
             \/ LoginRefused(s) \/ LoginStarts(s) \/ CancelAuth(s) \/ SubmitAuthCode(s)
             \/ TimerFires(s) \/ ExpireAuthSession(s)
      PROVE FALSE
  BY <1>1 DEF BeginLogin, LoginRefused, LoginStarts, CancelAuth, SubmitAuthCode, TimerFires,
              ExpireAuthSession
<1>2. ASSUME NEW s \in Sessions, CodexCallback(s) \/ SocialCallback(s) \/ ListenerBreaks(s)
                                 \/ ListenerCloses(s) \/ MainStep(s)
      PROVE FALSE
  BY <1>2 DEF CodexCallback, SocialCallback, ListenerBreaks, ListenerCloses, MainStep,
              TakeSnapshot, TakeCallback, WaitEnds
<1>3. ASSUME NEW g \in Flows, FlowStep(g) PROVE ctx[f[1]] = "live"
  BY <1>3 DEF FlowStep, Exchange, ExchangeFails, LookUpAccount, StoreAccount,
              FinishAuthSuccess, FinishAuthError
<1>4. ASSUME NEW p \in {"codex", "kiro"}, Shutdown(p) PROVE FALSE
  BY <1>4 DEF Shutdown
<1>5. CASE CallbackServerFails \/ UNCHANGED vars
  BY <1>5 DEF CallbackServerFails, vars
<1> QED
  BY <1>1, <1>2, <1>3, <1>4, <1>5 DEF Next

(* No flow of a session gets tokens for it once it has ended: every outcome *)
(* and every cancel ends the context the exchange is bound to.              *)
THEOREM OnlyPendingLogsInAlways == Spec => OnlyPendingLogsIn
<1>1. IInv /\ [Next]_vars =>
        [\A f \in Flows :
           pc[f] = "exchange" /\ pc'[f] = "lookup" => status[f[1]] = "pending"]_vars
  BY TokensNeedContext, FlowParts DEF IInv, PendingIsWatched
<1> QED
  BY <1>1, Invariance, PTL DEF Spec, OnlyPendingLogsIn

(* No step but a cancel changes the outcome of a Kiro session in the map.   *)
LEMMA OutcomeKept ==
  ASSUME IInv, [Next]_vars, NEW t \in Sessions,
         kind[t] # "codex", Ended(t), ~CancelAuth(t)
  PROVE  status'[t] \in {status[t], "gone"}
<1> USE DEF TypeOK, IInv, Ended, InMap
<1>1. ASSUME NEW s \in Sessions,
             \/ \E k \in Logins[s] : BeginLogin(s, k)
             \/ LoginRefused(s) \/ LoginStarts(s) \/ CancelAuth(s) \/ SubmitAuthCode(s)
             \/ TimerFires(s) \/ ExpireAuthSession(s)
      PROVE status'[t] \in {status[t], "gone"}
  <2>1. CASE \E k \in Logins[s] : BeginLogin(s, k)
    BY <2>1 DEF BeginLogin
  <2>2. CASE CancelAuth(s)
    <3>1. s # t
      BY <2>2
    <3> QED
      BY <2>2, <3>1 DEF CancelAuth
  <2>3. CASE LoginRefused(s) \/ LoginStarts(s) \/ SubmitAuthCode(s) \/ TimerFires(s)
             \/ ExpireAuthSession(s)
    BY <2>3 DEF LoginRefused, LoginStarts, SubmitAuthCode, TimerFires, ExpireAuthSession, views
  <2> QED BY <1>1, <2>1, <2>2, <2>3
<1>2. ASSUME NEW s \in Sessions, CodexCallback(s) \/ SocialCallback(s) \/ ListenerBreaks(s)
                                 \/ ListenerCloses(s) \/ MainStep(s)
      PROVE status'[t] = status[t]
  BY <1>2 DEF CodexCallback, SocialCallback, ListenerBreaks, ListenerCloses, MainStep,
              TakeSnapshot, TakeCallback, WaitEnds, views
<1>3. ASSUME NEW f \in Flows, FlowStep(f) PROVE status'[t] = status[t]
  <2>1. CASE Exchange(f) \/ ExchangeFails(f) \/ LookUpAccount(f) \/ StoreAccount(f)
    BY <2>1 DEF Exchange, ExchangeFails, LookUpAccount, StoreAccount, views
  <2>2. CASE FinishAuthSuccess(f)
    BY <2>2, FlowParts DEF FinishAuthSuccess, MayFinish
  <2>3. CASE FinishAuthError(f)
    BY <2>3, FlowParts DEF FinishAuthError, MayFinish
  <2> QED BY <1>3, <2>1, <2>2, <2>3 DEF FlowStep
<1>4. ASSUME NEW p \in {"codex", "kiro"}, Shutdown(p)
      PROVE status'[t] \in {status[t], "gone"}
  BY <1>4 DEF Shutdown
<1>5. CASE CallbackServerFails \/ UNCHANGED vars
  BY <1>5 DEF CallbackServerFails, vars, views
<1> QED
  BY <1>1, <1>2, <1>3, <1>4, <1>5 DEF Next

(* The first flow, timer or cancel to end a Kiro login decides its outcome: *)
(* finishAuthSuccess, finishAuthError and expireAuthSession of the others   *)
(* find the session no longer pending.                                      *)
THEOREM KiroOutcomeStandsAlways == Spec => KiroOutcomeStands
<1>1. IInv /\ [Next]_vars =>
        [\A s \in Sessions :
           kind[s] # "codex" /\ Ended(s) /\ ~CancelAuth(s)
             => status'[s] \in {status[s], "gone"}]_vars
  BY OutcomeKept
<1> QED
  BY <1>1, Invariance, PTL DEF Spec, KiroOutcomeStands
=============================================================================
