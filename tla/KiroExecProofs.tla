--------------------------- MODULE KiroExecProofs ---------------------------
(***************************************************************************)
(* What KiroExec promises for any number of accounts and requests, any     *)
(* cooldowns and any statuses the hosts answer with.                       *)
(***************************************************************************)
EXTENDS KiroExec, AccountStoreProofs, FiniteSetTheorems

AttemptPCs == {"fresh", "failing", "succeeded"} \cup Hosts
InHand == \A r \in Requests : pc[r] \in AttemptPCs => cur[r] \in Accounts

IInv == TypeOK /\ HealthAgrees /\ InHand

-----------------------------------------------------------------------------
(* Every step rewrites an account in one of the ways Rewritten lists.       *)
LEMMA AttemptClassIsClass ==
  ASSUME NEW r PROVE AttemptClass(r) \in FailureClasses
<1>1. "retryable_transport" \in FailureClasses
  BY DEF FailureClasses
<1> QED
  BY <1>1, ClassIsClass DEF AttemptClass

LEMMA StepRewrites ==
  ASSUME TypeOK, NEW r \in Requests, Step(r)
  PROVE  StoreStep
<1> StoreTypeOK
  BY DEF TypeOK
<1> DEFINE x == acc[cur[r]]
<1>1. CASE RenewToken(r)
  <2>1. Rewritten(x, TokenRenewed(x))
    BY DEF Rewritten
  <2> QED
    BY <1>1, <2>1, WriteRewrites DEF RenewToken
<1>2. CASE RenewFails(r)
  <2>1. PICK w \in AuthReasons : Write(cur[r], RefreshRejected(x, w))
    BY <1>2 DEF RenewFails
  <2>2. Rewritten(x, RefreshRejected(x, w))
    BY Choices DEF Rewritten
  <2> QED
    BY <2>1, <2>2, WriteRewrites
<1>3. CASE Succeed(r)
  <2>1. Rewritten(x, MarkServed(x))
    BY DEF Rewritten, MarkServed, TokenRenewed
  <2> QED
    BY <1>3, <2>1, WriteRewrites DEF Succeed
<1>4. CASE AttemptFails(r)
  <2>1. Rewritten(x, ApplyKiroDecision(x, AttemptClass(r)))
    BY AttemptClassIsClass DEF Rewritten
  <2> QED
    BY <1>4, <2>1, WriteRewrites DEF AttemptFails
<1>5. CASE UNCHANGED store
  BY <1>5, StoreKept DEF store
<1> QED
  BY <1>1, <1>2, <1>3, <1>4, <1>5
  DEF Step, RejectModel, RejectUnready, Admit, List, TakeNext, GiveUp, TokenFresh, BuildFails,
      HostRejects, HostFails, CountSuccess

LEMMA NextRewrites ==
  ASSUME TypeOK, [Next]_vars
  PROVE  StoreStep
<1> StoreTypeOK
  BY DEF TypeOK
<1>1. CASE \E r \in Requests : Step(r)
  BY <1>1, StepRewrites
<1>2. CASE Others
  BY <1>2, DisturbRewrites, SetsAssumption DEF Others
<1>3. CASE Tick
  BY <1>3, TimeRewrites DEF Tick
<1>4. CASE UNCHANGED vars
  BY <1>4, StoreKept DEF vars
<1> QED
  BY <1>1, <1>2, <1>3, <1>4 DEF Next

LEMMA OthersRest ==
  ASSUME Others \/ Tick \/ UNCHANGED vars
  PROVE  UNCHANGED <<pc, todo, cur, last, answer, stats>>
BY DEF Others, Tick, Rest, vars, locals

-----------------------------------------------------------------------------
(* A step of a request finishes it and counts it, or moves it on.           *)
Finishes(r) ==
  /\ pc[r] \notin Finished
  /\ \/ RecordFailure /\ \E status \in {400, 503} : Return(r, "failed", status)
     \/ RecordSuccess /\ Return(r, "served", 200)

Moves(r) ==
  /\ \E label \in PCs \ Finished : Goto(r, label)
  /\ pc[r] \notin Finished
  /\ UNCHANGED <<answer, stats>>

LEMMA StepShapes ==
  ASSUME NEW r \in Requests, Step(r)
  PROVE  Finishes(r) \/ Moves(r)
<1> USE DEF PCs, Hosts, Finished
<1>1. CASE RejectModel(r) \/ RejectUnready(r) \/ GiveUp(r) \/ CountSuccess(r)
  BY <1>1 DEF RejectModel, RejectUnready, GiveUp, CountSuccess, Finishes
<1>2. CASE Admit(r) \/ List(r) \/ TakeNext(r) \/ TokenFresh(r) \/ RenewToken(r)
  BY <1>2 DEF Admit, List, TakeNext, TokenFresh, RenewToken, Moves, locals
<1>3. CASE RenewFails(r) \/ BuildFails(r) \/ AttemptFails(r) \/ Succeed(r)
  BY <1>3 DEF RenewFails, BuildFails, AttemptFails, Succeed, Moves, locals
<1>4. CASE HostRejects(r) \/ HostFails(r)
  BY <1>4 DEF HostRejects, HostFails, NextHost, Moves
<1> QED
  BY <1>1, <1>2, <1>3, <1>4 DEF Step

LEMMA LastTyped ==
  ASSUME TypeOK, NEW r \in Requests, Step(r)
  PROVE  last' \in [Requests -> [status : Statuses \cup {0}, why : Reasons]]
<1> DEFINE Heard == [status : Statuses \cup {0}, why : Reasons]
<1>1. last \in [Requests -> Heard]
  BY DEF TypeOK
<1>2. 400 \in Statuses /\ 401 \in Statuses /\ "plain" \in Reasons /\ "shape" \in Reasons
  BY DEF Statuses, Reasons
<1>3. Unheard \in Heard
  BY <1>2 DEF Unheard
<1>4. CASE \E heard \in Heard : last' = [last EXCEPT ![r] = heard]
  BY <1>1, <1>4
<1>5. CASE UNCHANGED last
  BY <1>1, <1>5
<1>6. CASE Finishes(r)
  BY <1>3, <1>4, <1>6 DEF Finishes, Return
<1>7. CASE AttemptFails(r)
  BY <1>3, <1>4, <1>7 DEF AttemptFails
<1>8. CASE RenewFails(r)
  <2>1. PICK w \in AuthReasons : last' = [last EXCEPT ![r] = [status |-> 401, why |-> w]]
    BY <1>8 DEF RenewFails
  <2>2. [status |-> 401, why |-> w] \in Heard
    BY <1>2, Choices
  <2> QED
    BY <1>4, <2>1, <2>2
<1>9. CASE BuildFails(r)
  <2>1. [status |-> 400, why |-> "plain"] \in Heard
    BY <1>2
  <2> QED
    BY <1>4, <1>9, <2>1 DEF BuildFails
<1>10. CASE HostRejects(r)
  <2>1. PICK status \in HostStatuses, w \in Reasons :
          last' = [last EXCEPT ![r] = [status |-> status, why |-> w]]
    BY <1>10 DEF HostRejects
  <2>2. [status |-> status, why |-> w] \in Heard
    BY SetsAssumption
  <2> QED
    BY <1>4, <2>1, <2>2
<1>11. CASE HostFails(r)
  <2>1. PICK w \in {"shape", "plain"} : last' = [last EXCEPT ![r].why = w]
    BY <1>11 DEF HostFails
  <2>2. last[r] \in Heard /\ w \in Reasons
    BY <1>1, <1>2
  <2>3. [last[r] EXCEPT !.why = w] \in Heard
    BY <2>2, Zenon
  <2> QED
    BY <1>4, <2>1, <2>3
<1> QED
  BY <1>5, <1>6, <1>7, <1>8, <1>9, <1>10, <1>11, StepShapes
  DEF Step, RejectModel, RejectUnready, Admit, List, TakeNext, GiveUp, TokenFresh, RenewToken,
      Succeed, CountSuccess, locals, Finishes, Moves

LEMMA ListsTyped ==
  ASSUME TypeOK, NEW r \in Requests, Step(r)
  PROVE  /\ todo' \in [Requests -> SUBSET Accounts]
         /\ cur' \in [Requests -> Accounts \cup {None}]
<1> USE DEF TypeOK
<1>1. CASE Finishes(r)
  BY <1>1 DEF Finishes, Return
<1>2. CASE List(r)
  BY <1>2 DEF List
<1>3. CASE TakeNext(r)
  BY <1>3 DEF TakeNext
<1>4. CASE AttemptFails(r)
  BY <1>4 DEF AttemptFails
<1>5. CASE UNCHANGED <<todo, cur>>
  BY <1>5
<1> QED
  BY <1>1, <1>2, <1>3, <1>4, <1>5, StepShapes
  DEF Step, RejectModel, RejectUnready, Admit, GiveUp, TokenFresh, RenewToken, RenewFails,
      BuildFails, HostRejects, HostFails, Succeed, CountSuccess, locals, Finishes, Moves

LEMMA CountersTyped ==
  ASSUME TypeOK, NEW r \in Requests, Step(r)
  PROVE  /\ pc' \in [Requests -> PCs]
         /\ answer' \in [Requests -> {0, 200, 400, 503}]
         /\ stats' \in [total : Nat, success : Nat, failed : Nat]
<1>0. /\ stats \in [total : Nat, success : Nat, failed : Nat]
      /\ stats.total + 1 \in Nat /\ stats.success + 1 \in Nat /\ stats.failed + 1 \in Nat
  BY DEF TypeOK
<1>1. CASE Finishes(r)
  <2>1. /\ pc' \in [Requests -> PCs]
        /\ answer' \in [Requests -> {0, 200, 400, 503}]
    BY <1>1 DEF Finishes, Return, Goto, TypeOK, PCs, Finished
  <2>2. RecordFailure => stats' \in [total : Nat, success : Nat, failed : Nat]
    BY <1>0, Zenon DEF RecordFailure
  <2>3. RecordSuccess => stats' \in [total : Nat, success : Nat, failed : Nat]
    BY <1>0, Zenon DEF RecordSuccess
  <2> QED
    BY <1>1, <2>1, <2>2, <2>3 DEF Finishes
<1>2. CASE Moves(r)
  BY <1>0, <1>2 DEF Moves, Goto, TypeOK
<1> QED
  BY <1>1, <1>2, StepShapes

LEMMA InHandKept ==
  ASSUME TypeOK, InHand, NEW r \in Requests, Step(r)
  PROVE  InHand'
<1> USE DEF TypeOK, InHand, AttemptPCs, Hosts
<1>1. CASE Finishes(r)
  BY <1>1 DEF Finishes, Return, Goto
<1>2. CASE TakeNext(r)
  BY <1>2 DEF TakeNext, Goto
<1>3. CASE List(r) \/ Admit(r) \/ AttemptFails(r)
  BY <1>3 DEF List, Admit, AttemptFails, Goto, locals
<1>4. CASE TokenFresh(r) \/ RenewToken(r) \/ RenewFails(r) \/ BuildFails(r)
             \/ HostRejects(r) \/ HostFails(r) \/ Succeed(r)
  <2>1. /\ cur' = cur /\ pc[r] \in AttemptPCs
        /\ \E label \in AttemptPCs : Goto(r, label)
    BY <1>4 DEF TokenFresh, RenewToken, RenewFails, BuildFails, HostRejects, HostFails, NextHost,
                Succeed, locals
  <2> QED
    BY <2>1 DEF Goto
<1> QED
  BY <1>1, <1>2, <1>3, <1>4, StepShapes
  DEF Step, RejectModel, RejectUnready, GiveUp, CountSuccess, Finishes, Moves

-----------------------------------------------------------------------------
LEMMA InitIInv == Init => IInv
<1> SUFFICES ASSUME Init PROVE IInv
  OBVIOUS
<1>1. StoreTypeOK /\ HealthAgrees
  BY StoreInitial DEF Init
<1>2. Unheard \in [status : Statuses \cup {0}, why : Reasons]
  BY DEF Unheard, Reasons
<1> QED
  BY <1>1, <1>2 DEF Init, IInv, TypeOK, InHand, AttemptPCs, Hosts, PCs

LEMMA NextIInv == IInv /\ [Next]_vars => IInv'
<1> SUFFICES ASSUME IInv, [Next]_vars PROVE IInv'
  OBVIOUS
<1>1. StoreTypeOK' /\ HealthAgrees'
  BY NextRewrites, StoreTyped DEF IInv, TypeOK
<1>2. CASE \E r \in Requests : Step(r)
  <2>1. PICK r \in Requests : Step(r)
    BY <1>2
  <2>2. TypeOK'
    BY <1>1, <2>1, LastTyped, ListsTyped, CountersTyped DEF IInv, TypeOK
  <2> QED
    BY <1>1, <2>1, <2>2, InHandKept DEF IInv
<1>3. CASE Others \/ Tick \/ UNCHANGED vars
  <2>1. UNCHANGED <<pc, todo, cur, last, answer, stats>>
    BY <1>3, OthersRest
  <2> QED
    BY <1>1, <2>1 DEF IInv, TypeOK, InHand
<1> QED
  BY <1>2, <1>3 DEF Next

-----------------------------------------------------------------------------
(* The variables keep their types and an attempt has an account in hand, in *)
(* every reachable state, whoever writes the accounts meanwhile.            *)
THEOREM Invariance == Spec => []IInv
BY InitIInv, NextIInv, PTL DEF Spec

THEOREM TypeCorrect == Spec => []TypeOK
<1>1. IInv => TypeOK
  BY DEF IInv
<1> QED
  BY <1>1, Invariance, PTL

(* The health label written by markSuccess, applyFailureDecision and the    *)
(* other writers of a Kiro account agrees with the flags.                   *)
THEOREM HealthAgreesAlways == Spec => []HealthAgrees
<1>1. IInv => HealthAgrees
  BY DEF IInv
<1> QED
  BY <1>1, Invariance, PTL

(* Only the owner, by the switch or by a login, returns a switched-off      *)
(* account to the pool, although markSuccess lifts bans.                    *)
THEOREM OnlyOwnerReturns == Spec => OnlyOwnerReturnsAccount
<1> DEFINE Returned ==
      \A a \in Accounts :
        SwitchedOff(acc[a]) /\ Available(acc'[a]) => OwnerSwitches(a, TRUE) \/ OwnerConnects(a)
<1>1. IInv /\ [Next]_vars => [Returned]_store
  <2> SUFFICES ASSUME IInv, [Next]_vars PROVE Returned
    OBVIOUS
  <2>1. StoreTypeOK /\ HealthAgrees /\ StoreStep
    BY NextRewrites DEF IInv, TypeOK
  <2> QED
    BY <2>1, OwnerAloneReturns DEF OwnerReturns
<1> QED
  BY <1>1, Invariance, PTL DEF Spec, OnlyOwnerReturnsAccount

(* However an attempt of executeWithAccount fails, its account rests.       *)
THEOREM FailureRestsAlways == Spec => FailureRestsAccount
<1> DEFINE Rests ==
      \A r \in Requests, a \in Accounts :
        /\ cur[r] = a
        /\ AttemptFails(r)
        /\ AttemptClass(r) # "request_shape"
        => ~Ready(a)'
<1>1. TypeOK /\ [Next]_vars => [Rests]_vars
  <2> SUFFICES ASSUME TypeOK, NEW r \in Requests, NEW a \in Accounts,
                      cur[r] = a, AttemptFails(r)
               PROVE  ~Ready(a)'
    OBVIOUS
  <2> StoreTypeOK
    BY DEF TypeOK
  <2>1. Write(a, ApplyKiroDecision(acc[a], AttemptClass(r)))
    BY DEF AttemptFails
  <2>2. ~Available(ApplyKiroDecision(acc[a], AttemptClass(r)))
    BY AttemptClassIsClass, KiroFailureRests DEF StoreTypeOK
  <2> QED
    BY <2>1, <2>2, WriteOne DEF Ready
<1> QED
  BY <1>1, TypeCorrect, PTL DEF Spec, FailureRestsAccount

-----------------------------------------------------------------------------
(* The counters.                                                            *)

With(label) == {r \in Requests : pc[r] = label}

(* One more request has finished with the label, the others as before.      *)
LEMMA OneMore ==
  ASSUME TypeOK, NEW r \in Requests, NEW label \in Finished, NEW other \in Finished,
         other # label, pc[r] \notin Finished, Goto(r, label)
  PROVE  /\ Cardinality(With(label)') = Cardinality(With(label)) + 1
         /\ With(other)' = With(other)
<1>1. With(label)' = With(label) \cup {r} /\ r \notin With(label)
  BY DEF With, Goto, TypeOK
<1>2. With(other)' = With(other)
  BY DEF With, Goto, TypeOK
<1>3. IsFiniteSet(With(label))
  BY SetsAssumption, FS_Subset DEF With
<1> QED
  BY <1>1, <1>2, <1>3, FS_AddElement

(* ExecuteFromIR counts every request on exactly one of its return paths.   *)
LEMMA CountedOnceKept ==
  ASSUME TypeOK, EveryRequestCountedOnce, [Next]_vars
  PROVE  EveryRequestCountedOnce'
<1>0. /\ EveryRequestCountedOnce <=>
           /\ stats.success = Cardinality(With("served"))
           /\ stats.failed = Cardinality(With("failed"))
           /\ stats.total = stats.success + stats.failed
      /\ EveryRequestCountedOnce' <=>
           /\ stats'.success = Cardinality(With("served")')
           /\ stats'.failed = Cardinality(With("failed")')
           /\ stats'.total = stats'.success + stats'.failed
  BY DEF With, EveryRequestCountedOnce
<1>1. ASSUME NEW r \in Requests, pc[r] \notin Finished, Goto(r, "failed"), RecordFailure
      PROVE  EveryRequestCountedOnce'
  <2>1. /\ Cardinality(With("failed")') = Cardinality(With("failed")) + 1
        /\ With("served")' = With("served")
    BY <1>1, OneMore DEF Finished
  <2>2. /\ stats'.total = stats.total + 1
        /\ stats'.failed = stats.failed + 1
        /\ stats'.success = stats.success
    BY <1>1 DEF RecordFailure, TypeOK
  <2> QED
    BY <1>0, <2>1, <2>2 DEF TypeOK
<1>2. ASSUME NEW r \in Requests, pc[r] \notin Finished, Goto(r, "served"), RecordSuccess
      PROVE  EveryRequestCountedOnce'
  <2>1. /\ Cardinality(With("served")') = Cardinality(With("served")) + 1
        /\ With("failed")' = With("failed")
    BY <1>2, OneMore DEF Finished
  <2>2. /\ stats'.total = stats.total + 1
        /\ stats'.failed = stats.failed
        /\ stats'.success = stats.success + 1
    BY <1>2 DEF RecordSuccess, TypeOK
  <2> QED
    BY <1>0, <2>1, <2>2 DEF TypeOK
<1>3. CASE \E r \in Requests : Step(r)
  <2>1. PICK r \in Requests : Step(r)
    BY <1>3
  <2>2. CASE Finishes(r)
    BY <1>1, <1>2, <2>2 DEF Finishes, Return
  <2>3. CASE Moves(r)
    <3>1. With("served")' = With("served") /\ With("failed")' = With("failed")
      BY <2>3 DEF With, Moves, Goto, Finished, TypeOK
    <3> QED
      BY <1>0, <2>3, <3>1 DEF Moves
  <2> QED
    BY <2>1, <2>2, <2>3, StepShapes
<1>4. CASE Others \/ Tick \/ UNCHANGED vars
  <2>1. UNCHANGED stats /\ With("served")' = With("served") /\ With("failed")' = With("failed")
    BY <1>4, OthersRest DEF With
  <2> QED
    BY <1>0, <2>1
<1> QED
  BY <1>3, <1>4 DEF Next

THEOREM CountedOnce == Spec => []EveryRequestCountedOnce
<1>1. Init => EveryRequestCountedOnce
  <2> SUFFICES ASSUME Init PROVE EveryRequestCountedOnce
    OBVIOUS
  <2>1. {r \in Requests : pc[r] = "served"} = {} /\ {r \in Requests : pc[r] = "failed"} = {}
    BY DEF Init
  <2>2. stats.total = 0 /\ stats.success = 0 /\ stats.failed = 0
    BY DEF Init
  <2> QED
    BY <2>1, <2>2, FS_EmptySet DEF EveryRequestCountedOnce
<1>2. TypeOK /\ EveryRequestCountedOnce /\ [Next]_vars => EveryRequestCountedOnce'
  BY CountedOnceKept
<1> QED
  BY <1>1, <1>2, TypeCorrect, PTL DEF Spec

-----------------------------------------------------------------------------
(* The way to the answer.                                                   *)

LEMMA StepsLeftValues ==
  /\ StepsLeft["fresh"] = 6 /\ StepsLeft["host1"] = 5 /\ StepsLeft["host2"] = 4
  /\ StepsLeft["failing"] = 3 /\ StepsLeft["next"] = 1 /\ StepsLeft["succeeded"] = 1
  /\ StepsLeft["served"] = 0 /\ StepsLeft["failed"] = 0
BY DEF StepsLeft, PCs, Hosts, Finished

(* A step that leaves the candidates alone or drops them goes to a place    *)
(* nearer to the end; one that takes a candidate shortens the list.         *)
LEMMA StepGoesOn ==
  ASSUME TypeOK, NEW r \in Requests, Step(r), pc[r] \notin {"new", "list"}
  PROVE  /\ pc[r] \in PCs /\ pc'[r] \in PCs
         /\ \/ todo'[r] \in {todo[r], {}} /\ StepsLeft[pc'[r]] < StepsLeft[pc[r]]
            \/ /\ \E a \in todo[r] : todo'[r] = todo[r] \ {a}
               /\ pc[r] = "next" /\ pc'[r] = "fresh"
<1> USE StepsLeftValues DEF TypeOK, PCs, Hosts, Finished
<1>1. CASE GiveUp(r) \/ CountSuccess(r)
  BY <1>1 DEF GiveUp, CountSuccess, Return, Goto
<1>2. CASE TakeNext(r)
  BY <1>2 DEF TakeNext, Goto
<1>3. CASE TokenFresh(r) \/ RenewToken(r) \/ RenewFails(r)
  BY <1>3 DEF TokenFresh, RenewToken, RenewFails, Goto, locals
<1>4. CASE BuildFails(r) \/ HostRejects(r) \/ HostFails(r)
  BY <1>4 DEF BuildFails, HostRejects, HostFails, NextHost, Goto
<1>5. CASE Succeed(r) \/ AttemptFails(r)
  BY <1>5 DEF Succeed, AttemptFails, Goto
<1>6. ~(RejectModel(r) \/ RejectUnready(r) \/ Admit(r) \/ List(r))
  BY DEF RejectModel, RejectUnready, Admit, List
<1> QED
  BY <1>1, <1>2, <1>3, <1>4, <1>5, <1>6 DEF Step

(* Each step of a request that has read the pool brings ExecuteFromIR       *)
(* nearer to its return, for any number of candidates.                      *)
THEOREM EveryStepProgressesAlways == Spec => EveryStepProgresses
<1> DEFINE Progress ==
      \A r \in Requests :
        Step(r) /\ pc[r] \notin {"new", "list"} => Remaining(r)' < Remaining(r)
<1>1. TypeOK /\ [Next]_vars => [Progress]_vars
  <2> SUFFICES ASSUME TypeOK, NEW r \in Requests, Step(r), pc[r] \notin {"new", "list"}
               PROVE  Remaining(r)' < Remaining(r)
    OBVIOUS
  <2> DEFINE n == Cardinality(todo[r])
             m == Cardinality(todo'[r])
  <2>1. IsFiniteSet(todo[r]) /\ n \in Nat
    BY SetsAssumption, FS_Subset, FS_CardinalityType DEF TypeOK
  <2>2. StepsLeft[pc[r]] \in 0..6 /\ StepsLeft[pc'[r]] \in 0..6
    BY StepGoesOn DEF StepsLeft, PCs
  <2>3. CASE todo'[r] \in {todo[r], {}} /\ StepsLeft[pc'[r]] < StepsLeft[pc[r]]
    <3>1. m \in Nat /\ m <= n
      BY <2>1, <2>3, FS_EmptySet
    <3> QED
      BY <2>1, <2>2, <2>3, <3>1 DEF Remaining
  <2>4. CASE /\ \E a \in todo[r] : todo'[r] = todo[r] \ {a}
             /\ pc[r] = "next" /\ pc'[r] = "fresh"
    <3>1. m = n - 1
      BY <2>1, <2>4, FS_RemoveElement
    <3>2. StepsLeft[pc'[r]] = 6 /\ StepsLeft[pc[r]] = 1
      BY <2>4, StepsLeftValues
    <3> QED
      BY <2>1, <3>1, <3>2 DEF Remaining
  <2> QED
    BY <2>3, <2>4, StepGoesOn
<1> QED
  BY <1>1, TypeCorrect, PTL DEF Spec, EveryStepProgresses
=============================================================================
