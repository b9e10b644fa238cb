------------------------------ MODULE KiroExec ------------------------------
(***************************************************************************)
(* Concurrent chat requests served from a pool of Kiro accounts            *)
(* (internal/provider/kiro, Service.ExecuteFromIR).  Unlike Codex, a       *)
(* request reads the pool once and walks through the candidates it read,   *)
(* however the accounts change meanwhile; on each candidate it calls two   *)
(* runtime hosts in turn; and a rejected token is not recovered.           *)
(***************************************************************************)
EXTENDS AccountStore, FiniteSets

CONSTANTS
  Requests,       \* the requests, each with a goroutine of its own
  Disturbed,      \* the accounts the owner and the background tasks act on
  HostStatuses,   \* the statuses a runtime host may reject a call with
  None

ASSUME SetsAssumption ==
  /\ IsFiniteSet(Requests)
  /\ IsFiniteSet(Accounts)
  /\ Disturbed \subseteq Accounts
  /\ HostStatuses \subseteq Statuses
  /\ None \notin Accounts

VARIABLES
  pc,         \* where each request is
  todo,       \* the candidates a request has not tried yet
  cur,        \* the candidate a request's attempt runs on
  last,       \* lastStatus (0: none) and what lastMessage is recognised as
  answer,     \* the HTTP status a request was answered with (0: none yet)
  stats       \* the counters of the proxy

locals == <<todo, cur, last, answer>>
vars == <<acc, present, pc, todo, cur, last, answer, stats>>

Hosts == {"host1", "host2"}
Finished == {"served", "failed"}
PCs == {"new", "list", "next", "fresh", "failing", "succeeded"}
         \cup Hosts \cup Finished
Unheard == [status |-> 0, why |-> "plain"]

Goto(r, label) == pc' = [pc EXCEPT ![r] = label]

Return(r, label, status) ==
  /\ Goto(r, label)
  /\ answer' = [answer EXCEPT ![r] = status]
  /\ todo' = [todo EXCEPT ![r] = {}]
  /\ cur' = [cur EXCEPT ![r] = None]
  /\ last' = [last EXCEPT ![r] = Unheard]

RecordFailure == stats' = [stats EXCEPT !.total = @ + 1, !.failed = @ + 1]
RecordSuccess == stats' = [stats EXCEPT !.total = @ + 1, !.success = @ + 1]

Init ==
  /\ StoreInit
  /\ pc = [r \in Requests |-> "new"]
  /\ todo = [r \in Requests |-> {}]
  /\ cur = [r \in Requests |-> None]
  /\ last = [r \in Requests |-> Unheard]
  /\ answer = [r \in Requests |-> 0]
  /\ stats = [total |-> 0, success |-> 0, failed |-> 0]

-----------------------------------------------------------------------------
(* Admission and the list of candidates: two readings of the pool.          *)

RejectModel(r) ==
  /\ pc[r] = "new"
  /\ Return(r, "failed", 400) /\ RecordFailure
  /\ UNCHANGED store

RejectUnready(r) ==
  /\ pc[r] = "new"
  /\ \A a \in Accounts : ~Ready(a)
  /\ Return(r, "failed", 503) /\ RecordFailure
  /\ UNCHANGED store

Admit(r) ==
  /\ pc[r] = "new"
  /\ \E a \in Accounts : Ready(a)
  /\ Goto(r, "list")
  /\ UNCHANGED <<store, locals, stats>>

List(r) ==
  /\ pc[r] = "list"
  /\ todo' = [todo EXCEPT ![r] = {a \in Accounts : Ready(a)}]
  /\ Goto(r, "next")
  /\ UNCHANGED <<store, cur, last, answer, stats>>

(* Fault: the candidate stays in the list.                                  *)
TakeNextKept(r) ==
  /\ pc[r] = "next"
  /\ \E a \in todo[r] : cur' = [cur EXCEPT ![r] = a]
  /\ Goto(r, "fresh")
  /\ UNCHANGED <<store, todo, last, answer, stats>>

TakeNext(r) ==
  /\ pc[r] = "next"
  /\ \E a \in todo[r] :
       /\ cur' = [cur EXCEPT ![r] = a]
       /\ todo' = [todo EXCEPT ![r] = @ \ {a}]
  /\ Goto(r, "fresh")
  /\ UNCHANGED <<store, last, answer, stats>>

GiveUp(r) ==
  /\ pc[r] = "next"
  /\ todo[r] = {}
  /\ Return(r, "failed", 503) /\ RecordFailure
  /\ UNCHANGED store

-----------------------------------------------------------------------------
(* EnsureFreshAccount.                                                      *)

TokenFresh(r) ==
  /\ pc[r] = "fresh"
  /\ cur[r] \in present
  /\ Goto(r, "host1")
  /\ UNCHANGED <<store, locals, stats>>

RenewToken(r) ==
  /\ pc[r] = "fresh"
  /\ cur[r] \in present
  /\ Write(cur[r], TokenRenewed(acc[cur[r]]))
  /\ Goto(r, "host1")
  /\ UNCHANGED <<locals, stats>>

RenewFails(r) ==      \* also, with a plain reason, when the account is gone
  /\ pc[r] = "fresh"
  /\ \E w \in AuthReasons :
       /\ Write(cur[r], RefreshRejected(acc[cur[r]], w))
       /\ last' = [last EXCEPT ![r] = [status |-> 401, why |-> w]]
  /\ Goto(r, "failing")
  /\ UNCHANGED <<todo, cur, answer, stats>>

-----------------------------------------------------------------------------
(* The runtime hosts.                                                       *)

BuildFails(r) ==      \* no host has been called
  /\ pc[r] = "host1"
  /\ last' = [last EXCEPT ![r] = [status |-> 400, why |-> "plain"]]
  /\ Goto(r, "failing")
  /\ UNCHANGED <<store, todo, cur, answer, stats>>

NextHost(r) == Goto(r, IF pc[r] = "host1" THEN "host2" ELSE "failing")

HostRejects(r) ==
  /\ pc[r] \in Hosts
  /\ \E status \in HostStatuses, w \in Reasons :
       last' = [last EXCEPT ![r] = [status |-> status, why |-> w]]
  /\ NextHost(r)
  /\ UNCHANGED <<store, todo, cur, answer, stats>>

(* The call or the reading of its stream fails: the message is the error's, *)
(* the status, if any, is still the other host's.                           *)
HostFails(r) ==
  /\ pc[r] \in Hosts
  /\ \E w \in {"shape", "plain"} : last' = [last EXCEPT ![r].why = w]
  /\ NextHost(r)
  /\ UNCHANGED <<store, todo, cur, answer, stats>>

(* The stream was read to its end; nothing asks whether it said anything.   *)
Succeed(r) ==
  /\ pc[r] \in Hosts
  /\ Write(cur[r], MarkServed(acc[cur[r]]))
  /\ Goto(r, "succeeded")
  /\ UNCHANGED <<todo, cur, last, answer, stats>>

(* Fault: the second write of markSuccess counts the call as a failure.     *)
CountSuccessAsFailure(r) ==
  /\ pc[r] = "succeeded"
  /\ Return(r, "served", 200) /\ RecordFailure
  /\ UNCHANGED store

CountSuccess(r) ==    \* the second write of markSuccess
  /\ pc[r] = "succeeded"
  /\ Return(r, "served", 200) /\ RecordSuccess
  /\ UNCHANGED store

AttemptClass(r) ==
  IF last[r].status = 0 THEN "retryable_transport"
  ELSE ClassifyHTTPFailure(last[r].status, last[r].why)

AttemptFails(r) ==
  /\ pc[r] = "failing"
  /\ Write(cur[r], ApplyKiroDecision(acc[cur[r]], AttemptClass(r)))
  /\ Goto(r, "next")
  /\ cur' = [cur EXCEPT ![r] = None]
  /\ last' = [last EXCEPT ![r] = Unheard]
  /\ UNCHANGED <<todo, answer, stats>>

-----------------------------------------------------------------------------
Rest == UNCHANGED <<pc, locals, stats>>
Others == (\E a \in Disturbed : Disturb(a)) /\ Rest
Tick == TimePasses /\ Rest

Step(r) ==
  \/ RejectModel(r) \/ RejectUnready(r) \/ Admit(r) \/ List(r)
  \/ TakeNext(r) \/ GiveUp(r)
  \/ TokenFresh(r) \/ RenewToken(r) \/ RenewFails(r)
  \/ BuildFails(r) \/ HostRejects(r) \/ HostFails(r)
  \/ Succeed(r) \/ CountSuccess(r) \/ AttemptFails(r)

Next == (\E r \in Requests : Step(r)) \/ Others \/ Tick

Spec == Init /\ [][Next]_vars

-----------------------------------------------------------------------------
TypeOK ==
  /\ StoreTypeOK
  /\ pc \in [Requests -> PCs]
  /\ todo \in [Requests -> SUBSET Accounts]
  /\ cur \in [Requests -> Accounts \cup {None}]
  /\ last \in [Requests -> [status : Statuses \cup {0}, why : Reasons]]
  /\ answer \in [Requests -> {0, 200, 400, 503}]
  /\ stats \in [total : Nat, success : Nat, failed : Nat]

(* The counters are exactly the requests answered, on each of the return    *)
(* paths of ExecuteFromIR.                                                  *)
EveryRequestCountedOnce ==
  /\ stats.success = Cardinality({r \in Requests : pc[r] = "served"})
  /\ stats.failed = Cardinality({r \in Requests : pc[r] = "failed"})
  /\ stats.total = stats.success + stats.failed

(* A failure of the account, its token, its quota, a host or the transport  *)
(* leaves the account out of rotation, even if somebody else wrote it while *)
(* the attempt ran.  Nothing is claimed of a request that is itself at      *)
(* fault: the code rests the account for it all the same, where the         *)
(* requirements ask for an error of the request (requirements.md:117).      *)
FailureRestsAccount ==
  [][\A r \in Requests, a \in Accounts :
       /\ cur[r] = a
       /\ AttemptFails(r)
       /\ AttemptClass(r) # "request_shape"
       => ~Ready(a)']_vars

(* Once a request has read the pool, each of its own steps brings it nearer *)
(* to its answer, whatever becomes of the accounts meanwhile: it never goes *)
(* back to a candidate or a host, and needs no more than seven steps for a  *)
(* candidate.  (No fairness is needed to say so: a request that is not      *)
(* answered has stopped taking steps.)                                      *)
StepsLeft == [label \in PCs |->
  CASE label = "fresh" -> 6 [] label = "host1" -> 5 [] label = "host2" -> 4
    [] label = "failing" -> 3 [] label \in {"next", "succeeded"} -> 1 [] OTHER -> 0]
Remaining(r) == 7 * Cardinality(todo[r]) + StepsLeft[pc[r]]
EveryStepProgresses ==
  [][\A r \in Requests :
       Step(r) /\ pc[r] \notin {"new", "list"} => Remaining(r)' < Remaining(r)]_vars
=============================================================================
