---------------------------- MODULE AuthSession ----------------------------
(***************************************************************************)
(* The logins that connect an account: the Codex browser login             *)
(* (internal/auth/codex) and the Kiro device and social logins             *)
(* (internal/auth/kiro), from the owner's StartAuth to the account in the  *)
(* store, with everything that may write a session meanwhile: its own      *)
(* goroutine or callback, a code the owner pastes or the operating system  *)
(* hands over, the timer of its context, the owner's cancel, the clean-up  *)
(* of a later login and the shutdown.                                      *)
(*                                                                         *)
(* Names, tokens and texts are left out.  Which code is handed to which    *)
(* session is a free choice; the provider answers a session's own code     *)
(* once, and only with the verifier of that session.                       *)
(***************************************************************************)
EXTENDS Integers

CONSTANTS
  Sessions,     \* the identifiers of sessions, and of the accounts they create
  Logins,       \* the kinds of login each of them may be of
  NoAccount     \* a view without an AccountID

Kinds == {"codex", "device", "social"}

ASSUME SessionsAssumption == NoAccount \notin Sessions
ASSUME LoginsAssumption == Logins \in [Sessions -> SUBSET Kinds]

Statuses == {"none", "starting", "pending", "success", "error", "gone"}
Contexts == {"unset", "live", "cancelled", "expired"}
Results == {"empty", "code", "error"}

(* A session has the goroutine or handler that completes it ("main") and    *)
(* the SubmitAuthCode calls ("submit").                                     *)
Flows == Sessions \X {"main", "submit"}
PCs == {"idle", "begin", "wait", "exchange", "lookup", "store", "finish", "fail"}

VARIABLES
  kind,         \* which login a session is
  status,       \* its Status; "none", "starting" and "gone" are not in the map
  ctx,          \* its context
  account,      \* the AccountID in its view
  watched,      \* the sessions expireAuthSession still waits for
  listener,     \* the callback server of a social session
  mailbox,      \* callbackCh: at most one result
  callbacks,    \* Codex: callbackServer is set
  pc,           \* where each flow is
  id,           \* the account a flow is about to write
  spent,        \* the sessions whose code or device the provider has answered
  stored,       \* the accounts that have been written to the store
  down          \* the providers that have been shut down

views == <<kind, status, account>>
social == <<listener, mailbox>>
vars == <<kind, status, ctx, account, watched, listener, mailbox, callbacks, pc, id,
          spent, stored, down>>

Provider(k) == IF k = "codex" THEN "codex" ELSE "kiro"
InMap(s) == status[s] \in {"pending", "success", "error"}
Ended(s) == status[s] \in {"success", "error"}
Done(c) == IF c = "live" THEN "cancelled" ELSE c      \* after a call of cancel
IsDone(s) == ctx[s] \in {"cancelled", "expired"}

Init ==
  /\ kind = [s \in Sessions |-> "codex"]      \* until it starts
  /\ status = [s \in Sessions |-> "none"]
  /\ ctx = [s \in Sessions |-> "unset"]
  /\ account = [s \in Sessions |-> NoAccount]
  /\ watched = {}
  /\ listener = [s \in Sessions |-> "closed"]
  /\ mailbox = [s \in Sessions |-> "empty"]
  /\ callbacks = FALSE
  /\ pc = [f \in Flows |-> "idle"]
  /\ id = [f \in Flows |-> NoAccount]
  /\ spent = {}
  /\ stored = {}
  /\ down = {}

-----------------------------------------------------------------------------
(* The owner.                                                               *)

(* StartAuth and StartSocialAuth up to their calls: Kiro first drops the    *)
(* sessions that have ended.                                                *)
BeginLogin(s, k) ==
  /\ status[s] = "none"
  /\ Provider(k) \notin down                \* the window is gone by then
  /\ kind' = [kind EXCEPT ![s] = k]
  /\ status' = [t \in Sessions |->
       IF t = s THEN "starting"
       ELSE IF k # "codex" /\ kind[t] # "codex" /\ Ended(t) THEN "gone" ELSE status[t]]
  /\ ctx' = [t \in Sessions |->
       IF k # "codex" /\ kind[t] # "codex" /\ Ended(t) THEN Done(ctx[t]) ELSE ctx[t]]
  /\ UNCHANGED <<account, watched, social, callbacks, pc, id, spent, stored, down>>

(* The port is taken, the client cannot be registered, the provider knows   *)
(* no verification URL.                                                     *)
LoginRefused(s) ==
  /\ status[s] = "starting"
  /\ status' = [status EXCEPT ![s] = "none"]
  /\ UNCHANGED <<kind, ctx, account, watched, social, callbacks, pc, id, spent, stored, down>>

(* The callback server is up, Kiro's own listener or the one all Codex      *)
(* logins share; the session enters the map and its goroutines start.       *)
LoginStarts(s) ==
  /\ status[s] = "starting"
  /\ status' = [status EXCEPT ![s] = "pending"]
  /\ ctx' = [ctx EXCEPT ![s] = "live"]
  /\ watched' = watched \cup {s}
  /\ listener' = IF kind[s] = "social" THEN [listener EXCEPT ![s] = "open"] ELSE listener
  /\ pc' = IF kind[s] = "codex" THEN pc ELSE [pc EXCEPT ![<<s, "main">>] = "begin"]
  /\ callbacks' = (callbacks \/ kind[s] = "codex")
  /\ UNCHANGED <<kind, account, mailbox, id, spent, stored, down>>

(* Fault: the context is left running.                                      *)
CancelAuthOnlyLabelled(s) ==
  /\ InMap(s)
  /\ status' = [status EXCEPT ![s] = "error"]
  /\ UNCHANGED <<kind, ctx, account, watched, social, callbacks, pc, id, spent, stored, down>>

CancelAuth(s) ==                            \* also of a session that has ended
  /\ InMap(s)
  /\ status' = [status EXCEPT ![s] = "error"]
  /\ ctx' = [ctx EXCEPT ![s] = Done(@)]
  /\ UNCHANGED <<kind, account, watched, social, callbacks, pc, id, spent, stored, down>>

(* SubmitAuthCode: a code pasted by the owner, or of a kiro:// URL, which   *)
(* the application hands to any pending social session.                     *)
SubmitAuthCode(s) ==
  /\ pc[<<s, "submit">>] = "idle"
  /\ status[s] = "pending" /\ kind[s] # "device"
  /\ pc' = [pc EXCEPT ![<<s, "submit">>] = "exchange"]
  /\ UNCHANGED <<views, ctx, watched, social, callbacks, id, spent, stored, down>>

(* Codex leaves its sessions in the map, Kiro removes them.                 *)
Shutdown(p) ==
  LET Of(s) == Provider(kind[s]) = p /\ InMap(s) IN
  /\ p \notin down
  /\ down' = down \cup {p}
  /\ ctx' = [s \in Sessions |-> IF Of(s) THEN Done(ctx[s]) ELSE ctx[s]]
  /\ status' = [s \in Sessions |-> IF p = "kiro" /\ Of(s) THEN "gone" ELSE status[s]]
  /\ callbacks' = (callbacks /\ p # "codex")
  /\ UNCHANGED <<kind, account, watched, social, pc, id, spent, stored>>

-----------------------------------------------------------------------------
(* The context of a session: its timer, and the goroutine that waits for    *)
(* its end.                                                                 *)

TimerFires(s) ==
  /\ ctx[s] = "live"
  /\ ctx' = [ctx EXCEPT ![s] = "expired"]
  /\ UNCHANGED <<views, watched, social, callbacks, pc, id, spent, stored, down>>

(* Fault: the status is left as it is.                                      *)
ExpireAuthSessionSilently(s) ==
  /\ s \in watched /\ IsDone(s)
  /\ watched' = watched \ {s}
  /\ UNCHANGED <<views, ctx, social, callbacks, pc, id, spent, stored, down>>

ExpireAuthSession(s) ==
  /\ s \in watched /\ IsDone(s)
  /\ watched' = watched \ {s}
  /\ status' = IF status[s] = "pending" THEN [status EXCEPT ![s] = "error"] ELSE status
  /\ UNCHANGED <<kind, ctx, account, social, callbacks, pc, id, spent, stored, down>>

-----------------------------------------------------------------------------
(* The browser.                                                             *)

(* The Codex callback is served for every session in the map, whatever its  *)
(* status.  A callback that reports an error, or no code, fails the login.  *)
CodexCallback(s) ==
  /\ callbacks
  /\ kind[s] = "codex" /\ InMap(s)
  /\ pc[<<s, "main">>] = "idle"
  /\ \E next \in {"exchange", "fail"} : pc' = [pc EXCEPT ![<<s, "main">>] = next]
  /\ UNCHANGED <<views, ctx, watched, social, callbacks, id, spent, stored, down>>

CallbackServerFails ==
  /\ callbacks
  /\ callbacks' = FALSE
  /\ UNCHANGED <<views, ctx, watched, social, pc, id, spent, stored, down>>

(* A result is offered to the channel and dropped when it is full.          *)
Offered(s, result) ==
  IF mailbox[s] = "empty" THEN [mailbox EXCEPT ![s] = result] ELSE mailbox

SocialCallback(s) ==
  /\ listener[s] \in {"open", "closing"}
  /\ \E result \in {"code", "error"} : mailbox' = Offered(s, result)
  /\ listener' = [listener EXCEPT ![s] = "closing"]
  /\ UNCHANGED <<views, ctx, watched, callbacks, pc, id, spent, stored, down>>

ListenerBreaks(s) ==
  /\ listener[s] = "open"
  /\ mailbox' = Offered(s, "error")
  /\ listener' = [listener EXCEPT ![s] = "closed"]
  /\ UNCHANGED <<views, ctx, watched, callbacks, pc, id, spent, stored, down>>

(* The goroutine of a served callback, or the one that waits for the        *)
(* context, shuts the server down.                                          *)
ListenerCloses(s) ==
  /\ listener[s] = "closing" \/ (listener[s] = "open" /\ IsDone(s))
  /\ listener' = [listener EXCEPT ![s] = "closed"]
  /\ UNCHANGED <<views, ctx, watched, mailbox, callbacks, pc, id, spent, stored, down>>

-----------------------------------------------------------------------------
(* A flow: completeAuthSession, completeSocialAuthSession,                  *)
(* handleOAuthCallback or SubmitAuthCode.                                   *)

(* The goroutine takes its copy of the session, if it is still there.       *)
TakeSnapshot(s) ==
  /\ pc[<<s, "main">>] = "begin"
  /\ pc' = [pc EXCEPT ![<<s, "main">>] =
       IF ~InMap(s) THEN "idle" ELSE IF kind[s] = "social" THEN "wait" ELSE "exchange"]
  /\ UNCHANGED <<views, ctx, watched, social, callbacks, id, spent, stored, down>>

(* The social goroutine waits for its callback or its context, whichever    *)
(* Go chooses when both are there.  A cancelled login ends without a word.  *)
TakeCallback(s) ==
  /\ pc[<<s, "main">>] = "wait"
  /\ mailbox[s] # "empty"
  /\ mailbox' = [mailbox EXCEPT ![s] = "empty"]
  /\ pc' = [pc EXCEPT ![<<s, "main">>] = IF mailbox[s] = "code" THEN "exchange" ELSE "fail"]
  /\ UNCHANGED <<views, ctx, watched, listener, callbacks, id, spent, stored, down>>

WaitEnds(s) ==
  /\ pc[<<s, "main">>] = "wait"
  /\ IsDone(s)
  /\ pc' = [pc EXCEPT ![<<s, "main">>] = IF ctx[s] = "expired" THEN "fail" ELSE "idle"]
  /\ UNCHANGED <<views, ctx, watched, social, callbacks, id, spent, stored, down>>

(* The provider answers with tokens an account can be made of, as far as    *)
(* the context lets the call through; the poll of a device goes on until    *)
(* then.                                                                    *)
Exchange(f) ==
  /\ pc[f] = "exchange"
  /\ ctx[f[1]] = "live"
  /\ f[1] \notin spent
  /\ spent' = spent \cup {f[1]}
  /\ pc' = [pc EXCEPT ![f] = "lookup"]
  /\ UNCHANGED <<views, ctx, watched, social, callbacks, id, stored, down>>

(* The call fails, is cut off by the context, is refused, or brings tokens  *)
(* that no account can be made of.                                          *)
ExchangeFails(f) ==
  /\ pc[f] = "exchange"
  /\ \E lost \in SUBSET {f[1]} :
       /\ ctx[f[1]] # "live" => lost = {}
       /\ spent' = spent \cup lost
  /\ pc' = [pc EXCEPT ![f] = "fail"]
  /\ UNCHANGED <<views, ctx, watched, social, callbacks, id, stored, down>>

(* Fault: the new account gets no ID.                                       *)
LookUpAccountNameless(f) ==
  /\ pc[f] = "lookup"
  /\ pc' = [pc EXCEPT ![f] = "store"]
  /\ UNCHANGED <<views, ctx, watched, social, callbacks, id, spent, stored, down>>

(* Fault: the login is over before the account is written.                  *)
LookUpAccountAndFinish(f) ==
  /\ pc[f] = "lookup"
  /\ \E a \in {f[1]} \cup {t \in stored : Provider(kind[t]) = Provider(kind[f[1]])} :
       id' = [id EXCEPT ![f] = a]
  /\ pc' = [pc EXCEPT ![f] = "finish"]
  /\ UNCHANGED <<views, ctx, watched, social, callbacks, spent, stored, down>>

(* upsertAccount reads the accounts, and writes a moment later: over one of *)
(* the same provider and owner if it saw one (the owner may have deleted    *)
(* it), or as a new one.                                                    *)
LookUpAccount(f) ==
  /\ pc[f] = "lookup"
  /\ \E a \in {f[1]} \cup {t \in stored : Provider(kind[t]) = Provider(kind[f[1]])} :
       id' = [id EXCEPT ![f] = a]
  /\ pc' = [pc EXCEPT ![f] = "store"]
  /\ UNCHANGED <<views, ctx, watched, social, callbacks, spent, stored, down>>

(* The account is in memory also when the file cannot be written.           *)
StoreAccount(f) ==
  /\ pc[f] = "store"
  /\ stored' = stored \cup {id[f]}
  /\ \E next \in {"finish", "fail"} : pc' = [pc EXCEPT ![f] = next]
  /\ UNCHANGED <<views, ctx, watched, social, callbacks, id, spent, down>>

(* Fault: Kiro, too, overwrites an outcome.                                 *)
MayFinishAnyway(s) == InMap(s)

(* Codex writes the outcome over whatever the session has come to; Kiro     *)
(* only if it is still pending.                                             *)
MayFinish(s) == InMap(s) /\ (kind[s] = "codex" \/ status[s] = "pending")

FinishAuthSuccess(f) ==
  LET s == f[1] IN
  /\ pc[f] = "finish"
  /\ pc' = [pc EXCEPT ![f] = "idle"]
  /\ IF MayFinish(s)
     THEN /\ status' = [status EXCEPT ![s] = "success"]
          /\ account' = [account EXCEPT ![s] = id[f]]
          /\ ctx' = [ctx EXCEPT ![s] = Done(@)]
     ELSE UNCHANGED <<status, account, ctx>>
  /\ id' = [id EXCEPT ![f] = NoAccount]
  /\ UNCHANGED <<kind, watched, social, callbacks, spent, stored, down>>

FinishAuthError(f) ==
  LET s == f[1] IN
  /\ pc[f] = "fail"
  /\ pc' = [pc EXCEPT ![f] = "idle"]
  /\ IF MayFinish(s)
     THEN status' = [status EXCEPT ![s] = "error"] /\ ctx' = [ctx EXCEPT ![s] = Done(@)]
     ELSE UNCHANGED <<status, ctx>>
  /\ id' = [id EXCEPT ![f] = NoAccount]
  /\ UNCHANGED <<kind, account, watched, social, callbacks, spent, stored, down>>

FlowStep(f) ==
  \/ Exchange(f) \/ ExchangeFails(f)
  \/ LookUpAccount(f) \/ StoreAccount(f)
  \/ FinishAuthSuccess(f) \/ FinishAuthError(f)
MainStep(s) == TakeSnapshot(s) \/ TakeCallback(s) \/ WaitEnds(s)

Next ==
  \/ \E s \in Sessions :
       \/ \E k \in Logins[s] : BeginLogin(s, k)
       \/ LoginRefused(s) \/ LoginStarts(s)
       \/ CancelAuth(s) \/ SubmitAuthCode(s)
       \/ TimerFires(s) \/ ExpireAuthSession(s)
       \/ CodexCallback(s)
       \/ SocialCallback(s) \/ ListenerBreaks(s) \/ ListenerCloses(s)
       \/ MainStep(s)
  \/ \E f \in Flows : FlowStep(f)
  \/ \E p \in {"codex", "kiro"} : Shutdown(p)
  \/ CallbackServerFails

Spec == Init /\ [][Next]_vars

-----------------------------------------------------------------------------
TypeOK ==
  /\ kind \in [Sessions -> Kinds]
  /\ status \in [Sessions -> Statuses]
  /\ ctx \in [Sessions -> Contexts]
  /\ account \in [Sessions -> Sessions \cup {NoAccount}]
  /\ watched \subseteq Sessions
  /\ listener \in [Sessions -> {"open", "closing", "closed"}]
  /\ mailbox \in [Sessions -> Results]
  /\ callbacks \in BOOLEAN
  /\ pc \in [Flows -> PCs]
  /\ id \in [Flows -> Sessions \cup {NoAccount}]
  /\ spent \subseteq Sessions
  /\ stored \subseteq Sessions
  /\ down \subseteq {"codex", "kiro"}

(* A session that reports success names an account that was written to the  *)
(* store, whichever flow, cancel or clean-up came before.                   *)
SuccessIsConnected == \A s \in Sessions : status[s] = "success" => account[s] \in stored

(* Tokens are taken for a login only while it is pending: after a cancel, a *)
(* timeout or an outcome no flow of the session, however late it comes, can *)
(* get tokens for it any more.                                              *)
OnlyPendingLogsIn ==
  [][\A f \in Flows : pc[f] = "exchange" /\ pc'[f] = "lookup" => status[f[1]] = "pending"]_vars

(* The outcome of a Kiro login stands: two flows of a social session and    *)
(* its timer may all come to an end, the first of them decides, and only    *)
(* the owner's cancel or the removal of the session comes after it.         *)
KiroOutcomeStands ==
  [][\A s \in Sessions :
       kind[s] # "codex" /\ Ended(s) /\ ~CancelAuth(s) => status'[s] \in {status[s], "gone"}]_vars

(* No login can stay pending for ever: the goroutine that ends it is still  *)
(* waiting for its context, whose timer runs until the login ends.          *)
PendingIsWatched ==
  \A s \in Sessions :
    /\ status[s] = "pending" => s \in watched
    /\ ctx[s] = "live" => status[s] = "pending"
=============================================================================
