---------------------------- MODULE TokenRefresh ----------------------------
(***************************************************************************)
(* How the tokens of the accounts are renewed (internal/auth/manager.go,   *)
(* internal/auth/quota, and RefreshAccount of both auth services).  A call *)
(* of a request, of the owner, of a login or of the quota loop runs        *)
(* through renewals and quota reads that call each other: a forced renewal *)
(* reads the quota afterwards, a quota read renews an expired token first, *)
(* and with Kiro forces a renewal when the provider rejects the token.     *)
(* Nothing keeps two calls from renewing one account at once.              *)
(* The accounts are in memory and in one file; the program may crash.      *)
(***************************************************************************)
EXTENDS AccountStore, Storage

CONSTANTS
  Calls,          \* the calls that may be under way at once
  MaxTokens,      \* bound: refresh tokens a provider issues
  MaxRejections   \* bound: how often a provider rejects a token it issued

ASSUME TokensAssumption ==
  MaxTokens \in Nat \ {0} /\ MaxRejections \in Nat /\ Accounts # {}

VARIABLES
  provider,       \* the provider of each account
  token,          \* the refresh token in each account's record
  expired,        \* the accounts whose access token has expired
  honoured,       \* the refresh tokens each provider accepts
  issued,         \* how many it has issued
  dropped,        \* history: the accounts a refresh token of which was lost
  call,           \* the calls
  rejected,       \* history: the rejections each call has met
  loops           \* the background loops that run

tokens == <<token, expired, honoured, issued, dropped>>
calls == <<call, rejected>>
vars == <<store, storage, tokens, calls, provider, loops>>

Results == {"none", "ok"} \cup AuthReasons
Idle == [for |-> CHOOSE a \in Accounts : TRUE, frames |-> <<>>, result |-> "none"]

(* A frame of a call: RefreshAccount or RefreshQuota.  sees is the refresh  *)
(* token, or the cooldown, it read when it began; got the token it was      *)
(* granted (0: none).                                                       *)
Frame(op, forced) == [op |-> op, forced |-> forced, at |-> "start", sees |-> 0, got |-> 0]
Places ==
  [renew |-> {"start", "sent", "granted", "renewed"},
   quota |-> {"start", "asked", "fetch", "renewing", "again", "email", "emailing", "learned"}]

Running(c) == call[c].frames # <<>>
Top(c) == Head(call[c].frames)
Of(c) == call[c].for
At(c, op, place) ==
  Running(c) /\ Top(c).op = op /\ Top(c).at = place /\ call[c].result = "none"
Back(c, op, place) ==     \* what the frame has called has returned
  Running(c) /\ Top(c).op = op /\ Top(c).at = place /\ call[c].result # "none"

Move(c, frame) ==
  call' = [call EXCEPT ![c].frames = <<frame>> \o Tail(@), ![c].result = "none"]
Goto(c, place) == Move(c, [Top(c) EXCEPT !.at = place])
Invoke(c, place, callee) ==
  call' = [call EXCEPT ![c].frames = <<callee, [Top(c) EXCEPT !.at = place]>> \o Tail(@),
                       ![c].result = "none"]
Return(c, result) ==
  LET caller == [call[c] EXCEPT !.frames = Tail(@), !.result = result]
  IN call' = [call EXCEPT ![c] = IF Len(call[c].frames) = 1 THEN Idle ELSE caller]

Memory == [acc |-> acc, present |-> present, token |-> token]
NoAccounts == [acc |-> [a \in Accounts |-> FreshAccount], present |-> {},
               token |-> [a \in Accounts |-> 0]]

Saved(c, result) == Save(Memory') /\ Return(c, result)
Unsaved(c, result) == SaveFails /\ Return(c, result)

(* Fault: the record of an account that is gone is put back.                *)
PutBack(c, rec, result, otherwise) ==
  /\ acc' = [acc EXCEPT ![Of(c)] = rec] /\ present' = present \cup {Of(c)}
  /\ UNCHANGED tokens
  /\ Saved(c, result) \/ Unsaved(c, otherwise)

(* The record is changed in memory, then the file is saved.                 *)
UpdateAccount(c, rec, result, otherwise) ==
  LET a == Of(c) IN
  /\ Write(a, rec) /\ UNCHANGED tokens
  /\ IF a \notin present THEN Return(c, otherwise) /\ UNCHANGED storage
     ELSE Saved(c, result) \/ Unsaved(c, otherwise)

(* The wrappers of the auth services keep them in a field and pass on, of   *)
(* what they can do besides authProvider, only Kiro's list of sessions.     *)
Offers == [codex |-> {}, kiro |-> {"AllSessions"}]
StartCodexRefreshLoop ==
  IF "StartRefreshLoop" \in Offers.codex THEN {"tokens"} ELSE {}
Startup == loops' = {"quota"} \cup StartCodexRefreshLoop

Init ==
  /\ StoreInit
  /\ provider \in [Accounts -> {"codex", "kiro"}]
  /\ token = [a \in Accounts |-> 1] /\ expired = {}
  /\ honoured = [a \in Accounts |-> {1}] /\ issued = [a \in Accounts |-> 1]
  /\ dropped = {}
  /\ StorageInit(Memory)
  /\ call = [c \in Calls |-> Idle] /\ rejected = [c \in Calls |-> 0]
  /\ loops = {}

-----------------------------------------------------------------------------
(* The calls.                                                               *)

(* The quota loop and the batches choose accounts in rotation; a request    *)
(* has one of the pool, the owner and a login any.  RefreshAccountWithQuota *)
(* is a forced quota read.                                                  *)
Begin(c) ==
  /\ ~Running(c)
  /\ \E a \in present, op \in {"renew", "quota"}, forced \in BOOLEAN :
       call' = [call EXCEPT ![c] = [for |-> a, frames |-> <<Frame(op, forced)>>,
                                    result |-> "none"]]
  /\ rejected' = [rejected EXCEPT ![c] = 0]
  /\ UNCHANGED <<store, storage, tokens>>

(* RefreshAccount: the account is read, and the token sent if it is to be.  *)
Consider(c) ==
  /\ At(c, "renew", "start")
  /\ LET a == Of(c) IN
     CASE a \notin present -> Return(c, "plain")
       [] a \in present /\ ~Top(c).forced /\ a \notin expired -> Return(c, "ok")
       [] OTHER -> \/ Move(c, [Top(c) EXCEPT !.at = "sent", !.sees = token[a]])
                   \/ Return(c, "plain")       \* no credentials
  /\ UNCHANGED <<store, storage, tokens, rejected>>

(* The provider accepts the token, and may issue another one, which may     *)
(* replace the old one; the answer may be lost on its way.                  *)
Grant(c) ==
  /\ At(c, "renew", "sent")
  /\ LET a == Of(c)
         next == issued[a] + 1
     IN
     /\ Top(c).sees \in honoured[a]
     /\ \/ /\ Move(c, [Top(c) EXCEPT !.at = "granted"])
           /\ UNCHANGED <<honoured, issued, dropped>>
        \/ /\ next <= MaxTokens /\ issued' = [issued EXCEPT ![a] = next]
           /\ \E old \in SUBSET {Top(c).sees} :
                honoured' = [honoured EXCEPT ![a] = (@ \ old) \cup {next}]
           /\ \/ /\ Move(c, [Top(c) EXCEPT !.at = "granted", !.got = next])
                 /\ UNCHANGED dropped
              \/ Return(c, "plain") /\ dropped' = dropped \cup {a}
  /\ UNCHANGED <<store, storage, token, expired, rejected>>

(* refresh_token_reused, a blocked account, or no answer: the account is    *)
(* marked by HandleRefreshFailure, whose own failures are only logged.      *)
Refuse(c) ==
  /\ At(c, "renew", "sent")
  /\ \E why \in AuthReasons :
       /\ Write(Of(c), RefreshRejected(acc[Of(c)], why))
       /\ Return(c, why) /\ UNCHANGED tokens
       /\ IF Of(c) \in present /\ why \in {"blocked", "refreshable"}
          THEN Save(Memory') \/ SaveFails ELSE UNCHANGED storage
  /\ UNCHANGED rejected

TokenIsLost(c) ==
  /\ dropped' = IF Top(c).got = 0 THEN dropped ELSE dropped \cup {Of(c)}
  /\ UNCHANGED <<token, expired, honoured, issued>>

(* Codex: the answer has no ID token that can be read.                      *)
BadIDToken(c) ==
  /\ At(c, "renew", "granted") /\ provider[Of(c)] = "codex"
  /\ Return(c, "plain") /\ TokenIsLost(c)
  /\ UNCHANGED <<store, storage, rejected>>

(* Fault: an answer without a refresh token erases the one there is.        *)
StoreTokenErasing(c, a) == token' = [token EXCEPT ![a] = Top(c).got]

(* Fault: a refresh token is stored only where there is none.               *)
StoreTokenOnce(c, a) ==
  token' = [token EXCEPT ![a] = IF @ = 0 THEN Top(c).got ELSE @]

StoreToken(c, a) ==
  token' = [token EXCEPT ![a] = IF Top(c).got = 0 THEN @ ELSE Top(c).got]

(* The tokens are stored; a forced renewal reads the quota next.            *)
StoreTokens(c) ==
  /\ At(c, "renew", "granted")
  /\ LET a == Of(c) IN
     IF a \notin present
     THEN Return(c, "plain") /\ TokenIsLost(c) /\ UNCHANGED <<store, storage>>
     ELSE /\ Write(a, TokenRenewed(acc[a])) /\ StoreToken(c, a)
          /\ expired' = expired \ {a} /\ UNCHANGED <<honoured, issued, dropped>>
          /\ \/ Save(Memory') /\ IF Top(c).forced
                                 THEN Invoke(c, "renewed", Frame("quota", FALSE))
                                 ELSE Return(c, "ok")
             \/ Unsaved(c, "plain")
  /\ UNCHANGED rejected

QuotaReadAfterwards(c) ==
  /\ Back(c, "renew", "renewed")
  /\ Return(c, call[c].result)
  /\ UNCHANGED <<store, storage, tokens, rejected>>

-----------------------------------------------------------------------------
(* RefreshQuota and RefreshAccountWithQuota.                                *)

(* Fault: RefreshQuota forces the renewal it only has to ensure.            *)
EnsureByForce(c) == Frame("renew", TRUE)

EnsureFresh(c) == Frame("renew", Top(c).forced)

ReadQuota(c) ==
  /\ At(c, "quota", "start")
  /\ LET a == Of(c)
         frame == [Top(c) EXCEPT !.at = "asked", !.sees = acc[a].cooldown]
     IN IF a \notin present THEN Return(c, "plain")
        ELSE call' = [call EXCEPT ![c].frames = <<EnsureFresh(c), frame>> \o Tail(@)]
  /\ UNCHANGED <<store, storage, tokens, rejected>>

TokenIsFresh(c) ==
  /\ Back(c, "quota", "asked") /\ call[c].result = "ok"
  /\ Goto(c, "fetch")
  /\ UNCHANGED <<store, storage, tokens, rejected>>

TokenIsNotFresh(c) ==
  /\ Back(c, "quota", "asked") /\ call[c].result # "ok"
  /\ LET why == call[c].result
         failed == QuotaAuthFailure(acc[Of(c)], why, Top(c).sees)
     IN IF Top(c).forced THEN Return(c, why) /\ UNCHANGED <<store, storage, tokens>>
        ELSE UpdateAccount(c, failed, why, why)
  /\ UNCHANGED rejected

(* The provider answers with a quota, or an error a quota is made up from;  *)
(* what it says is free until it is stored.                                 *)
StoreQuota(c, results) ==
  \E status \in QuotaStatuses, reset \in QuotaResets \cup {0}, result \in results :
    UpdateAccount(c, ApplyQuotaSnapshot(acc[Of(c)], status, reset), result, "plain")

FetchQuota(c) ==
  /\ At(c, "quota", "fetch") \/ At(c, "quota", "again")
  /\ \/ StoreQuota(c, {"ok"} \cup AuthReasons)
     \/ /\ provider[Of(c)] = "kiro" /\ Goto(c, "email")
        /\ UNCHANGED <<store, storage, tokens>>
  /\ UNCHANGED rejected

(* Kiro rejects the access token, of the quota or of the user's address: it *)
(* is renewed by force, once.                                               *)
TokenIsRejected(c) ==
  /\ provider[Of(c)] = "kiro" /\ \A d \in Calls : rejected[d] < MaxRejections
  /\ rejected' = [rejected EXCEPT ![c] = @ + 1]
  /\ \/ At(c, "quota", "fetch") /\ Invoke(c, "renewing", Frame("renew", TRUE))
     \/ At(c, "quota", "email") /\ Invoke(c, "emailing", Frame("renew", TRUE))
  /\ UNCHANGED <<store, storage, tokens>>

TryAgain(c) ==
  /\ Back(c, "quota", "renewing") /\ UNCHANGED rejected
  /\ IF call[c].result = "ok"
     THEN Goto(c, "again") /\ UNCHANGED <<store, storage, tokens>>
     ELSE StoreQuota(c, AuthReasons)

LearnAddress(c) ==
  /\ \/ Back(c, "quota", "emailing") /\ Goto(c, "learned")
        /\ UNCHANGED <<store, storage, tokens>>
     \/ /\ At(c, "quota", "email") \/ At(c, "quota", "learned")
        /\ StoreQuota(c, {"ok"})
  /\ UNCHANGED rejected

Step(c) ==
  \/ Consider(c) \/ Grant(c) \/ Refuse(c) \/ BadIDToken(c) \/ StoreTokens(c)
  \/ QuotaReadAfterwards(c) \/ ReadQuota(c) \/ TokenIsFresh(c)
  \/ TokenIsNotFresh(c) \/ FetchQuota(c) \/ TokenIsRejected(c) \/ TryAgain(c)
  \/ LearnAddress(c)

-----------------------------------------------------------------------------
(* The rest of the world.                                                   *)

Expires(a) ==
  /\ a \in present \ expired /\ expired' = expired \cup {a}
  /\ UNCHANGED <<store, storage, token, honoured, issued, dropped, calls>>

(* A login stores the first refresh token of a new grant.                   *)
Login(a) ==
  /\ issued[a] < MaxTokens /\ OwnerConnects(a)
  /\ issued' = [issued EXCEPT ![a] = @ + 1]
  /\ token' = [token EXCEPT ![a] = issued'[a]]
  /\ honoured' = [honoured EXCEPT ![a] = @ \cup {issued'[a]}]
  /\ expired' = expired \ {a} /\ dropped' = dropped \ {a}
  /\ Save(Memory') \/ SaveFails
  /\ UNCHANGED calls

Owner(a) ==
  /\ OwnerDeletes(a) \/ \E on \in BOOLEAN : OwnerSwitches(a, on)
  /\ UNCHANGED <<tokens, calls>>
  /\ Save(Memory') \/ SaveFails

(* What was granted and not stored, or stored and not saved, is gone.       *)
InHand(a) == {Top(c).got : c \in {x \in Calls : At(x, "renew", "granted") /\ Of(x) = a}} \ {0}
Crash ==
  /\ StorageCrash
  /\ dropped' = dropped \cup {a \in Accounts : \/ InHand(a) # {} \/ file.reads # "whole"
                                             \/ file.content.token[a] # token[a]}
  /\ call' = [c \in Calls |-> Idle] /\ rejected' = [c \in Calls |-> 0]
  /\ loops' = {}
  /\ UNCHANGED <<store, token, expired, honoured, issued>>

Remember(content) ==
  /\ acc' = content.acc /\ present' = content.present /\ token' = content.token
  /\ expired' \in SUBSET content.present
  /\ UNCHANGED <<honoured, issued, dropped, calls>>
Restart ==
  \/ Load /\ Remember(Loaded(NoAccounts)) /\ Startup
  \/ CopyFile /\ UNCHANGED <<store, tokens, calls, loops>>
  \/ RewriteFile(NoAccounts) /\ Remember(NoAccounts) /\ Startup

Next ==
  /\ \/ /\ mode = "up" /\ UNCHANGED loops
        /\ \/ \E c \in Calls : Begin(c) \/ Step(c)
           \/ \E a \in Accounts : Expires(a) \/ Login(a) \/ Owner(a)
     \/ Crash \/ Restart
  /\ UNCHANGED provider

Spec == Init /\ [][Next]_vars

-----------------------------------------------------------------------------
FrameOK(f) ==
  /\ f.op \in DOMAIN Places /\ f.at \in Places[f.op] /\ f.forced \in BOOLEAN
  /\ f.sees \in Nat /\ f.got \in 0..MaxTokens

TypeOK ==
  /\ StoreTypeOK
  /\ StorageTypeOK([acc : [Accounts -> Account], present : SUBSET Accounts,
                    token : [Accounts -> 0..MaxTokens]])
  /\ provider \in [Accounts -> {"codex", "kiro"}]
  /\ token \in [Accounts -> 0..MaxTokens] /\ \A a \in present : token[a] # 0
  /\ expired \subseteq Accounts
  /\ honoured \in [Accounts -> SUBSET (1..MaxTokens)]
  /\ issued \in [Accounts -> 1..MaxTokens] /\ dropped \subseteq Accounts
  /\ \A c \in Calls :
       /\ call[c].for \in Accounts /\ call[c].result \in Results
       /\ \A i \in DOMAIN call[c].frames : FrameOK(call[c].frames[i])
  /\ rejected \in [Calls -> 0..MaxRejections] /\ loops \subseteq {"quota", "tokens"}

(* A renewed refresh token is kept: however renewals, logins and restarts   *)
(* overtake each other, the token in an account's record is one its         *)
(* provider accepts, or a call is about to store such a one, unless an      *)
(* answer was lost on its way or in a crash.  RefreshAccount of both auth   *)
(* services, which nothing keeps from running twice at once.                *)
RenewedTokenIsKept ==
  mode = "up" =>
    \A a \in present \ dropped :
      token[a] \in honoured[a] \/ InHand(a) \cap honoured[a] # {}

(* A forced renewal reads the quota, and a quota read ensures a fresh token *)
(* and may force a renewal: the calls of each other end, and nest deeper    *)
(* only as often as the provider rejects a token it has just issued.        *)
NestingNeedsRejection ==
  \A c \in Calls : Len(call[c].frames) <= 4 + 3 * rejected[c]

(* The writers of the accounts are those the request paths are checked      *)
(* with (AccountStore): until the program ends, every change is one of its. *)
RefreshersAreDisturbers ==
  [][mode = "up" => \E a \in Accounts : Disturb(a)]_store

(* LoadAccounts, recoverCorruptedFile: the program comes back with what was *)
(* last saved whole, or else the file was torn; then it has no accounts,    *)
(* and if there was anything to read it says so and has tried to copy it.   *)
ComesBackOrTorn ==
  [][mode # "up" /\ mode' = "up" =>
       \/ file.reads = "whole" /\ Memory' = file.content
       \/ file.reads = "empty" /\ present' = {}
       \/ file.reads = "cut" /\ present' = {} /\ warned' /\ copy # "none"]_vars

(* "StartCodexRefreshLoop starts the background Codex token auto-refresh    *)
(* goroutine" (manager.go:297): once the program is up, it runs.            *)
LoopIsStarted == mode = "up" => "tokens" \in loops
=============================================================================
