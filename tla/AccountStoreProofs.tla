------------------------ MODULE AccountStoreProofs ------------------------
(***************************************************************************)
(* What the writes of AccountHealth and the decisions of FailurePolicy do  *)
(* to one account, for every account and every length of the cooldowns,    *)
(* and with it what holds of every step of the store, whoever takes it:    *)
(* the lemmas the proofs about renewals and request paths share.           *)
(***************************************************************************)
EXTENDS AccountStore, TLAPS

(* The label agrees with the flags (CodexExec's HealthAgrees, of a record). *)
Agrees(x) == /\ x.health = "banned" => x.banned
             /\ x.health = "disabled_durable" => ~x.enabled
             /\ x.health = "ready" => x.cooldown = 0

Sound(x) == x \in Account /\ Agrees(x)

(* Everything that may become of an account in one step.                    *)
Rewritten(x, y) ==
  \/ y = x
  \/ y = Elapse(x)
  \/ y = MarkSuccess(x)
  \/ y = TokenRenewed(x)
  \/ y = ClearTransientCooldown(x)
  \/ \E w \in Reasons : y = RefreshRejected(x, w)
  \/ \E class \in FailureClasses, left \in Nat : left > 0 /\ y = ApplyFailureDecision(x, class, left)
  \/ \E class \in FailureClasses : y = ApplyKiroDecision(x, class)
  \/ \E status \in QuotaStatuses, reset \in Nat : y = ApplyQuotaSnapshot(x, status, reset)
  \/ \E w \in Reasons, seen \in Nat : y = QuotaAuthFailure(x, w, seen)
  \/ y = SetEnabled(x, FALSE)

-----------------------------------------------------------------------------
(* A transient cooldown is positive from the first failure on (the backoff  *)
(* table of provider/health.go is never indexed out of its bounds).         *)
LEMMA TransientCooldownPositive ==
  ASSUME NEW n \in Nat PROVE /\ TransientCooldown(n + 1) \in Nat
                             /\ TransientCooldown(n + 1) > 0
<1> DEFINE i == IF n + 1 > Len(Backoff) THEN Len(Backoff) ELSE n + 1
<1>1. Len(Backoff) \in Nat /\ Len(Backoff) > 0
  BY BackoffAssumption
<1>2. i \in 1..Len(Backoff)
  BY <1>1
<1>3. Backoff[i] \in Nat /\ Backoff[i] > 0
  BY <1>2, BackoffAssumption
<1>4. TransientCooldown(n + 1) = Backoff[i]
  BY DEF TransientCooldown
<1> QED
  BY <1>3, <1>4

(* The members of Account's field types that the writes use.                *)
LEMMA FieldValues ==
  /\ TRUE \in BOOLEAN /\ FALSE \in BOOLEAN
  /\ 0 \in Nat /\ AuthCooldown \in Nat /\ LongCooldown \in Nat
  /\ 0 \in 0..Len(Backoff)
  /\ \A h \in {"ready", "cooldown_quota", "cooldown_transient", "disabled_durable", "banned"} :
       h \in HealthStates
  /\ \A n \in 0..Len(Backoff) : /\ TransientCooldown(n + 1) \in Nat
                                /\ n < Len(Backoff) => n + 1 \in 0..Len(Backoff)
<1>1. Len(Backoff) \in Nat
  BY BackoffAssumption
<1>2. \A n \in 0..Len(Backoff) : n \in Nat
  BY <1>1
<1>3. \A n \in 0..Len(Backoff) : TransientCooldown(n + 1) \in Nat
  BY <1>2, TransientCooldownPositive
<1> QED
  BY <1>1, <1>3, CooldownAssumption DEF HealthStates

(* Every write keeps a record an account.                                   *)
LEMMA WritesTyped ==
  ASSUME NEW x \in Account
  PROVE  /\ MarkSuccess(x) \in Account
         /\ TokenRenewed(x) \in Account
         /\ MarkTransientFailure(x) \in Account
         /\ MarkBanned(x) \in Account
         /\ MarkReloginRequired(x) \in Account
         /\ \A left \in Nat : MarkQuotaExhausted(x, left) \in Account
         /\ MarkTransientCooldown(x) \in Account
         /\ MarkQuotaCooldown(x) \in Account
         /\ Elapse(x) \in Account
         /\ ClearTransientCooldown(x) \in Account
         /\ \A status \in QuotaStatuses, reset \in Nat : ApplyQuotaSnapshot(x, status, reset) \in Account
         /\ \A w \in Reasons, seen \in Nat : QuotaAuthFailure(x, w, seen) \in Account
         /\ \A on \in BOOLEAN : SetEnabled(x, on) \in Account
<1> USE FieldValues
<1>1. NoQuota(x) \in Account /\ QuotaServed(x) \in Account
  BY Zenon DEF NoQuota, QuotaServed, Account
<1>2. MarkSuccess(x) \in Account
  BY <1>1, Zenon DEF MarkSuccess, Account
<1>3. TokenRenewed(x) \in Account
  BY Zenon DEF TokenRenewed, Account
<1>4. MarkTransientFailure(x) \in Account
  <2>1. x.fails \in 0..Len(Backoff)
    BY DEF Account
  <2> DEFINE f == IF x.fails < Len(Backoff) THEN x.fails + 1 ELSE x.fails
  <2>2. f \in 0..Len(Backoff)
    BY <2>1
  <2>3. TransientCooldown(x.fails + 1) \in Nat
    BY <2>1
  <2>4. ASSUME NEW g \in 0..Len(Backoff)
        PROVE  [x EXCEPT !.health = "cooldown_transient",
                         !.cooldown = TransientCooldown(x.fails + 1),
                         !.fails = g] \in Account
    BY <2>3, Zenon DEF Account
  <2> QED
    BY <2>2, <2>4, Zenon DEF MarkTransientFailure
<1>5. MarkBanned(x) \in Account
  BY Zenon DEF MarkBanned, Account
<1>6. MarkReloginRequired(x) \in Account
  BY <1>1, Zenon DEF MarkReloginRequired, Account
<1>7. ASSUME NEW left \in Nat PROVE MarkQuotaExhausted(x, left) \in Account
  BY Zenon DEF MarkQuotaExhausted, Account
<1>8. Elapse(x) \in Account
  <2> DEFINE c == IF x.cooldown > 0 THEN x.cooldown - 1 ELSE 0
             s == IF x.reset > 0 THEN x.reset - 1 ELSE 0
  <2>1. c \in Nat /\ s \in Nat
    BY DEF Account
  <2>2. ASSUME NEW d \in Nat, NEW e \in Nat
        PROVE  [x EXCEPT !.cooldown = d, !.reset = e] \in Account
    BY Zenon DEF Account
  <2> QED
    BY <2>1, <2>2, Zenon DEF Elapse
<1>9. ClearTransientCooldown(x) \in Account
  BY Zenon DEF ClearTransientCooldown, Account
<1>10. ASSUME NEW status \in QuotaStatuses, NEW reset \in Nat
       PROVE  ApplyQuotaSnapshot(x, status, reset) \in Account
  <2> DEFINE e == status \in {"exhausted", "blocked"}
             y == [x EXCEPT !.exhausted = e, !.reset = reset]
             c == IF reset > 0 THEN reset ELSE LongCooldown
  <2>1. e \in BOOLEAN /\ c \in Nat
    OBVIOUS
  <2>2. y \in Account
    BY <2>1, Zenon DEF Account
  <2>3. /\ [y EXCEPT !.enabled = FALSE, !.banned = TRUE, !.health = "banned"] \in Account
        /\ [y EXCEPT !.health = "cooldown_quota", !.cooldown = c] \in Account
        /\ [y EXCEPT !.health = "ready", !.cooldown = 0, !.fails = 0] \in Account
    <3> HIDE DEF y, c
    <3> QED
      BY <2>1, <2>2, Zenon DEF Account
  <2> QED
    BY <2>2, <2>3 DEF ApplyQuotaSnapshot
<1>11. ASSUME NEW w \in Reasons, NEW seen \in Nat
       PROVE  QuotaAuthFailure(x, w, seen) \in Account
  <2> DEFINE e == seen > 0 /\ w # "refreshable"
             s == IF seen > 0 THEN seen ELSE x.reset
             y == [x EXCEPT !.exhausted = e, !.reset = s]
  <2>1. e \in BOOLEAN /\ s \in Nat
    BY DEF Account
  <2>2. y \in Account
    BY <2>1, Zenon DEF Account
  <2>3. /\ [y EXCEPT !.enabled = FALSE, !.banned = TRUE] \in Account
        /\ [y EXCEPT !.health = "cooldown_transient", !.cooldown = AuthCooldown] \in Account
    <3> HIDE DEF y
    <3> QED
      BY <2>2, Zenon DEF Account
  <2> QED
    BY <2>2, <2>3 DEF QuotaAuthFailure
<1>12. ASSUME NEW on \in BOOLEAN PROVE SetEnabled(x, on) \in Account
  <2> DEFINE y == [x EXCEPT !.enabled = on]
             c == IF x.reset > x.cooldown THEN x.reset ELSE x.cooldown
  <2>1. c \in Nat
    BY DEF Account
  <2>2. y \in Account
    BY Zenon DEF Account
  <2>3. /\ [y EXCEPT !.health = "disabled_durable", !.cooldown = 0, !.fails = 0] \in Account
        /\ [y EXCEPT !.health = "banned"] \in Account
        /\ [y EXCEPT !.health = "cooldown_quota", !.cooldown = c] \in Account
        /\ [y EXCEPT !.health = "ready", !.cooldown = 0, !.fails = 0] \in Account
    <3> HIDE DEF y, c
    <3> QED
      BY <2>1, <2>2, Zenon DEF Account
  <2> QED
    BY <2>2, <2>3 DEF SetEnabled
<1>13. MarkTransientCooldown(x) \in Account
  <2>1. TransientCooldown(0 + 1) \in Nat
    OBVIOUS
  <2>2. TransientCooldown(1) \in Nat
    BY <2>1
  <2> QED
    BY <2>2, Zenon DEF MarkTransientCooldown, Account
<1>14. MarkQuotaCooldown(x) \in Account
  BY Zenon DEF MarkQuotaCooldown, Account
<1> QED
  BY <1>2, <1>3, <1>4, <1>5, <1>6, <1>7, <1>8, <1>9, <1>10, <1>11, <1>12, <1>13, <1>14

(* The account a login leaves has the type and an empty label.              *)
LEMMA ReconnectedSound ==
  ASSUME NEW banned \in BOOLEAN, NEW exhausted \in BOOLEAN,
         NEW cooldown \in Nat, NEW reset \in Nat
  PROVE  Sound(Reconnected(banned, cooldown, exhausted, reset))
<1>1. FreshAccount \in Account
  BY FieldValues DEF FreshAccount, Account, HealthStates
<1>2. Reconnected(banned, cooldown, exhausted, reset) \in Account
  BY <1>1, Zenon DEF Reconnected, Account
<1>3. Reconnected(banned, cooldown, exhausted, reset).health = "unset"
  BY DEF Reconnected, FreshAccount
<1> QED
  BY <1>2, <1>3 DEF Sound, Agrees

(* Every write leaves the label in agreement with the flags.                *)
LEMMA WritesAgree ==
  ASSUME NEW x, Sound(x)
  PROVE  /\ Agrees(MarkSuccess(x))
         /\ Agrees(TokenRenewed(x))
         /\ Agrees(MarkTransientFailure(x))
         /\ Agrees(MarkBanned(x))
         /\ Agrees(MarkReloginRequired(x))
         /\ \A left \in Nat : Agrees(MarkQuotaExhausted(x, left))
         /\ Agrees(MarkTransientCooldown(x))
         /\ Agrees(MarkQuotaCooldown(x))
         /\ Agrees(Elapse(x))
         /\ Agrees(ClearTransientCooldown(x))
         /\ \A status \in QuotaStatuses, reset \in Nat : Agrees(ApplyQuotaSnapshot(x, status, reset))
         /\ \A w \in Reasons, seen \in Nat : Agrees(QuotaAuthFailure(x, w, seen))
         /\ \A on \in BOOLEAN : Agrees(SetEnabled(x, on))
<1> USE DEF Sound, Agrees, Account
<1>1. Agrees(MarkSuccess(x)) /\ Agrees(TokenRenewed(x))
  BY DEF MarkSuccess, TokenRenewed, NoQuota, QuotaServed
<1>2. Agrees(MarkTransientFailure(x)) /\ Agrees(MarkBanned(x))
  BY DEF MarkTransientFailure, MarkBanned
<1>3. Agrees(MarkReloginRequired(x))
  BY DEF MarkReloginRequired, NoQuota, QuotaServed
<1>4. ASSUME NEW left \in Nat PROVE Agrees(MarkQuotaExhausted(x, left))
  BY DEF MarkQuotaExhausted
<1>5. Agrees(Elapse(x))
  BY DEF Elapse
<1>6. Agrees(ClearTransientCooldown(x))
  BY DEF ClearTransientCooldown
<1>7. ASSUME NEW status \in QuotaStatuses, NEW reset \in Nat
      PROVE  Agrees(ApplyQuotaSnapshot(x, status, reset))
  BY DEF ApplyQuotaSnapshot
<1>8. ASSUME NEW w \in Reasons, NEW seen \in Nat PROVE Agrees(QuotaAuthFailure(x, w, seen))
  BY DEF QuotaAuthFailure
<1>9. ASSUME NEW on \in BOOLEAN PROVE Agrees(SetEnabled(x, on))
  BY DEF SetEnabled, Blocked, HoldOnEnable
<1>10. Agrees(MarkTransientCooldown(x)) /\ Agrees(MarkQuotaCooldown(x))
  BY DEF MarkTransientCooldown, MarkQuotaCooldown
<1> QED
  BY <1>1, <1>2, <1>3, <1>4, <1>5, <1>6, <1>7, <1>8, <1>9, <1>10

(* Both together, with the two writes that choose among the others.         *)
LEMMA WritesSound ==
  ASSUME NEW x, Sound(x)
  PROVE  /\ Sound(MarkSuccess(x)) /\ Sound(TokenRenewed(x))
         /\ Sound(Elapse(x)) /\ Sound(ClearTransientCooldown(x))
         /\ \A w \in Reasons : Sound(RefreshRejected(x, w))
         /\ \A class \in FailureClasses, left \in Nat : Sound(ApplyFailureDecision(x, class, left))
         /\ \A class \in FailureClasses : Sound(ApplyKiroDecision(x, class))
         /\ \A status \in QuotaStatuses, reset \in Nat : Sound(ApplyQuotaSnapshot(x, status, reset))
         /\ \A w \in Reasons, seen \in Nat : Sound(QuotaAuthFailure(x, w, seen))
         /\ \A on \in BOOLEAN : Sound(SetEnabled(x, on))
<1> USE WritesTyped, WritesAgree
<1>1. ASSUME NEW w \in Reasons PROVE Sound(RefreshRejected(x, w))
  BY DEF RefreshRejected, Sound
<1>2. ASSUME NEW class \in FailureClasses, NEW left \in Nat
      PROVE  Sound(ApplyFailureDecision(x, class, left))
  BY DEF ApplyFailureDecision, Sound
<1>3. ASSUME NEW class \in FailureClasses PROVE Sound(ApplyKiroDecision(x, class))
  BY DEF ApplyKiroDecision, Sound
<1> QED
  BY <1>1, <1>2, <1>3 DEF Sound

(* Whatever one step makes of a sound account is sound.                     *)
LEMMA RewrittenSound ==
  ASSUME NEW x, NEW y, Sound(x), Rewritten(x, y) \/ y = SetEnabled(x, TRUE)
  PROVE  Sound(y)
BY WritesSound DEF Rewritten

-----------------------------------------------------------------------------
(* No step but the owner's switches an account on: an account that is off   *)
(* cannot be picked after it.                                               *)
LEMMA RewrittenStaysOff ==
  ASSUME NEW x, NEW y, Sound(x), Rewritten(x, y), SwitchedOff(x)
  PROVE  ~Available(y)
<1>1. x \in Account /\ ~x.enabled
  BY DEF Sound, Agrees, SwitchedOff
<1>2. ASSUME NEW class \in FailureClasses, NEW left \in Nat
      PROVE  ~ApplyFailureDecision(x, class, left).enabled
  BY <1>1 DEF ApplyFailureDecision, MarkBanned, MarkReloginRequired, MarkQuotaExhausted,
              MarkTransientFailure, NoQuota, QuotaServed, Account
<1>9. ASSUME NEW class \in FailureClasses PROVE ~ApplyKiroDecision(x, class).enabled
  BY <1>1 DEF ApplyKiroDecision, MarkBanned, MarkReloginRequired, MarkQuotaCooldown,
              MarkTransientCooldown, NoQuota, QuotaServed, Account
<1>3. ASSUME NEW w \in Reasons PROVE ~RefreshRejected(x, w).enabled
  BY <1>1 DEF RefreshRejected, MarkBanned, MarkReloginRequired, NoQuota, QuotaServed, Account
<1>4. ASSUME NEW status \in QuotaStatuses, NEW reset \in Nat
      PROVE  ~ApplyQuotaSnapshot(x, status, reset).enabled
  BY <1>1 DEF ApplyQuotaSnapshot, Account
<1>5. ASSUME NEW w \in Reasons, NEW seen \in Nat
      PROVE  ~QuotaAuthFailure(x, w, seen).enabled
  BY <1>1 DEF QuotaAuthFailure, Account
<1>6. ~SetEnabled(x, FALSE).enabled
  BY <1>1 DEF SetEnabled, Account
<1>7. /\ ~Elapse(x).enabled
      /\ ~MarkSuccess(x).enabled
      /\ ~TokenRenewed(x).enabled
      /\ ~ClearTransientCooldown(x).enabled
  BY <1>1 DEF Elapse, MarkSuccess, TokenRenewed, ClearTransientCooldown, NoQuota, QuotaServed, Account
<1>8. ~y.enabled
  BY <1>1, <1>2, <1>3, <1>4, <1>5, <1>6, <1>7, <1>9 DEF Rewritten
<1> QED
  BY <1>8 DEF Available, SwitchedOff

(* A failure of any class but a malformed request puts the account out of   *)
(* rotation.                                                                *)
LEMMA FailureRests ==
  ASSUME NEW x \in Account, NEW class \in FailureClasses, class # "request_shape",
         NEW left \in Nat, left > 0
  PROVE  ~Available(ApplyFailureDecision(x, class, left))
<1>1. CASE class = "durable_disabled"
  BY <1>1 DEF ApplyFailureDecision, MarkBanned, Available, Blocked, Account
<1>2. CASE class = "auth_refreshable"
  BY <1>2, CooldownAssumption DEF ApplyFailureDecision, MarkReloginRequired, Available,
                                  NoQuota, QuotaServed, Account
<1>3. CASE class = "quota_cooldown"
  <2>1. ApplyFailureDecision(x, class, left) = MarkQuotaExhausted(x, left)
    BY <1>3 DEF ApplyFailureDecision
  <2>2. MarkQuotaExhausted(x, left).cooldown = left
    BY DEF MarkQuotaExhausted, Account
  <2> QED
    BY <2>1, <2>2 DEF Available
<1>4. CASE class \notin {"durable_disabled", "auth_refreshable", "quota_cooldown"}
  <2>1. x.fails \in Nat
    BY BackoffAssumption DEF Account
  <2>2. TransientCooldown(x.fails + 1) # 0
    BY <2>1, TransientCooldownPositive
  <2>3. ApplyFailureDecision(x, class, left) = MarkTransientFailure(x)
    BY <1>4 DEF ApplyFailureDecision
  <2> QED
    BY <2>2, <2>3 DEF MarkTransientFailure, Available, Account
<1> QED
  BY <1>1, <1>2, <1>3, <1>4

LEMMA KiroFailureRests ==
  ASSUME NEW x \in Account, NEW class \in FailureClasses
  PROVE  ~Available(ApplyKiroDecision(x, class))
<1>1. CASE class = "durable_disabled"
  BY <1>1 DEF ApplyKiroDecision, MarkBanned, Available, Blocked, Account
<1>2. CASE class = "auth_refreshable"
  BY <1>2, CooldownAssumption DEF ApplyKiroDecision, MarkReloginRequired, Available,
                                  NoQuota, QuotaServed, Account
<1>3. CASE class = "quota_cooldown"
  BY <1>3, CooldownAssumption DEF ApplyKiroDecision, MarkQuotaCooldown, Available, Account
<1>4. CASE class \notin {"durable_disabled", "auth_refreshable", "quota_cooldown"}
  <2>1. TransientCooldown(0 + 1) # 0
    BY TransientCooldownPositive
  <2>2. ApplyKiroDecision(x, class) = MarkTransientCooldown(x)
    BY <1>4 DEF ApplyKiroDecision
  <2> QED
    BY <2>1, <2>2 DEF MarkTransientCooldown, Available, Account
<1> QED
  BY <1>1, <1>2, <1>3, <1>4

(* A quota hold survives the writes that know nothing of quotas, and is not *)
(* shortened by them.                                                       *)
LEMMA QuotaHoldKept ==
  ASSUME NEW x \in Account, QuotaHeld(x),
         NEW y, \/ y = x
                \/ y = MarkTransientFailure(x)
                \/ y = TokenRenewed(x)
                \/ y = ClearTransientCooldown(x)
                \/ \E on \in BOOLEAN : y = SetEnabled(x, on)
  PROVE  QuotaHeld(y) /\ y.reset = x.reset
<1>1. ASSUME NEW on \in BOOLEAN
      PROVE  /\ SetEnabled(x, on).exhausted = x.exhausted
             /\ SetEnabled(x, on).reset = x.reset
  BY DEF SetEnabled, Account
<1>2. /\ MarkTransientFailure(x).exhausted = x.exhausted
      /\ MarkTransientFailure(x).reset = x.reset
  BY DEF MarkTransientFailure, Account
<1>3. /\ TokenRenewed(x).exhausted = x.exhausted
      /\ TokenRenewed(x).reset = x.reset
  BY DEF TokenRenewed, Account
<1>4. /\ ClearTransientCooldown(x).exhausted = x.exhausted
      /\ ClearTransientCooldown(x).reset = x.reset
  BY DEF ClearTransientCooldown, Account
<1> QED
  BY <1>1, <1>2, <1>3, <1>4 DEF QuotaHeld

-----------------------------------------------------------------------------

LEMMA SoundAccounts ==
  (StoreTypeOK /\ HealthAgrees)
    <=> (StoreTypeOK /\ \A a \in Accounts : Sound(acc[a]))
BY DEF StoreTypeOK, HealthAgrees, Sound, Agrees

OwnerReturns(a) == OwnerSwitches(a, TRUE) \/ OwnerConnects(a)

(* A step of the store: every account is rewritten in one of the ways       *)
(* Rewritten lists, or returned by the owner.                               *)
StoreStep ==
  /\ acc' = [a \in Accounts |-> acc'[a]]
  /\ \A a \in Accounts : Rewritten(acc[a], acc'[a]) \/ OwnerReturns(a)
  /\ present' \subseteq Accounts

(* A write touches one account, and only if it has not been deleted.        *)
LEMMA WriteOne ==
  ASSUME StoreTypeOK, NEW b, NEW rec, Write(b, rec)
  PROVE  /\ acc' = [a \in Accounts |-> acc'[a]]
         /\ \A a \in Accounts : acc'[a] = IF a = b /\ b \in present THEN rec ELSE acc[a]
         /\ present' = present
BY DEF Write, StoreTypeOK

LEMMA WriteRewrites ==
  ASSUME StoreTypeOK, NEW b, NEW rec, Write(b, rec), Rewritten(acc[b], rec)
  PROVE  StoreStep
<1>1. ASSUME NEW a \in Accounts PROVE Rewritten(acc[a], acc'[a])
  <2>1. CASE a = b /\ b \in present
    BY <2>1, WriteOne
  <2>2. CASE ~(a = b /\ b \in present)
    <3>1. acc'[a] = acc[a]
      BY <2>2, WriteOne
    <3> QED
      BY <3>1 DEF Rewritten
  <2> QED
    BY <2>1, <2>2
<1> QED
  BY <1>1, WriteOne DEF StoreStep, StoreTypeOK

LEMMA StoreKept ==
  ASSUME StoreTypeOK, UNCHANGED acc, present' \subseteq present
  PROVE  StoreStep
BY DEF StoreStep, StoreTypeOK, Rewritten

(* The timers and reasons a step may choose.                                *)
LEMMA Choices ==
  /\ LongCooldown \in Nat /\ LongCooldown > 0
  /\ \A left \in QuotaResets : left \in Nat /\ left > 0
  /\ \A reset \in QuotaResets \cup {0} : reset \in Nat
  /\ \A w \in AuthReasons : w \in Reasons
BY CooldownAssumption, ResetsAssumption DEF AuthReasons, Reasons

LEMMA ClassIsClass ==
  ASSUME NEW status, NEW w PROVE ClassifyHTTPFailure(status, w) \in FailureClasses
BY DEF ClassifyHTTPFailure, FailureClasses

-----------------------------------------------------------------------------
(* What the owner returns changes no other account.                         *)
LEMMA OwnerReturnsOne ==
  ASSUME StoreTypeOK, NEW b \in Accounts, OwnerReturns(b)
  PROVE  StoreStep
<1>1. /\ acc' = [a \in Accounts |-> acc'[a]]
      /\ present' \subseteq Accounts
      /\ \A a \in Accounts : a # b => acc'[a] = acc[a]
  <2>1. CASE OwnerSwitches(b, TRUE)
    BY <2>1, WriteOne DEF OwnerSwitches, StoreTypeOK
  <2>2. CASE OwnerConnects(b)
    BY <2>2 DEF OwnerConnects, StoreTypeOK
  <2> QED
    BY <2>1, <2>2 DEF OwnerReturns
<1> QED
  BY <1>1 DEF StoreStep, Rewritten

LEMMA DisturbRewrites ==
  ASSUME StoreTypeOK, NEW b \in Accounts, Disturb(b)
  PROVE  StoreStep
<1> DEFINE x == acc[b]
<1>1. CASE OwnerSwitches(b, TRUE) \/ OwnerConnects(b)
  BY <1>1, OwnerReturnsOne DEF OwnerReturns
<1>2. CASE OwnerSwitches(b, FALSE)
  <2>1. Rewritten(x, SetEnabled(x, FALSE))
    BY DEF Rewritten
  <2> QED
    BY <1>2, <2>1, WriteRewrites DEF OwnerSwitches
<1>3. CASE OwnerClears(b)
  <2>1. Rewritten(x, ClearTransientCooldown(x))
    BY DEF Rewritten
  <2> QED
    BY <1>3, <2>1, WriteRewrites DEF OwnerClears
<1>4. CASE OwnerDeletes(b)
  BY <1>4, StoreKept DEF OwnerDeletes
<1>5. CASE SnapshotArrives(b)
  <2>1. PICK status \in QuotaStatuses, reset \in QuotaResets \cup {0} :
          Write(b, ApplyQuotaSnapshot(x, status, reset))
    BY <1>5 DEF SnapshotArrives
  <2>2. Rewritten(x, ApplyQuotaSnapshot(x, status, reset))
    BY Choices DEF Rewritten
  <2> QED
    BY <2>1, <2>2, WriteRewrites
<1>6. CASE QuotaAuthFails(b)
  <2>1. PICK w \in AuthReasons, seen \in QuotaResets \cup {0} :
          Write(b, QuotaAuthFailure(x, w, seen))
    BY <1>6 DEF QuotaAuthFails
  <2>2. Rewritten(x, QuotaAuthFailure(x, w, seen))
    BY Choices DEF Rewritten
  <2> QED
    BY <2>1, <2>2, WriteRewrites
<1>7. CASE TokenRenewedElsewhere(b)
  <2>1. Rewritten(x, TokenRenewed(x))
    BY DEF Rewritten
  <2> QED
    BY <1>7, <2>1, WriteRewrites DEF TokenRenewedElsewhere
<1>8. CASE TokenRejectedElsewhere(b)
  <2>1. PICK w \in AuthReasons : Write(b, RefreshRejected(x, w))
    BY <1>8 DEF TokenRejectedElsewhere
  <2>2. Rewritten(x, RefreshRejected(x, w))
    BY Choices DEF Rewritten
  <2> QED
    BY <2>1, <2>2, WriteRewrites
<1> QED
  BY <1>1, <1>2, <1>3, <1>4, <1>5, <1>6, <1>7, <1>8 DEF Disturb

LEMMA TimeRewrites ==
  ASSUME StoreTypeOK, TimePasses
  PROVE  StoreStep
BY DEF StoreTypeOK, TimePasses, Rewritten, StoreStep

-----------------------------------------------------------------------------
(* The types and the agreement of labels and flags survive every step.      *)
LEMMA StoreTyped ==
  ASSUME StoreTypeOK, HealthAgrees, StoreStep
  PROVE  StoreTypeOK' /\ HealthAgrees'
<1>1. \A a \in Accounts : Sound(acc[a])
  BY SoundAccounts
<1>2. ASSUME NEW a \in Accounts PROVE Sound(acc'[a])
  <2>1. CASE Rewritten(acc[a], acc'[a])
    BY <1>1, <2>1, RewrittenSound
  <2>2. CASE OwnerSwitches(a, TRUE)
    <3>1. acc'[a] = SetEnabled(acc[a], TRUE) \/ acc'[a] = acc[a]
      BY <2>2, WriteOne DEF OwnerSwitches
    <3> QED
      BY <1>1, <3>1, RewrittenSound DEF Rewritten
  <2>3. CASE OwnerConnects(a)
    <3>1. PICK banned \in BOOLEAN, cooldown \in QuotaResets \cup {0},
               exhausted \in BOOLEAN, reset \in QuotaResets \cup {0} :
            acc' = [acc EXCEPT ![a] = Reconnected(banned, cooldown, exhausted, reset)]
      BY <2>3 DEF OwnerConnects
    <3>2. acc'[a] = Reconnected(banned, cooldown, exhausted, reset)
      BY <3>1 DEF StoreTypeOK
    <3> QED
      BY <3>2, Choices, ReconnectedSound
  <2> QED
    BY <2>1, <2>2, <2>3 DEF StoreStep, OwnerReturns
<1>3. acc' = [a \in Accounts |-> acc'[a]] /\ present' \subseteq Accounts
  BY DEF StoreStep
<1>4. acc' \in [Accounts -> Account]
  BY <1>2, <1>3 DEF Sound
<1> QED
  BY <1>2, <1>3, <1>4 DEF Sound, Agrees, HealthAgrees, StoreTypeOK

LEMMA StoreInitial ==
  ASSUME StoreInit
  PROVE  StoreTypeOK /\ HealthAgrees
BY FieldValues DEF StoreInit, StoreTypeOK, HealthAgrees, FreshAccount, Account, HealthStates

(* A switched-off account returns to the pool by the owner only.            *)
LEMMA OwnerAloneReturns ==
  ASSUME StoreTypeOK, HealthAgrees, StoreStep,
         NEW a \in Accounts, SwitchedOff(acc[a]), Available(acc'[a])
  PROVE  OwnerReturns(a)
<1>1. Sound(acc[a])
  BY SoundAccounts
<1> QED
  BY <1>1, RewrittenStaysOff DEF StoreStep
=============================================================================
