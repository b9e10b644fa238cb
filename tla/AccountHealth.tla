--------------------------- MODULE AccountHealth ---------------------------
(***************************************************************************)
(* What the runtime keeps about one account and every write it makes to    *)
(* it.  The writes are the functions passed to config.Manager's            *)
(* UpdateAccount, which runs them under the store's mutex: each operator   *)
(* below is one atomic write, from the account before to the one after.    *)
(*                                                                         *)
(* Times are kept as the number of time units still to run (0: the moment  *)
(* has passed), so that no clock is needed and "cooldown > 0" is the       *)
(* code's CooldownUntil > now.  Counters that nothing reads, reasons and   *)
(* messages are left out.                                                  *)
(***************************************************************************)
EXTENDS Naturals, Sequences

CONSTANTS
  Backoff,        \* the transient cooldowns, one per consecutive failure
  AuthCooldown,   \* the cooldown of an account that needs a new login
  LongCooldown    \* the cooldown when the provider gives no reset time

ASSUME BackoffAssumption ==
  /\ Len(Backoff) \in Nat \ {0}
  /\ \A i \in 1..Len(Backoff) : Backoff[i] \in Nat \ {0}
ASSUME CooldownAssumption ==
  /\ AuthCooldown \in Nat \ {0}
  /\ LongCooldown \in Nat \ {0}

HealthStates == {"unset", "ready", "cooldown_quota", "cooldown_transient",
                 "disabled_durable", "banned"}

(* exhausted is Quota.Status = "exhausted", reset the latest reset time of  *)
(* the quota's buckets, which a quota that is not exhausted may have too.   *)
Account == [enabled   : BOOLEAN,
            banned    : BOOLEAN,
            health    : HealthStates,
            cooldown  : Nat,
            fails     : 0..Len(Backoff),
            exhausted : BOOLEAN,
            reset     : Nat]

FreshAccount == [enabled |-> TRUE, banned |-> FALSE, health |-> "unset",
                 cooldown |-> 0, fails |-> 0, exhausted |-> FALSE, reset |-> 0]

-----------------------------------------------------------------------------
(* Reading an account.                                                      *)

Blocked(acc) == acc.banned \/ acc.health = "banned"
SwitchedOff(acc) == ~acc.enabled \/ acc.health = "disabled_durable"
QuotaHeld(acc) == acc.exhausted /\ acc.reset > 0

Available(acc) == /\ ~Blocked(acc)
                  /\ ~SwitchedOff(acc)
                  /\ acc.cooldown = 0
                  /\ ~QuotaHeld(acc)

TransientCooldown(n) ==
  IF n = 0 THEN 0 ELSE Backoff[IF n > Len(Backoff) THEN Len(Backoff) ELSE n]

-----------------------------------------------------------------------------
(* Writes of the request path.                                              *)

(* A success makes an exhausted quota healthy, and leaves the reset times.  *)
QuotaServed(acc) == [acc EXCEPT !.exhausted = FALSE]

(* A needed login replaces the quota by one without buckets.                *)
NoQuota(acc) == [acc EXCEPT !.exhausted = FALSE, !.reset = 0]

(* Fault: a success also switches the account back on.                      *)
MarkSuccessSwitchingOn(acc) ==
  [QuotaServed(acc) EXCEPT !.enabled = TRUE, !.banned = FALSE, !.health = "ready",
                           !.cooldown = 0, !.fails = 0]

MarkSuccess(acc) ==
  [QuotaServed(acc) EXCEPT !.banned = FALSE, !.health = "ready",
                           !.cooldown = 0, !.fails = 0]

(* Fault: the quota status is overwritten instead of kept when there is one. *)
MarkTransientFailureForgettingQuota(acc) ==
  [NoQuota(acc) EXCEPT
     !.health   = "cooldown_transient",
     !.cooldown = TransientCooldown(acc.fails + 1),
     !.fails    = IF acc.fails < Len(Backoff) THEN acc.fails + 1 ELSE acc.fails]

MarkTransientFailure(acc) ==
  [acc EXCEPT
     !.health   = "cooldown_transient",
     !.cooldown = TransientCooldown(acc.fails + 1),
     !.fails    = IF acc.fails < Len(Backoff) THEN acc.fails + 1 ELSE acc.fails]

MarkBanned(acc) ==
  [acc EXCEPT !.enabled = FALSE, !.banned = TRUE, !.health = "banned",
              !.cooldown = 0, !.fails = 0]

(* Fault: a label the pool does not know.                                   *)
MarkReloginRequiredMislabelled(acc) ==
  [NoQuota(acc) EXCEPT !.health = "relogin", !.cooldown = AuthCooldown]

MarkReloginRequired(acc) ==
  [NoQuota(acc) EXCEPT !.health = "cooldown_transient", !.cooldown = AuthCooldown]

MarkQuotaExhausted(acc, left) ==
  [acc EXCEPT !.health = "cooldown_quota", !.cooldown = left,
              !.exhausted = TRUE, !.reset = left]

-----------------------------------------------------------------------------
(* Writes of the Kiro request path.  They lift a ban (Enabled stays off) and *)
(* leave the quota record and the number of failures as they are.           *)

(* Fault: an account that serves is taken to be switched on.                *)
MarkServedSwitchingOn(acc) ==
  [acc EXCEPT !.enabled = TRUE, !.banned = FALSE, !.health = "ready", !.cooldown = 0, !.fails = 0]

MarkServed(acc) ==
  [acc EXCEPT !.banned = FALSE, !.health = "ready", !.cooldown = 0, !.fails = 0]

MarkTransientCooldown(acc) ==
  [acc EXCEPT !.banned = FALSE, !.health = "cooldown_transient",
              !.cooldown = TransientCooldown(1)]

(* Fault: the label is written and the time to wait is not.                 *)
MarkQuotaCooldownForgotten(acc) ==
  [acc EXCEPT !.banned = FALSE, !.health = "cooldown_quota"]

MarkQuotaCooldown(acc) ==
  [acc EXCEPT !.banned = FALSE, !.health = "cooldown_quota", !.cooldown = LongCooldown]

-----------------------------------------------------------------------------
(* Writes of the token refresh.                                             *)

(* Fault: the cooldown is not reset with the label.                         *)
TokenRenewedStillCooling(acc) ==
  [acc EXCEPT !.banned = FALSE, !.health = "ready", !.fails = 0]

TokenRenewed(acc) ==
  [acc EXCEPT !.banned = FALSE, !.health = "ready", !.cooldown = 0, !.fails = 0]

(* What the auth service writes when the token endpoint rejects a refresh   *)
(* with a message of the given kind.                                        *)
RefreshRejected(acc, why) ==
  CASE why = "blocked"     -> MarkBanned(acc)
    [] why = "refreshable" -> MarkReloginRequired(acc)
    [] OTHER               -> acc

-----------------------------------------------------------------------------
(* Writes of the quota service.  A snapshot is what the provider answered,  *)
(* or what was made up from the account when it did not:                    *)
(*   "spent"        a bucket is used up, and the status does not say so (an *)
(*                  old bucket was copied into a quota made up)             *)
(*   "deactivated"  by its status, or by the text of a quota that is not    *)
(*                  exhausted                                               *)
(*   "blocked"      an exhausted quota, with the text of a blocked account. *)

QuotaStatuses == {"healthy", "spent", "exhausted", "deactivated", "blocked"}

ApplyQuotaSnapshot(acc, status, reset) ==
  LET read == [acc EXCEPT !.exhausted = (status \in {"exhausted", "blocked"}), !.reset = reset]
  IN CASE status \in {"deactivated", "blocked"} ->
            [read EXCEPT !.enabled = FALSE, !.banned = TRUE, !.health = "banned"]
       [] status \in {"exhausted", "spent"} ->
            IF ~acc.enabled /\ acc.health = "disabled_durable"
              THEN read
              ELSE [read EXCEPT !.health = "cooldown_quota",
                                !.cooldown = IF reset > 0 THEN reset ELSE LongCooldown]
       [] OTHER ->
            IF acc.health = "cooldown_quota"
              THEN [read EXCEPT !.health = "ready", !.cooldown = 0, !.fails = 0]
              ELSE read

(* The quota refresh could not obtain a fresh token: the quota is derived   *)
(* from the cooldown seen when the refresh began (an active one reads as an *)
(* exhausted session, and without one the buckets stay as they are), and    *)
(* the reason is applied on top.                                            *)
QuotaAuthFailure(acc, why, seen) ==
  LET read == [acc EXCEPT !.exhausted = (seen > 0 /\ why # "refreshable"),
                          !.reset = IF seen > 0 THEN seen ELSE @]
  IN CASE why = "blocked"     -> [read EXCEPT !.enabled = FALSE, !.banned = TRUE]
       [] why = "refreshable" -> [read EXCEPT !.health = "cooldown_transient",
                                              !.cooldown = AuthCooldown]
       [] OTHER               -> read

-----------------------------------------------------------------------------
(* Writes of the owner, through the desktop window.                         *)

HoldOnEnable(acc) ==
  \/ acc.health = "cooldown_quota" /\ acc.cooldown > 0
  \/ acc.exhausted /\ (acc.cooldown > 0 \/ acc.reset > 0)

SetEnabled(acc, on) ==
  LET switched == [acc EXCEPT !.enabled = on]
  IN CASE ~on /\ Blocked(acc) -> switched
       [] ~on /\ ~Blocked(acc) ->
            [switched EXCEPT !.health = "disabled_durable", !.cooldown = 0, !.fails = 0]
       [] on /\ Blocked(acc) -> [switched EXCEPT !.health = "banned"]
       [] on /\ ~Blocked(acc) /\ HoldOnEnable(acc) ->
            [switched EXCEPT !.health = "cooldown_quota",
                             !.cooldown = IF acc.reset > acc.cooldown
                                            THEN acc.reset ELSE acc.cooldown]
       [] OTHER -> [switched EXCEPT !.health = "ready", !.cooldown = 0, !.fails = 0]

MayClearCooldown(acc) ==
  /\ ~Blocked(acc)
  /\ ~SwitchedOff(acc)
  /\ acc.health # "cooldown_quota" /\ ~QuotaHeld(acc)
  /\ acc.health = "cooldown_transient" \/ acc.cooldown > 0

(* A login ends on an account the store knows: the record is new but for    *)
(* the cooldown, the quota and, with Kiro, the ban of the one it replaces.  *)
Reconnected(banned, cooldown, exhausted, reset) ==
  [FreshAccount EXCEPT !.banned = banned, !.cooldown = cooldown,
                       !.exhausted = exhausted, !.reset = reset]

ClearTransientCooldown(acc) ==
  IF MayClearCooldown(acc)
    THEN [acc EXCEPT !.health = "ready", !.cooldown = 0, !.fails = 0]
    ELSE acc

-----------------------------------------------------------------------------
(* One time unit passes.                                                    *)
Elapse(acc) ==
  [acc EXCEPT !.cooldown = IF acc.cooldown > 0 THEN acc.cooldown - 1 ELSE 0,
              !.reset    = IF acc.reset > 0 THEN acc.reset - 1 ELSE 0]
=============================================================================
