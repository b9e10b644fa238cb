---------------------------- MODULE AccountStore ----------------------------
(***************************************************************************)
(* The accounts of one provider in the store (internal/config), and        *)
(* everything that writes them besides the requests: the owner, the quota  *)
(* service, the token refresh of other callers and the clock.  Each action *)
(* is one write under the store's mutex.  The modules of the providers'    *)
(* request paths extend this one and compose its actions with their own.   *)
(***************************************************************************)
EXTENDS FailurePolicy

CONSTANTS
  Accounts,       \* the accounts that may be in the store
  QuotaResets     \* the reset times an exhausted quota may be reported with

ASSUME ResetsAssumption == QuotaResets \subseteq Nat \ {0}

VARIABLES
  acc,            \* the accounts' records
  present         \* the accounts in the store

store == <<acc, present>>

(* Reasons for which the token endpoint or the quota endpoint may fail.     *)
AuthReasons == {"blocked", "refreshable", "quota", "plain"}

Ready(a) == a \in present /\ Available(acc[a])

(* The accounts the file holds at startup, each as its login left it.       *)
StoreInit ==
  /\ acc = [a \in Accounts |-> FreshAccount]
  /\ present = Accounts

StoreTypeOK ==
  /\ acc \in [Accounts -> Account]
  /\ present \subseteq Accounts

(* UpdateAccount: a write to a deleted account fails and changes nothing.   *)
Write(a, rec) ==
  /\ acc' = IF a \in present THEN [acc EXCEPT ![a] = rec] ELSE acc
  /\ UNCHANGED present

-----------------------------------------------------------------------------
(* The owner.                                                               *)

OwnerSwitches(a, on) == a \in present /\ Write(a, SetEnabled(acc[a], on))
OwnerClears(a) == a \in present /\ Write(a, ClearTransientCooldown(acc[a]))
OwnerDeletes(a) == a \in present /\ present' = present \ {a} /\ UNCHANGED acc

(* A login ends.  It has read the account it replaces before, in a step of  *)
(* its own, and writes the cooldown, the quota and (Kiro only) the ban it   *)
(* saw: they may be stale, and the account may have been deleted meanwhile. *)
OwnerConnects(a) ==
  /\ \E banned \in BOOLEAN, cooldown \in QuotaResets \cup {0},
        exhausted \in BOOLEAN, reset \in QuotaResets \cup {0} :
       acc' = [acc EXCEPT ![a] = Reconnected(banned, cooldown, exhausted, reset)]
  /\ present' = present \cup {a}

-----------------------------------------------------------------------------
(* The quota service and the token refresh.                                 *)

SnapshotArrives(a) ==
  \E status \in QuotaStatuses, reset \in QuotaResets \cup {0} :
    Write(a, ApplyQuotaSnapshot(acc[a], status, reset))

QuotaAuthFails(a) ==
  \E w \in AuthReasons, seen \in QuotaResets \cup {0} :
    Write(a, QuotaAuthFailure(acc[a], w, seen))

TokenRenewedElsewhere(a) == Write(a, TokenRenewed(acc[a]))
TokenRejectedElsewhere(a) ==
  \E w \in AuthReasons : Write(a, RefreshRejected(acc[a], w))

Disturb(a) ==
  \/ \E on \in BOOLEAN : OwnerSwitches(a, on)
  \/ OwnerClears(a)
  \/ OwnerDeletes(a)
  \/ OwnerConnects(a)
  \/ SnapshotArrives(a)
  \/ QuotaAuthFails(a)
  \/ TokenRenewedElsewhere(a)
  \/ TokenRejectedElsewhere(a)

TimePasses ==
  /\ acc' = [a \in Accounts |-> Elapse(acc[a])]
  /\ UNCHANGED present

-----------------------------------------------------------------------------
(* The stored health label never contradicts the flags the pool decides by: *)
(* a label "banned" comes with the banned flag, "disabled_durable" with     *)
(* Enabled off, and "ready" with no cooldown running, whatever interleaving *)
(* of requests, quota snapshots, logins and owner's actions wrote the       *)
(* record.                                                                  *)
HealthAgrees ==
  \A a \in Accounts :
    /\ acc[a].health = "banned" => acc[a].banned
    /\ acc[a].health = "disabled_durable" => ~acc[a].enabled
    /\ acc[a].health = "ready" => acc[a].cooldown = 0

(* An account that is switched off, by the owner or because the provider    *)
(* blocked it, comes back into rotation by the owner switching it on or     *)
(* logging in again and by nothing else: not by a late success, a renewed   *)
(* token or a good quota reading, although each of those clears the banned  *)
(* flag or the label.                                                       *)
OnlyOwnerReturnsAccount ==
  [][\A a \in Accounts :
       SwitchedOff(acc[a]) /\ Available(acc'[a])
         => OwnerSwitches(a, TRUE) \/ OwnerConnects(a)]_store
=============================================================================
