--------------------------- MODULE FailurePolicy ---------------------------
(***************************************************************************)
(* How a failed attempt is classified, what the retry planner decides and  *)
(* what the decision does to the account.  A failure is known by its HTTP  *)
(* status and by the reason its message is recognised as:                  *)
(*   "blocked"      the account was deactivated or suspended,              *)
(*   "refreshable"  the token is invalid, expired or already used,         *)
(*   "quota"        the message speaks of a quota or a rate limit,         *)
(*   "shape"        the message speaks of an invalid request,              *)
(*   "plain"        none of these.                                         *)
(***************************************************************************)
EXTENDS AccountHealth

Reasons == {"blocked", "refreshable", "quota", "shape", "plain"}
Statuses == {400, 401, 403, 404, 422, 429, 500, 502, 503, 504}
AuthStatuses == {401, 403}
ShapeStatuses == {400, 422}
RetryableStatuses == {500, 502, 503, 504}

FailureClasses == {"retryable_transport", "auth_refreshable", "quota_cooldown",
                   "durable_disabled", "request_shape", "empty_stream", "provider_fatal"}

ClassifyHTTPFailure(status, why) ==
  IF why = "blocked" THEN "durable_disabled"
  ELSE IF why = "refreshable" /\ status \in AuthStatuses THEN "auth_refreshable"
  ELSE IF status = 429 \/ why = "quota" THEN "quota_cooldown"
  ELSE IF status \in AuthStatuses THEN "auth_refreshable"
  ELSE IF status \in ShapeStatuses \/ why = "shape" THEN "request_shape"
  ELSE IF status \in RetryableStatuses THEN "retryable_transport"
  ELSE "provider_fatal"

(* FailureDecision.RetryAllowed.  An authentication failure may be retried  *)
(* on another account only when its message says the token is refreshable.  *)
RetryAllowed(status, why) ==
  \/ why = "refreshable" /\ status \in AuthStatuses
  \/ ClassifyHTTPFailure(status, why) = "retryable_transport"

(* FailureDecision.Status, the status the failure is reported with.         *)
ReportedStatus(status, why) ==
  LET class == ClassifyHTTPFailure(status, why)
  IN IF class \in {"durable_disabled", "auth_refreshable"} THEN 401
     ELSE IF class = "quota_cooldown" THEN 429
     ELSE 502

(* RetryPlanner.Decide: whether the token is refreshed and the account      *)
(* tried once more, and whether the request gives the account up.  Nothing  *)
(* has been sent to the client while an attempt runs.                       *)
(* Fault (RefreshAuthAgain): the refreshed attempt may refresh once more.   *)
RefreshAuthAgain(status, recovered) == status \in AuthStatuses
RefreshAuth(status, recovered) == status \in AuthStatuses /\ ~recovered
ExcludeAccount(status, why) == status = 429 \/ RetryAllowed(status, why)

(* Fault: a failure of no special class leaves the account as it is.        *)
ApplyFailureDecisionNoDefault(acc, class, left) ==
  CASE class = "durable_disabled" -> MarkBanned(acc)
    [] class = "auth_refreshable" -> MarkReloginRequired(acc)
    [] class = "quota_cooldown"   -> MarkQuotaExhausted(acc, left)
    [] OTHER                      -> acc

ApplyFailureDecision(acc, class, left) ==
  CASE class = "request_shape"    -> acc
    [] class = "durable_disabled" -> MarkBanned(acc)
    [] class = "auth_refreshable" -> MarkReloginRequired(acc)
    [] class = "quota_cooldown"   -> MarkQuotaExhausted(acc, left)
    [] OTHER                      -> MarkTransientFailure(acc)

(* The same decision in the Kiro service.  A request the provider calls     *)
(* malformed rests the account like any other failure.                      *)
(* Fault: a failure of no special class leaves the account as it is.        *)
ApplyKiroDecisionNoDefault(acc, class) ==
  CASE class = "durable_disabled" -> MarkBanned(acc)
    [] class = "auth_refreshable" -> MarkReloginRequired(acc)
    [] class = "quota_cooldown"   -> MarkQuotaCooldown(acc)
    [] OTHER                      -> acc

(* Fault: the account is labelled banned before it is switched off.         *)
ApplyKiroDecisionLabelOnly(acc, class) ==
  CASE class = "durable_disabled" -> [acc EXCEPT !.health = "banned"]
    [] class = "auth_refreshable" -> MarkReloginRequired(acc)
    [] class = "quota_cooldown"   -> MarkQuotaCooldown(acc)
    [] OTHER                      -> MarkTransientCooldown(acc)

ApplyKiroDecision(acc, class) ==
  CASE class = "durable_disabled" -> MarkBanned(acc)
    [] class = "auth_refreshable" -> MarkReloginRequired(acc)
    [] class = "quota_cooldown"   -> MarkQuotaCooldown(acc)
    [] OTHER                      -> MarkTransientCooldown(acc)
=============================================================================
