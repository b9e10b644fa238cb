---------------------------- MODULE KiroPromises ----------------------------
(***************************************************************************)
(* KiroExec with a history of what each request met on its way, and what   *)
(* the requirements of the Kiro path (.kiro/specs/kiro-runtime-parity) ask *)
(* of it.                                                                  *)
(***************************************************************************)
EXTENDS KiroExec

VARIABLE heard      \* per request, the accounts and the classes of failure
                    \* met on them, by the failure policy's names

pvars == <<vars, heard>>

Met(r) ==
  IF RenewFails(r) \/ BuildFails(r) \/ HostRejects(r) THEN {<<cur[r], AttemptClass(r)'>>}
  ELSE IF HostFails(r) THEN {<<cur[r], "retryable_transport">>}
  ELSE {}

PInit == Init /\ heard = [r \in Requests |-> {}]
PNext == Next /\ heard' = [r \in Requests |-> heard[r] \cup Met(r)]
PSpec == PInit /\ [][PNext]_pvars /\ WF_pvars(\E r \in Requests : pc[r] # "new" /\ Step(r))

(* An account one of the hosts reports as deactivated is banned when the    *)
(* attempt fails: requirements.md:116, "WHEN a Kiro failure implies         *)
(* relogin, quota cooldown, or account disablement THEN the system SHALL    *)
(* apply the correct account-state transition".  executeWithAccount keeps   *)
(* the last host's status and message only.                                 *)
DeactivatedIsBanned ==
  [][\A r \in Requests, a \in present :
       AttemptFails(r) /\ <<a, "durable_disabled">> \in heard[r] /\ cur[r] = a
         => Blocked(acc'[a])]_pvars
=============================================================================
