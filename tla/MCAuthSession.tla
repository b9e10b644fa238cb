--------------------------- MODULE MCAuthSession ---------------------------
(* One session of any kind, next to Kiro device logins.                     *)
EXTENDS AuthSession, TLC

CONSTANTS s1

AnyAndDevice == [s \in Sessions |-> IF s = s1 THEN Kinds ELSE {"device"}]
=============================================================================
